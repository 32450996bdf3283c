------------------------------ MODULE Commands ------------------------------
(***************************************************************************)
(* What the program makes of its arguments (src/main.rs).  Two passes over *)
(* them, one for the version and one for the words, must agree on which    *)
(* argument is the value of a flag.                                        *)
(*                                                                         *)
(* A line is [command, rest].  An argument is a word, the flag             *)
(* "--wfp-version", "flagged" for "--wfp-version=" with its text, or       *)
(* another "option" that begins with "--".                                 *)
(***************************************************************************)
EXTENDS Integers, Sequences, SequencesExt

CONSTANTS
    V02, V03,  \* the texts "0.2" and "0.3"
    Dashes     \* a text that begins with "--"

Flags == {"flag", "flagged"}

(* parse_wfp_version: one version, or none *)
ParseWfpVersion(text) == {V02, V03} \cap {text}

(* An argument as the text a flag before it takes *)
TextOf(argument) == IF argument.is = "word" THEN argument.text ELSE Dashes

(* has_version_flag *)
HasVersionFlag(rest) == \E n \in DOMAIN rest : rest[n].is \in Flags

(* version_flag_value: the first flag counts; none is 0.2. *)
VersionFlagValue(rest) ==
    LET n == SelectInSeq(rest, LAMBDA a : a.is \in Flags)
    IN IF n = 0 THEN {V02}
       ELSE IF rest[n].is = "flagged" THEN ParseWfpVersion(rest[n].text)
       ELSE UNION {ParseWfpVersion(TextOf(rest[m])) : m \in {n + 1} \cap DOMAIN rest}

PositionalWithValues(rest) ==
    LET words == SelectSeq(rest, LAMBDA a : a.is = "word")
    IN [n \in DOMAIN words |-> words[n].text]

(* positional_arguments: the words, but not one that a flag takes *)
PositionalArguments(rest) ==
    LET step(pass, a) ==
            IF pass.skip THEN [pass EXCEPT !.skip = FALSE]
            ELSE IF a.is = "flag" THEN [pass EXCEPT !.skip = TRUE]
            ELSE IF a.is = "word" THEN [pass EXCEPT !.words = Append(@, a.text)]
            ELSE pass
    IN FoldLeft(step, [skip |-> FALSE, words |-> <<>>], rest).words

(* parse_arguments: one command, or none *)
ParseArguments(line) ==
    LET words == PositionalArguments(line.rest)
        versions == VersionFlagValue(line.rest)
    IN CASE line.command = "receive" /\ words = <<>> ->
              {[run |-> "receive", version |-> v] : v \in versions}
         [] line.command = "discover" /\ words = <<>> /\ ~HasVersionFlag(line.rest) ->
              {[run |-> "discover"]}
         [] line.command = "send" /\ Len(words) = 2 ->
              {[run |-> "send", file |-> words[1], destination |-> words[2], version |-> v] :
                  v \in versions}
         [] OTHER -> {}

-----------------------------------------------------------------------------
(* The line with its first version flag in front, spelt with "=". *)
FlagInFront(line) ==
    LET rest == line.rest
        n == SelectInSeq(rest, LAMBDA a : a.is \in Flags)
        last == IF rest[n].is = "flag" THEN n + 1 ELSE n
        text == IF last = n THEN rest[n].text ELSE TextOf(rest[last])
    IN IF n = 0 \/ last > Len(rest) THEN line
       ELSE [line EXCEPT !.rest = << [is |-> "flagged", text |-> text] >>
                \o SubSeq(rest, 1, n - 1) \o SubSeq(rest, last + 1, Len(rest))]

(* The version may stand anywhere and in either spelling: the line means   *)
(* what it means with the flag in front.                                   *)
ReadsAlike(line) == ParseArguments(FlagInFront(line)) = ParseArguments(line)
=============================================================================
