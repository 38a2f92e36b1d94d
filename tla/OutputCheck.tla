---------------------------- MODULE OutputCheck ----------------------------
(***************************************************************************)
(* The text of one test: what an author enters as the expected output,     *)
(* what the program prints, what of it the runner keeps, and when          *)
(* execute_submission_check takes the two for equal.                       *)
(*                                                                         *)
(* A text is a sequence of characters, of which the code distinguishes     *)
(* blanks, the two line end characters and everything else.                *)
(***************************************************************************)
EXTENDS Naturals, Sequences, FiniteSets, FiniteSetsExt, SequencesExt

CONSTANTS
    Visible,    \* characters that are no white space
    MaxEntered, \* bound: the longest expected output
    MaxPrinted, \* bound: the longest output
    MaxOutput   \* the longest output the runner keeps

ASSUME LengthAssumption == MaxEntered \in Nat /\ MaxPrinted \in Nat /\ MaxOutput \in Nat
LF == "\n"
CR == "\r"
Blank == " "
White == {LF, CR, Blank}
ASSUME VisibleAssumption == Visible \intersect White = {}

Texts(length) == BoundedSeq(White \union Visible, length)

VARIABLES
    entered,    \* the expected output as posted by the form
    expected,   \* the expected_output column
    printed,    \* what the program writes to its standard output
    stdout,     \* the "stdout" of the runner's result
    step        \* "enter", "run", "compare", then the verdict

textVars == <<entered, expected, printed, stdout, step>>

-----------------------------------------------------------------------------
(* str.rstrip, str.strip and list.pop at the end of a list.                *)

DropTail(s, Dropped) ==
    SubSeq(s, 1, Max({0} \union {i \in DOMAIN s : s[i] \notin Dropped}))

DropHead(s, Dropped) ==
    SubSeq(s, Min({Len(s) + 1} \union {i \in DOMAIN s : s[i] \notin Dropped}), Len(s))

Strip(s) == DropHead(DropTail(s, White), White)

(* The k-th smallest of some positions.                                    *)
Rank(S, i) == Cardinality({j \in S : j <= i})
Nth(S, k) == CHOOSE i \in S : Rank(S, i) = k

(* CRLF and then CR become LF; text mode pipes do the same.                *)
Kept(s) == {i \in DOMAIN s : ~(s[i] = CR /\ i < Len(s) /\ s[i + 1] = LF)}
Unix(c) == IF c = CR THEN LF ELSE c
UnixLines(s) == [k \in 1..Cardinality(Kept(s)) |-> Unix(s[Nth(Kept(s), k)])]

Cuts(s) == {0, Len(s) + 1} \union {i \in DOMAIN s : s[i] = LF}
SplitLines(s) ==
    [k \in 1..Cardinality(Cuts(s)) - 1 |->
        SubSeq(s, Nth(Cuts(s), k) + 1, Nth(Cuts(s), k + 1) - 1)]

(* Mutant: blanks inside a line do not count either.                       *)
NormalizeBlanks(s) ==
    LET lines == SplitLines(UnixLines(s))
    IN  DropTail([k \in DOMAIN lines |-> SelectSeq(lines[k], LAMBDA c : c # Blank)], {<<>>})

(* The lines are not joined again: the last one is never empty, so the     *)
(* lists are equal just when the joined texts are.                         *)
normalize_output(s) ==
    LET lines == SplitLines(UnixLines(s))
    IN  DropTail([k \in DOMAIN lines |-> DropTail(lines[k], White)], {<<>>})

clip(s) == SubSeq(s, 1, Min({Len(s), MaxOutput}))

-----------------------------------------------------------------------------
TextInit ==
    /\ entered \in {s \in Texts(MaxEntered) : Strip(s) # <<>>}
    /\ printed \in Texts(MaxPrinted)
    /\ expected = <<>>
    /\ stdout = <<>>
    /\ step = "enter"

(* The field of the form strips what was posted.                           *)
Enter ==
    /\ step = "enter"
    /\ expected' = Strip(entered)
    /\ step' = "run"
    /\ UNCHANGED <<entered, printed, stdout>>

(* Mutant: the output is kept as printed.                                  *)
RunUnstripped ==
    /\ step = "run"
    /\ stdout' = clip(UnixLines(printed))
    /\ step' = "compare"
    /\ UNCHANGED <<entered, expected, printed>>

(* _run, for a program that exits with 0 in time.                          *)
Run ==
    /\ step = "run"
    /\ stdout' = Strip(clip(UnixLines(printed)))
    /\ step' = "compare"
    /\ UNCHANGED <<entered, expected, printed>>

Compare ==
    /\ step = "compare"
    /\ step' = IF normalize_output(stdout) = normalize_output(expected)
               THEN "passed" ELSE "rejected"
    /\ UNCHANGED <<entered, expected, printed, stdout>>

TextNext == Enter \/ Run \/ Compare

TextSpec == TextInit /\ [][TextNext]_textVars

-----------------------------------------------------------------------------
(* What the header of tasks.py says two texts must have in common, without *)
(* lines and without stripping: every character that some visible one      *)
(* follows on its line, at its place.                                      *)

LineStart(s, i) == Max({0} \union {j \in 1 .. i - 1 : s[j] = LF})
LineNumber(s, i) == Cardinality({j \in 1 .. i - 1 : s[j] = LF})

Significant(s) ==
    {i \in DOMAIN s :
        \E j \in i .. Len(s) : s[j] \in Visible /\ LineStart(s, j) = LineStart(s, i)}

Content(text) ==
    LET s == UnixLines(text)
    IN  {<<LineNumber(s, i), i - LineStart(s, i), s[i]>> : i \in Significant(s)}

(* The same from the first visible character on: the runner and the form   *)
(* strip both ends, which the header does not say.                         *)
Body(text) == Content(DropHead(text, White))

TextsTyped ==
    /\ entered \in Texts(MaxEntered)
    /\ expected \in Texts(MaxEntered)
    /\ printed \in Texts(MaxPrinted)
    /\ stdout \in Texts(MaxOutput)
    /\ step \in {"enter", "run", "compare", "passed", "rejected"}

(* What the runner reads of an output before it cuts the rest off.         *)
Read(text) == SubSeq(UnixLines(text), 1, Min({MaxOutput, Len(UnixLines(text))}))

(* The cut takes nothing but white space: whatever is visible of the       *)
(* output is among the first MaxOutput characters that the pipe delivers.  *)
Fits(text) ==
    \A i \in MaxOutput + 1 .. Len(UnixLines(text)) : UnixLines(text)[i] \in White

(* A program that prints what the author entered, with any line ends and   *)
(* any white space around it, passes as long as the cut at MAX_OUTPUT      *)
(* spares it: the form and the runner both strip, so an indented first     *)
(* line does not keep a correct program from passing. A correct output     *)
(* that white space carries beyond the cut is rejected.                    *)
ExactOutputPasses ==
    step = "rejected" /\ Fits(printed) => Body(UnixLines(printed)) # Body(entered)

(* And nothing else passes: in what is left of an output after the cut,    *)
(* lines, columns and inner blanks count.                                  *)
PassedMeansSameBody == step = "passed" => Body(Read(printed)) = Body(entered)

=============================================================================
