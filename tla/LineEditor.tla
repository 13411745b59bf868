----------------------------- MODULE LineEditor -----------------------------
(***************************************************************************)
(* The line editor of the demo (cmd/timeflip-demo/line_editor.go) and the  *)
(* prompts that use it (io.go): lines are edited key by key, those of the  *)
(* command prompt are kept and can be recalled, also at the prompts for an *)
(* answer or a secret.                                                     *)
(***************************************************************************)
EXTENDS Naturals, Sequences, SequencesExt

CONSTANTS
    Char,       \* characters, other than the blank
    Space,      \* white space, which is trimmed from the ends of a line
    MaxHistory, \* lines kept: 100 in the code
    MaxLength,  \* bound: characters of a line
    MaxLines    \* bound: lines entered

ASSUME EditorAssumption == MaxHistory \in Nat \ {0} /\ MaxLength \in Nat /\ MaxLines \in Nat

VARIABLES
    prompt,  \* "none" between two calls of ReadLine, "command", "answer" or "secret"
    line, pos,     \* what is being edited, and the characters before the cursor
    recall,        \* historyIndex, counted from 1: Len(history) + 1 is the line being written
    pending,       \* what was being written when a line was recalled
    history,       \* lineEditor.history
    entered,       \* history: the lines entered so far and their prompts
    draft          \* history: what the user has left at the place of the new line

edit == <<line, pos, recall, pending>>
editorVars == <<prompt, edit, history, entered, draft>>

EditorInit ==
    /\ prompt = "none"
    /\ line = <<>> /\ pos = 0 /\ recall = 1 /\ pending = <<>>
    /\ history = <<>>
    /\ entered = <<>> /\ draft = <<>>

----------------------------------------------------------------------------
ReadLine ==
    /\ prompt = "none"
    /\ Len(entered) < MaxLines
    /\ prompt' \in {"command", "answer", "secret"}
    /\ line' = <<>> /\ pos' = 0 /\ recall' = Len(history) + 1 /\ pending' = <<>>
    /\ draft' = <<>>
    /\ UNCHANGED <<history, entered>>

\* The user changes the line, or a line that was recalled.
Edited(new) ==
    /\ line' = new
    /\ draft' = IF recall = Len(history) + 1 THEN new ELSE draft
    /\ UNCHANGED <<prompt, recall, pending, history, entered>>

Insert(c) ==
    /\ prompt # "none"
    /\ Len(line) < MaxLength
    /\ Edited(InsertAt(line, pos + 1, c))
    /\ pos' = pos + 1

Erase ==
    /\ prompt # "none"
    /\ pos > 0
    /\ Edited(RemoveAt(line, pos))
    /\ pos' = pos - 1

Move ==
    /\ prompt # "none"
    /\ \/ pos < Len(line) /\ pos' = pos + 1
       \/ pos > 0 /\ pos' = pos - 1
    /\ UNCHANGED <<prompt, line, recall, pending, history, entered, draft>>

(***************************************************************************)
(* The arrows up and down.  What was changed in a recalled line is lost.   *)
(***************************************************************************)
Show(new) == line' = new /\ pos' = Len(new)

\* Mutant of Up: what is shown is set aside on every step up.
UpSettingAside ==
    /\ prompt # "none" /\ recall > 1
    /\ pending' = line
    /\ recall' = recall - 1
    /\ Show(history[recall - 1])
    /\ UNCHANGED <<prompt, history, entered, draft>>

Up ==
    /\ prompt # "none" /\ recall > 1
    /\ pending' = IF recall = Len(history) + 1 THEN line ELSE pending
    /\ recall' = recall - 1
    /\ Show(history[recall - 1])
    /\ UNCHANGED <<prompt, history, entered, draft>>

Down ==
    /\ prompt # "none" /\ recall <= Len(history)
    /\ recall' = recall + 1
    /\ Show(IF recall = Len(history) THEN pending ELSE history[recall + 1])
    /\ UNCHANGED <<prompt, pending, history, entered, draft>>

----------------------------------------------------------------------------
(***************************************************************************)
(* Enter keeps a command that is not empty and not the one kept last, and  *)
(* forgets the oldest beyond MaxHistory.                                   *)
(***************************************************************************)
TrimSpace(s) ==
    LET inside == {i \in DOMAIN s : s[i] # Space}
    IN  IF inside = {} THEN <<>>
        ELSE SubSeq(s, CHOOSE i \in inside : \A j \in inside : i <= j,
                       CHOOSE i \in inside : \A j \in inside : i >= j)

Youngest(s) == SubSeq(s, IF Len(s) > MaxHistory THEN Len(s) - MaxHistory + 1 ELSE 1, Len(s))

\* Mutant of KeepsLine: the lines of every prompt are kept.
KeepsAnyLine(value) ==
    IF value # <<>> /\ (history = <<>> \/ Last(history) # value) THEN Youngest(Append(history, value)) ELSE history

KeepsLine(value) ==
    IF prompt = "command" /\ value # <<>> /\ (history = <<>> \/ Last(history) # value)
    THEN Youngest(Append(history, value)) ELSE history

Enter ==
    /\ prompt # "none"
    /\ history' = KeepsLine(TrimSpace(line))
    /\ entered' = Append(entered, [prompt |-> prompt, value |-> TrimSpace(line)])
    /\ prompt' = "none"
    /\ UNCHANGED <<edit, draft>>

\* Control-C and control-D end the input on an empty line, and so does a failing read anywhere.
EndOfInput ==
    /\ prompt # "none"
    /\ prompt' = "none"
    /\ UNCHANGED <<edit, history, entered, draft>>

EditorNext ==
    \/ ReadLine
    \/ \E c \in Char \cup {Space} : Insert(c)
    \/ Erase \/ Move \/ Up \/ Down
    \/ Enter \/ EndOfInput

EditorSpec == EditorInit /\ [][EditorNext]_editorVars

----------------------------------------------------------------------------
Line == Seq(Char \cup {Space})

EditorTypeOK ==
    /\ prompt \in {"none", "command", "answer", "secret"}
    /\ line \in Line /\ pos \in 0..Len(line)
    /\ prompt # "none" => recall \in 1..Len(history) + 1
    /\ pending \in Line /\ draft \in Line
    /\ history \in Seq(Line) /\ Len(history) <= MaxHistory
    /\ entered \in Seq([prompt : {"command", "answer", "secret"}, value : Line])

(***************************************************************************)
(* A user who looks through the lines kept and comes back finds what was   *)
(* being written as it was left, whatever was changed in between.          *)
(***************************************************************************)
DraftComesBack == prompt # "none" /\ recall = Len(history) + 1 => line = draft

(***************************************************************************)
(* The lines kept are the last commands entered, none twice in a row; what *)
(* was entered for a secret or as an answer is never among them.  Places   *)
(* in the list of the lines entered stand for the lines.                   *)
(***************************************************************************)
Commands == {i \in DOMAIN entered : entered[i].prompt = "command" /\ entered[i].value # <<>>}
NextTo(j, i) == j < i /\ \A k \in Commands : k <= j \/ i <= k
Fresh == {i \in Commands : \A j \in Commands : NextTo(j, i) => entered[j].value # entered[i].value}
After(i) == {j \in Fresh : i < j}

KeepsCommandsOnly ==
    /\ Len(history) = IF Cardinality(Fresh) < MaxHistory THEN Cardinality(Fresh) ELSE MaxHistory
    /\ \A i \in Fresh : Cardinality(After(i)) < MaxHistory =>
                             history[Len(history) - Cardinality(After(i))] = entered[i].value

\* A user finds a line as it was left, and among the lines kept what was entered as a command only.
LinesAreKept == DraftComesBack /\ KeepsCommandsOnly

=============================================================================
