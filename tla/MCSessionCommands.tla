------------------------- MODULE MCSessionCommands -------------------------
(***************************************************************************)
(* Instances of SessionCommands for TLC.  Four commands stand for the four *)
(* shapes a command has: no output (set lock, 0x04), an output that begins *)
(* with the code (read task, 0x14), an output that may also be 0x19 0x00   *)
(* (read tap settings, 0x17) and the uncoded tracker status (0x10).  The   *)
(* fifth, 0x01, is written by ReadHistory and answered with packages.      *)
(***************************************************************************)
EXTENDS SessionRefinement, TLC

CONSTANTS p1, p2, setLock, readTask, readTap, readStatus, readHistory

MCReply ==
    [c \in Code |-> CASE c = setLock    -> {}
                      [] c = readTask   -> {"coded"}
                      [] c = readTap    -> {"coded", "unassigned"}
                      [] c = readStatus -> {"tracker01", "tracker02"}
                      [] c = readHistory -> {"package"}]

MCAccept ==
    [c \in Code |-> CASE c \in {setLock, readTask, readHistory} -> {}
                      [] c = readTap    -> {"unassigned"}
                      [] c = readStatus -> {"tracker01", "tracker02"}]

\* No property tells the goroutines apart.
Goroutines == Permutations(Proc)

Send(c) == [op |-> "send", code |-> c, valid |-> TRUE, right |-> FALSE]
Read(c) == [op |-> "read", code |-> c, valid |-> TRUE, right |-> FALSE]
Authorize(right) == [op |-> "authorize", code |-> NoCode, valid |-> TRUE, right |-> right]

ReadHistory == [op |-> "history", code |-> readHistory, valid |-> TRUE, right |-> FALSE]
Events == [op |-> "events", code |-> NoCode, valid |-> TRUE, right |-> FALSE]

\* Calls of every kind: a read, a refused input, a right and a wrong password, the history and the events.
MixedCalls ==
    {Read(readTask), [Send(setLock) EXCEPT !.valid = FALSE], Authorize(TRUE), Authorize(FALSE), ReadHistory, Events}

\* Commands without an output, with an ambiguous and with an uncoded one, and both verdicts.
PromptCalls == {Send(setLock), Read(readTap), Read(readStatus), Authorize(TRUE), Authorize(FALSE)}

\* A command-backed read beside an Authorize with the right password.
ReadAndAuthorize == {Read(readTask), Authorize(TRUE)}

\* A command behind the subscriptions of an event stream.
CommandAndEvents == {Send(setLock), Events}

=============================================================================
