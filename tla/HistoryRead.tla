---------------------------- MODULE HistoryRead ----------------------------
(***************************************************************************)
(* Session.ReadHistory (session.go) and the decoders of history packets    *)
(* (protocol.go, internal/protocol/decode.go).  opMu is held throughout,   *)
(* so calls come one after the other.  A v4 read writes the event number   *)
(* to the history characteristic and reads the record back.  A v3 read     *)
(* writes a command, waits for its acknowledgement and then reads packages *)
(* of blocks off the shared command-result characteristic, one per Read,   *)
(* until one is all zeros; the package before it holds a count.  A session *)
(* of unknown version tries v4, then v3.                                   *)
(*                                                                         *)
(* Nothing in a packet says which request it answers, and the device may   *)
(* publish its answer after the call has begun to read.                    *)
(***************************************************************************)
EXTENDS Naturals, Sequences, FiniteSets

CONSTANTS
    Block,         \* the blocks (v3) or records (v4) a device stores; none is a number
    Lead,          \* [Block -> Nat]: the first two bytes of a block, as a number
    PackageBlocks, \* blocks in a v3 package, at least one: 7 in the code
    MaxPackets,    \* maxHistoryV3Packets, at least one
    MaxLog,        \* bound: what the device stores
    MaxReads       \* bound: calls of ReadHistory

ASSUME HistoryAssumption ==
    /\ Block \cap (0..MaxLog) = {}
    /\ Lead \in [Block -> Nat]
    /\ PackageBlocks \in Nat \ {0} /\ MaxPackets \in Nat \ {0}
    /\ MaxLog \in Nat /\ MaxReads \in Nat

VARIABLES
    historyVersion, \* s.protocol: "auto", "v3" or "v4"
    family,    \* the protocol the device speaks: "v3" or "v4"
    log,       \* what the device stores
    historyPc, \* where the call is
    count,     \* calls made so far: the number of the call in progress
    start,     \* req.StartEvent, counted from 1
    sending,   \* packages of the last v3 request not yet on the characteristic, and its call
    output,    \* the command-result characteristic, and the call that it answers
    due,       \* the answer to the last v4 request, until it is published, and its call
    record,    \* the history characteristic, and the call that it answers
    entries,   \* what the call has decoded, or returned
    last,      \* lastNonZero
    packets,   \* packages read by this call
    outcome,   \* "none", "ok" or "failed", and the path it came by
    asked,     \* history: the log when the device executed the request
    heard      \* history: the calls whose answers this call has read

deviceState == <<historyVersion, family, log>>
wire == <<sending, output, due, record>>
ours == <<entries, last, packets>>
readPast == <<asked, heard>>
historyVars == <<deviceState, historyPc, count, start, wire, ours, outcome, readPast>>

(***************************************************************************)
(* A block is stored by the device, or a number: the block whose first two *)
(* bytes are that number and whose third is zero.  Zero is the blank.      *)
(***************************************************************************)
Blank == 0
AnyBlock == Block \cup 0..MaxLog
Package == [1..PackageBlocks -> AnyBlock]

Padded(blocks) == [i \in 1..PackageBlocks |-> IF i <= Len(blocks) THEN blocks[i] ELSE Blank]
ZeroPackage == Padded(<<>>)

(***************************************************************************)
(* What a v3 device sends: its blocks in packages, the last one filled     *)
(* with blanks, then the number of blocks, then zeros.                     *)
(***************************************************************************)
DataPackages(blocks) ==
    [p \in 1..((Len(blocks) + PackageBlocks - 1) \div PackageBlocks) |->
        Padded(SubSeq(blocks, (p - 1) * PackageBlocks + 1, IF p * PackageBlocks < Len(blocks)
                                                           THEN p * PackageBlocks ELSE Len(blocks)))]

Packages(blocks) == DataPackages(blocks) \o <<Padded(<<Len(blocks)>>), ZeroPackage>>

\* A payload that is no package, and no record.
Other == <<>>

HistoryInit ==
    /\ historyVersion \in {"auto", "v3", "v4"}
    /\ family \in {"v3", "v4"} /\ (historyVersion # "auto" => family = historyVersion)
    /\ log = <<>>
    /\ historyPc = "idle" /\ count = 0 /\ start = 1
    /\ sending = [call |-> 0, packages |-> <<>>]
    /\ output = [call |-> 0, payload |-> Other]
    /\ due = output
    /\ record = output
    /\ entries = <<>> /\ last = <<>> /\ packets = 0
    /\ outcome = [status |-> "none", path |-> "none"]
    /\ asked = <<>> /\ heard = {}

----------------------------------------------------------------------------
(***************************************************************************)
(* The device stores blocks at any time.                                   *)
(***************************************************************************)
Store ==
    /\ Len(log) < MaxLog
    /\ \E b \in Block : log' = Append(log, b)
    /\ UNCHANGED <<historyVersion, family, historyPc, count, start, wire, ours, outcome, readPast>>

\* The next package of the running request takes the place of the one shown.
ShowPackage ==
    /\ output' = [call |-> sending.call, payload |-> Head(sending.packages)]
    /\ sending' = [sending EXCEPT !.packages = Tail(@)]

\* The first package of a v3 answer; the later ones follow the reads.
PublishPackage ==
    /\ output.call # sending.call
    /\ ShowPackage
    /\ UNCHANGED <<deviceState, historyPc, count, start, due, record, ours, outcome, readPast>>

PublishRecord ==
    /\ record # due
    /\ record' = due
    /\ UNCHANGED <<deviceState, historyPc, count, start, sending, output, due, ours, outcome, readPast>>

----------------------------------------------------------------------------
(***************************************************************************)
(* A call, and its end.  A v4 read that fails in a session of unknown      *)
(* version is followed by a v3 read, whatever the error was.               *)
(***************************************************************************)
ReadHistory ==
    /\ historyPc = "idle"
    /\ count < MaxReads
    /\ count' = count + 1
    /\ start' \in 1..MaxLog
    /\ historyPc' = IF historyVersion = "v3" THEN "writeV3" ELSE "writeV4"
    /\ outcome' = [status |-> "none", path |-> "none"]
    /\ entries' = <<>> /\ last' = <<>> /\ packets' = 0
    /\ heard' = {}
    /\ UNCHANGED <<deviceState, wire, asked>>

Return(status, path, decoded) ==
    /\ historyPc' = "idle"
    /\ outcome' = [status |-> status, path |-> path]
    /\ entries' = decoded

Fail == Return("failed", "none", <<>>)

FailV4 ==
    IF historyVersion = "auto"
    THEN historyPc' = "writeV3" /\ UNCHANGED <<outcome, entries>>
    ELSE Fail

----------------------------------------------------------------------------
(***************************************************************************)
(* readHistoryV4.  A v3 device has no history characteristic.              *)
(***************************************************************************)
\* What a v4 device answers: a record of zeros if it has none of that number.
RecordOf(event) == IF event \in DOMAIN log THEN <<log[event]>> ELSE <<Blank>>

\* Mutant of WriteV4: the device is asked for the event after the one requested.
WriteV4Next ==
    /\ historyPc = "writeV4"
    /\ family = "v4"
    /\ historyPc' = "readV4"
    /\ due' = [call |-> count, payload |-> RecordOf(start + 1)]
    /\ asked' = log
    /\ UNCHANGED <<deviceState, count, start, sending, output, record, ours, outcome, heard>>

WriteV4 ==
    /\ historyPc = "writeV4"
    /\ family = "v4"
    /\ historyPc' = "readV4"
    /\ due' = [call |-> count, payload |-> RecordOf(start)]
    /\ asked' = log
    /\ UNCHANGED <<deviceState, count, start, sending, output, record, ours, outcome, heard>>

StepFailsV4 ==
    /\ historyPc \in {"writeV4", "readV4"}
    /\ FailV4
    /\ UNCHANGED <<deviceState, count, start, wire, last, packets, readPast>>

\* A record of zeros answers with no entry.
DecodeV4(payload) == IF payload = <<Blank>> THEN <<>> ELSE payload

ReadV4 ==
    /\ historyPc = "readV4"
    /\ record.payload # Other
    /\ Return("ok", "v4", DecodeV4(record.payload))
    /\ heard' = heard \cup {record.call}
    /\ UNCHANGED <<deviceState, count, start, wire, last, packets, asked>>

MalformedV4 ==
    /\ historyPc = "readV4"
    /\ record.payload = Other
    /\ FailV4
    /\ UNCHANGED <<deviceState, count, start, wire, last, packets, readPast>>

----------------------------------------------------------------------------
(***************************************************************************)
(* readHistoryV3: the write and the acknowledgement, for which the call    *)
(* polls (module SessionCommands).                                         *)
(***************************************************************************)
WriteV3 ==
    /\ historyPc = "writeV3"
    /\ historyPc' = "readV3"
    /\ IF family = "v3"
       THEN sending' = [call |-> count, packages |-> Packages(log)] /\ asked' = log
       ELSE UNCHANGED <<sending, asked>>
    /\ UNCHANGED <<deviceState, count, start, output, due, record, ours, outcome, heard>>

\* The write, the acknowledgement or a Read fails, or the command is rejected.
StepFailsV3 ==
    /\ historyPc \in {"writeV3", "readV3"}
    /\ Fail
    /\ UNCHANGED <<deviceState, count, start, wire, last, packets, readPast>>

(***************************************************************************)
(* One Read of the loop.  The device replaces a package that has been read *)
(* by the next.                                                            *)
(***************************************************************************)
Reading ==
    /\ historyPc = "readV3"
    /\ heard' = heard \cup {output.call}
    /\ IF output.call = sending.call /\ sending.packages # <<>>
       THEN ShowPackage
       ELSE UNCHANGED <<output, sending>>

(***************************************************************************)
(* A package that is not full, and the count, decode like any other: what  *)
(* is not blank, in its order.                                             *)
(***************************************************************************)
Full(package) == {i \in 1..PackageBlocks : package[i] # Blank}
UpTo(package, i) == {k \in Full(package) : k <= i}
Nth(package, n) == CHOOSE i \in Full(package) : Cardinality(UpTo(package, i)) = n
DecodeV3(package) == [n \in 1..Cardinality(Full(package)) |-> package[Nth(package, n)]]

CountIn(package) == IF package[1] \in Block THEN Lead[package[1]] ELSE package[1]

\* Mutant of Counted: the count package is kept as an entry.
Uncounted(decoded) == decoded

\* The count of the last package before the zeros cuts the entries, if it is smaller.
Counted(decoded) ==
    LET n == IF last = <<>> THEN 0 ELSE CountIn(last)
    IN  IF n > 0 /\ n < Len(decoded) THEN SubSeq(decoded, 1, n) ELSE decoded

Complete ==
    /\ output.payload = ZeroPackage
    /\ Reading
    /\ Return("ok", "v3", Counted(entries))
    /\ UNCHANGED <<deviceState, count, start, due, record, last, packets, asked>>

\* Mutant of Collect: the loop goes on after the last package that the budget allows.
CollectUnbounded ==
    /\ output.payload \notin {ZeroPackage, Other}
    /\ Reading
    /\ packets' = packets + 1
    /\ last' = output.payload
    /\ entries' = entries \o DecodeV3(output.payload)
    /\ UNCHANGED <<deviceState, historyPc, count, start, due, record, outcome, asked>>

Collect ==
    /\ output.payload \notin {ZeroPackage, Other}
    /\ packets + 1 < MaxPackets
    /\ Reading
    /\ packets' = packets + 1
    /\ last' = output.payload
    /\ entries' = entries \o DecodeV3(output.payload)
    /\ UNCHANGED <<deviceState, historyPc, count, start, due, record, outcome, asked>>

\* The last package that the budget allows was not the end.
BudgetSpent ==
    /\ output.payload \notin {ZeroPackage, Other}
    /\ packets + 1 = MaxPackets
    /\ Reading
    /\ packets' = packets + 1
    /\ last' = output.payload
    /\ Fail
    /\ UNCHANGED <<deviceState, count, start, due, record, asked>>

MalformedV3 ==
    /\ output.payload = Other
    /\ Reading
    /\ Fail
    /\ UNCHANGED <<deviceState, count, start, due, record, last, packets, asked>>

----------------------------------------------------------------------------
DeviceActs == Store \/ PublishPackage \/ PublishRecord

ReadingV4 == WriteV4 \/ StepFailsV4 \/ ReadV4 \/ MalformedV4

ReadingV3 == WriteV3 \/ StepFailsV3 \/ Complete \/ Collect \/ BudgetSpent \/ MalformedV3

HistoryNext == DeviceActs \/ ReadHistory \/ ReadingV4 \/ ReadingV3

HistorySpec == HistoryInit /\ [][HistoryNext]_historyVars

----------------------------------------------------------------------------
HistoryTypeOK ==
    /\ historyVersion \in {"auto", "v3", "v4"} /\ family \in {"v3", "v4"}
    /\ log \in Seq(Block) /\ Len(log) <= MaxLog
    /\ historyPc \in {"idle", "writeV4", "readV4", "writeV3", "readV3"}
    /\ count \in 0..MaxReads
    /\ start \in Nat
    /\ sending \in [call : 0..MaxReads, packages : Seq(Package)]
    /\ output \in [call : 0..MaxReads, payload : Package \cup {Other}]
    /\ due \in [call : 0..MaxReads, payload : {<<b>> : b \in AnyBlock} \cup {Other}]
    /\ record \in [call : 0..MaxReads, payload : {<<b>> : b \in AnyBlock} \cup {Other}]
    /\ entries \in Seq(AnyBlock \ {Blank})
    /\ last \in Package \cup {<<>>}
    /\ packets \in 0..MaxPackets
    /\ outcome \in [status : {"none", "ok", "failed"}, path : {"none", "v3", "v4"}]
    /\ asked \in Seq(Block) /\ Len(asked) <= MaxLog
    /\ heard \subseteq 0..MaxReads

(***************************************************************************)
(* A v3 history that is returned is the whole history of the device, in    *)
(* its order, without the count: provided that the call has read only      *)
(* packages sent to itself, whatever earlier calls left half-read.         *)
(***************************************************************************)
HistoryIsLog ==
    historyPc = "idle" /\ outcome = [status |-> "ok", path |-> "v3"] /\ heard = {count} => entries = asked

(***************************************************************************)
(* A v4 read answers with the record of the event it was asked for, or     *)
(* with none when there is no such event, under the same proviso.          *)
(***************************************************************************)
RecordIsOfEvent ==
    historyPc = "idle" /\ outcome = [status |-> "ok", path |-> "v4"] /\ heard = {count} =>
        entries = IF start \in DOMAIN asked THEN <<asked[start]>> ELSE <<>>

\* What a read of the history answers is of the device, and of the request.
HistoryIsTrue == HistoryIsLog /\ RecordIsOfEvent

=============================================================================
