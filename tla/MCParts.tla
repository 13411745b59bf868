------------------------------ MODULE MCParts ------------------------------
(***************************************************************************)
(* Instances of the smaller models for TLC.  They share no state, so one   *)
(* run checks their sum: a behaviour picks one of the parts and takes the  *)
(* steps of that part alone, while the others stay as they began.          *)
(*                                                                         *)
(*   version  SessionVersion   the protocol version under concurrent calls *)
(*   calls    CompoundCalls    calls made of several steps                 *)
(*   samples  SampleStream     one stream of accelerometer samples         *)
(*   trace    TraceForward     one traced subscription of the demo         *)
(*   names    DeviceNames      the caches of device names                  *)
(*   editor   LineEditor       the prompts of the demo                     *)
(*   codec    Codec            one message from the device to the caller   *)
(*   pairing  Pairing          the workflows of a client                   *)
(*   history  HistoryRead      reads of the history                        *)
(***************************************************************************)
EXTENDS SessionVersion, CompoundCalls, Pairing, DeviceNames, TraceForward, SampleStream, LineEditor, HistoryRead,
        Codec, TLC

CONSTANTS
    Parts,                              \* the parts to be checked
    b1, b2                              \* the blocks of history

VARIABLE part

\* Two blocks: one begins with a small number, the other with a large one.
Leads == (b1 :> 1) @@ (b2 :> 300)

\* Numbers of one byte that is not zero, the first or the last, or of none.
SparseNumber(width) == {[i \in 1..width |-> IF i = at THEN b ELSE 0] : at \in {1, width}, b \in {0, 1}}

\* Minor numbers of two digits, and two that have fewer or more.
Minors ==
    [value : {0, 9, 46, 47, 48, 99}, scale : {100}] \cup {[value |-> 5, scale |-> 10], [value |-> 100, scale |-> 1000]}

\* A part that is not checked begins in one way only.
Unpicked ==
    /\ part # "version" => device = CHOOSE d \in Device : TRUE
    /\ part # "version" => configured = "auto"
    /\ part # "calls" => paused /\ facet = CHOOSE f \in Face : TRUE
    /\ part # "samples" => sampleVersion = "auto"
    /\ part # "pairing" => secret = Default
    /\ part # "history" => historyVersion = "v3" /\ family = "v3"

PartsInit ==
    /\ part \in Parts
    /\ Init /\ CallsInit /\ SampleInit /\ TraceInit /\ NamesInit /\ EditorInit /\ CodecInit
    /\ PairingInit /\ HistoryInit
    /\ Unpicked

PartsNext ==
    /\ UNCHANGED part
    /\ \/ /\ part = "version" /\ Next
          /\ UNCHANGED <<callsVars, sampleVars, traceVars, namesVars, editorVars, codecVars, pairingVars, historyVars>>
       \/ /\ part = "calls" /\ CallsNext
          /\ UNCHANGED <<vars, sampleVars, traceVars, namesVars, editorVars, codecVars, pairingVars, historyVars>>
       \/ /\ part = "samples" /\ SampleNext
          /\ UNCHANGED <<vars, callsVars, traceVars, namesVars, editorVars, codecVars, pairingVars, historyVars>>
       \/ /\ part = "trace" /\ TraceNext
          /\ UNCHANGED <<vars, callsVars, sampleVars, namesVars, editorVars, codecVars, pairingVars, historyVars>>
       \/ /\ part = "names" /\ NamesNext
          /\ UNCHANGED <<vars, callsVars, sampleVars, traceVars, editorVars, codecVars, pairingVars, historyVars>>
       \/ /\ part = "editor" /\ EditorNext
          /\ UNCHANGED <<vars, callsVars, sampleVars, traceVars, namesVars, codecVars, pairingVars, historyVars>>
       \/ /\ part = "codec" /\ CodecNext
          /\ UNCHANGED <<vars, callsVars, sampleVars, traceVars, namesVars, editorVars, pairingVars, historyVars>>
       \/ /\ part = "pairing" /\ PairingNext
          /\ UNCHANGED <<vars, callsVars, sampleVars, traceVars, namesVars, editorVars, codecVars, historyVars>>
       \/ /\ part = "history" /\ HistoryNext
          /\ UNCHANGED <<vars, callsVars, sampleVars, traceVars, namesVars, editorVars, codecVars, pairingVars>>

partsVars == <<part, vars, callsVars, sampleVars, traceVars, namesVars, editorVars, codecVars, pairingVars, historyVars>>

PartsSpec == PartsInit /\ [][PartsNext]_partsVars /\ SampleFairness /\ TraceFairness

----------------------------------------------------------------------------
(***************************************************************************)
(* The properties, each stated and explained in the module of its part.    *)
(***************************************************************************)
\* Every part keeps its types and the bounds of its queues.
PartsTypeOK ==
    /\ TypeOK /\ CallsTypeOK /\ SampleTypeOK /\ TraceTypeOK /\ NamesTypeOK /\ EditorTypeOK
    /\ PairingTypeOK /\ HistoryTypeOK

\* SampleStream: the end of the context or of the session closes both channels, and a failed poll is
\* followed by another one.  TraceForward: cancelling ends the forwarder, whatever its reader does.
StreamsEndAndGoOn == EndsClose /\ KeepsPolling /\ EndsOnCancel

=============================================================================
