------------------------------- MODULE Codec -------------------------------
(***************************************************************************)
(* What the device says, as bytes, and what the session makes of them      *)
(* (protocol.go, internal/protocol and the last part of session.go): one   *)
(* message is said, put on its characteristic and decoded.  How the device *)
(* says it is taken from the use the decoders make of it.  A number of     *)
(* several bytes is the sequence of them, most significant first; a text   *)
(* is its prefix and its number.                                           *)
(***************************************************************************)
EXTENDS Integers, Sequences

CONSTANTS
    Byte,      \* the bytes that occur, among them 0 and those beside a limit
    Number(_), \* the numbers of so many bytes that occur
    Minor      \* the minor numbers of firmware releases, and ten to the power of their digits

ASSUME CodecAssumption ==
    /\ Byte \subseteq 0..255
    /\ \A width \in {2, 3, 4, 8} : Number(width) \subseteq [1..width -> Byte]
    /\ Minor \subseteq [value : Nat, scale : Nat]

VARIABLES
    said,     \* what the device has said last
    payload,  \* how it is on its characteristic
    told      \* what the session has decoded: one value, or none yet

codecVars == <<said, payload, told>>

Facet  == {b \in Byte : b < 128}
Zeros(width) == [i \in 1..width |-> 0]

----------------------------------------------------------------------------
(***************************************************************************)
(* What the device says: the facet that is up, and a double tap, each on a *)
(* characteristic of its own or as a text; a pause as a text; a record or  *)
(* a block of its history; its answers to commands; its firmware revision. *)
(***************************************************************************)
TapOn  == {"facets", "doubleTap", "tapText", "sideText"}
TapMessage    == {t \in [on : TapOn, facet : Facet, pause : BOOLEAN] : t.on = "facets" => ~t.pause}
RecordMessage == [on : {"history"}, facet : Facet, pause : BOOLEAN, event : Number(4), moment : Number(8),
           duration : Number(4), previous : Number(3) \cup {<<>>}]
BlockMessage  == [on : {"historyV3"}, facet : {f \in Byte : f < 64}, time : Byte \X Byte \X (0..3)]

Code == [setLock |-> 4, status |-> 16, readTask |-> 20, tapRead |-> 23]
Trailer == {<<>>, <<0>>, <<0, 2>>, <<7>>, <<7, 0, 2>>, <<7, 8, 9>>}
Ack  == [on : {"command"}, command : DOMAIN Code, ok : BOOLEAN, tail : Trailer]

OnOff  == [lock : BOOLEAN, pause : BOOLEAN, minutes : Number(2)]
Task   == [facet : Facet, mode : {0, 1}, limit : Number(4), elapsed : Number(4)]
Taps   == [threshold : Byte, limit : {0, 23}, latency : {1}, window : {2}]
OutputOn == {"status", "readTask", "tapRead", "unassigned", "wrongPassword", "nothing"}
Output == [on : {"status"}, value : OnOff] \cup [on : {"readTask"}, value : Task]
          \cup [on : {"tapRead"}, value : Taps] \cup [on : {"unassigned", "wrongPassword", "nothing"}, value : {0}]

Firmware == [on : {"firmware"}, marker : {"tfv", "fw_v", "other"}, major : {3, 4}, minor : Minor]

Message == TapMessage \cup RecordMessage \cup BlockMessage \cup Ack \cup Output \cup Firmware

Silence == [on |-> "silence"]

Flag(on, a, b) == IF on THEN a ELSE b
Side(m) == m.facet + Flag(m.pause, 128, 0)

OutputBytes(m) ==
    CASE m.on = "status" -> <<Flag(m.value.lock, 1, 2), Flag(m.value.pause, 1, 2)>> \o m.value.minutes
      [] m.on = "readTask" -> <<Code.readTask, m.value.facet, m.value.mode>> \o m.value.limit \o m.value.elapsed
      [] m.on = "tapRead" -> <<Code.tapRead, 58, m.value.threshold, 59, m.value.limit,
                                              60, m.value.latency, 61, m.value.window>>
      [] m.on = "unassigned" -> <<25, 0>>
      [] m.on = "wrongPassword" -> <<1>>
      [] m.on = "nothing" -> <<>>

Wire(m) ==
    CASE m.on \in TapOn -> <<Side(m)>>
      [] m.on = "history" -> m.event \o <<Side(m)>> \o m.moment \o m.duration \o m.previous
      [] m.on = "historyV3" -> <<m.time[1], m.time[2], 4 * m.facet + m.time[3]>>
      [] m.on = "command" -> <<Code[m.command], Flag(m.ok, 2, 1)>> \o m.tail
      [] m.on \in OutputOn -> OutputBytes(m)
      [] m.on = "firmware" -> <<>>

----------------------------------------------------------------------------
(***************************************************************************)
(* The decoders of notifications.                                          *)
(***************************************************************************)
DecodeFacet(p)     == [kind |-> "facet", facet |-> p[1], pause |-> FALSE]
DecodeDoubleTap(p) == [kind |-> "doubleTap", facet |-> p[1] % 128, pause |-> p[1] >= 128]

\* Mutant of DecodeTimeFlipTextEvent: the side in the text is taken for the facet.
TextEventOfSide(text, p) == [kind |-> IF text = "tapText" THEN "doubleTap" ELSE "facet", facet |-> p[1], pause |-> FALSE]

DecodeTimeFlipTextEvent(text, p) == IF text = "tapText" \/ p[1] >= 128 THEN DecodeDoubleTap(p) ELSE DecodeFacet(p)

DecodeHistoryPacket(p) ==
    IF SubSeq(p, 1, 17) = Zeros(17)
    THEN [kind |-> "complete", previous |-> SubSeq(p, 18, Len(p))]
    ELSE [kind |-> "entry", event |-> SubSeq(p, 1, 4), facet |-> p[5] % 128, pause |-> p[5] > 127,
          moment |-> SubSeq(p, 6, 13), duration |-> SubSeq(p, 14, 17), previous |-> SubSeq(p, 18, Len(p))]

DecodeBlockV3(p) ==
    [kind |-> "entryV3", facet |-> p[3] \div 4, pause |-> p[3] \div 4 = 63,
     duration |-> 65536 * p[1] + 256 * p[2] + (p[3] % 4)]

(***************************************************************************)
(* The acknowledgement of a command ends at its first zero.                *)
(***************************************************************************)
\* Mutant of AcknowledgementBytes: the first four bytes, zero or not.
AcknowledgementFourBytes(p) == IF Len(p) <= 4 THEN p ELSE SubSeq(p, 1, 4)

AcknowledgementBytes(p) ==
    LET end == IF \E i \in 1..Len(p) : p[i] = 0
               THEN (CHOOSE i \in 1..Len(p) : p[i] = 0 /\ \A j \in 1..i - 1 : p[j] # 0) - 1
               ELSE Len(p)
    IN  SubSeq(p, 1, IF end < 4 THEN end ELSE 4)

DecodeCommandStatus(p) ==
    LET ack == AcknowledgementBytes(p)
    IN  [kind |-> IF Len(ack) >= 2 /\ ack[2] \in {1, 2} THEN "ack" ELSE "malformed",
         code |-> IF Len(ack) >= 2 THEN ack[1] ELSE 0, ok |-> Len(ack) >= 2 /\ ack[2] = 2, raw |-> ack]

(***************************************************************************)
(* The outputs of commands, for a read that polls with its code: a payload *)
(* is taken, refused, or polled away as an answer to something else.       *)
(***************************************************************************)
IsUnassigned(p) == p = <<25, 0>>
IsTrackerStatus(p) == Len(p) >= 4 /\ p[1] \in {1, 2} /\ p[2] \in {1, 2}

Accepts(read, p) ==
    \/ read \in {"readTask", "tapRead"} /\ IsUnassigned(p)
    \/ read = "status" /\ IsTrackerStatus(p)

\* Mutant of Taken: the first output is taken, whatever command it answers.
TakenAnyway(read, p) == p # <<>> /\ p # <<1>>

Taken(read, p) ==
    \/ p # <<>> /\ p[1] = Code[read]
    \/ p # <<1>> /\ Accepts(read, p)

OutputOf(read, p) ==
    CASE IsUnassigned(p) -> [kind |-> "unassigned", value |-> 0]
      [] read = "status" /\ IsTrackerStatus(p) ->
            [kind |-> read, value |-> [lock |-> p[1] = 1, pause |-> p[2] = 1, minutes |-> SubSeq(p, 3, 4)]]
      [] read = "readTask" /\ Len(p) >= 11 ->
            [kind |-> read, value |-> [facet |-> p[2], mode |-> p[3], limit |-> SubSeq(p, 4, 7), elapsed |-> SubSeq(p, 8, 11)]]
      [] read = "tapRead" /\ Len(p) >= 9 ->
            [kind |-> read, value |-> [threshold |-> p[3], limit |-> p[5], latency |-> p[7], window |-> p[9]]]
      [] OTHER -> [kind |-> "malformed", value |-> 0]

DecodeOutput(p) ==
    [read \in {"status", "readTask", "tapRead"} |->
        IF Taken(read, p) THEN OutputOf(read, p)
        ELSE [kind |-> IF p = <<1>> THEN "unauthorized" ELSE "polled", value |-> 0]]

(***************************************************************************)
(* inferProtocolVersion reads the release as a decimal fraction.           *)
(***************************************************************************)
AtLeast347(release) == release.major = 4 \/ 100 * release.minor.value >= 47 * release.minor.scale

\* Mutant of InferProtocolVersion: the fraction is compared as a whole number.
InferProtocolVersionWhole(m) ==
    IF m.marker = "other" THEN "auto" ELSE IF m.major = 4 \/ m.minor.value > 47 THEN "v4" ELSE "v3"

InferProtocolVersion(m) ==
    IF m.marker = "other" THEN "auto" ELSE IF AtLeast347(m) THEN "v4" ELSE "v3"

Decoded(m, p) ==
    CASE m.on = "facets"    -> DecodeFacet(p)
      [] m.on = "doubleTap" -> DecodeDoubleTap(p)
      [] m.on \in {"tapText", "sideText"} -> DecodeTimeFlipTextEvent(m.on, p)
      [] m.on = "history" -> DecodeHistoryPacket(p)
      [] m.on = "historyV3"  -> DecodeBlockV3(p)
      [] m.on = "command"    -> DecodeCommandStatus(p)
      [] m.on \in OutputOn -> DecodeOutput(p)
      [] m.on = "firmware" -> InferProtocolVersion(m)

----------------------------------------------------------------------------
HasTold == told # <<>>

CodecInit == said = Silence /\ payload = <<>> /\ told = <<>>

Says ==
    /\ said = Silence
    /\ \E m \in Message : said' = m /\ payload' = Wire(m)
    /\ UNCHANGED told

Decodes ==
    /\ said # Silence /\ ~HasTold
    /\ told' = <<Decoded(said, payload)>>
    /\ UNCHANGED <<said, payload>>

CodecNext == Says \/ Decodes

CodecSpec == CodecInit /\ [][CodecNext]_codecVars

----------------------------------------------------------------------------
(***************************************************************************)
(* However a tap, a pause or a record reaches the application, as a byte,  *)
(* as a text or in the history, it tells the same facet and pause; and a   *)
(* record comes back in all its parts unless it is all zeros.              *)
(***************************************************************************)
EventsTellTheDevice ==
    /\ HasTold /\ said.on \in TapOn => told[1].facet = said.facet /\ told[1].pause = said.pause
    /\ HasTold /\ said.on = "history" =>
          IF told[1].kind = "entry"
          THEN told[1] = [kind |-> "entry", event |-> said.event, facet |-> said.facet, pause |-> said.pause,
                       moment |-> said.moment, duration |-> said.duration, previous |-> said.previous]
          ELSE said.event \o <<Side(said)>> \o said.moment \o said.duration = Zeros(17)

(***************************************************************************)
(* An acknowledgement tells its command and its status, whatever follows   *)
(* it on the characteristic, and no byte from behind a zero is shown.      *)
(***************************************************************************)
AcksSurviveTheirTail ==
    HasTold /\ said.on = "command" =>
        /\ told[1].kind = "ack" /\ told[1].code = Code[said.command] /\ told[1].ok = said.ok
        /\ Len(told[1].raw) <= 4 /\ \A i \in DOMAIN told[1].raw : told[1].raw[i] # 0

(***************************************************************************)
(* An output that another command has left on the shared characteristic is *)
(* never decoded for the read that polls; its own output is, in full.      *)
(***************************************************************************)
OutputAnswersOne ==
    HasTold /\ said.on \in OutputOn =>
        \A read \in DOMAIN told[1] :
            /\ read = said.on => told[1][read] = [kind |-> read, value |-> said.value]
            /\ read # said.on =>
                  \/ told[1][read].kind \in {"polled", "unauthorized"}
                  \/ told[1][read].kind = "unassigned" /\ said.on = "unassigned" /\ read # "status"

(***************************************************************************)
(* The releases from 3.47 on are taken for v4 and those before for v3,     *)
(* provided that minor numbers have two digits.                            *)
(***************************************************************************)
FirmwareSplits ==
    HasTold /\ said.on = "firmware" /\ said.marker # "other" /\ said.minor.scale = 100 =>
        told[1] = IF said.major = 4 \/ said.minor.value >= 47 THEN "v4" ELSE "v3"

\* What the application is told is what the device said.
MessagesAreUnderstood ==
    /\ EventsTellTheDevice /\ AcksSurviveTheirTail
    /\ OutputAnswersOne /\ FirmwareSplits

(***************************************************************************)
(* No decoded v3 duration exceeds what a device stores.  Violated: the two *)
(* low bits of the eighteen are placed below two whole bytes.              *)
(***************************************************************************)
DurationWithinLimit == HasTold /\ said.on = "historyV3" => told[1].duration <= 262144

=============================================================================
