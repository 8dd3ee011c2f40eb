---------------------------- MODULE MCProcesses ----------------------------
(***************************************************************************)
(* The benchmarks and the example programs for TLC, the file systems       *)
(* programs keep their state in, their telemetry, the memory streams of    *)
(* serialized values, and the arithmetic of the offsets and sizes they     *)
(* send: a ring index that is moved, and packed integers written one after *)
(* the other with the code's own parameters, around the ends of the        *)
(* ranges.  They do not interact; `part` says which of them a behaviour is *)
(* about, and the variables of the others stay as they are.                *)
(***************************************************************************)
EXTENDS BandwidthBench, DelaysBench, Examples, FileSystems, Telemetry, MStream

(* Two objects, one with two classes, one of which has two versions. *)
MCFsKeys == {<<1, 1, 0>>, <<1, 1, 1>>, <<1, 2, 0>>, <<2, 1, 1>>}

VARIABLES part, ring_index, packed_value, packed_written

Ring == INSTANCE RingIndex WITH RingMax <- 120, WindowSize <- 60, MaxRepeatCount <- 0

(* An index is moved in either direction, any distance at a time. *)
MoveRing ==
  \E val \in 0 .. 120 :
    ring_index' \in {Ring!Plus(ring_index, val), Ring!Minus(ring_index, val)}

PackedValues == (0 .. 2000) \cup (65500 .. 65600) \cup (1049700 .. 1049834)

Packed == INSTANCE PackedInt WITH ByteBits <- 8, MinMaxStoredValue <- 250, Ranges <- 3

(* The last value of each range according to the comment of Packed:        *)
(* "[0..250] as std::uint8_t, [251..1514] as std::uint16_t,                *)
(* [1515..1049834] as std::uint32_t".                                      *)
DocumentedEnd == <<250, 1514, 1049834>>

PackedInit ==
  /\ packed_value \in {v \in PackedValues : v - 1 \notin PackedValues}
  /\ packed_written = Packed!Serialize[3, packed_value]

(* operator<< of Packed, for the next value. *)
PackedWrite ==
  /\ packed_value + 1 \in PackedValues
  /\ packed_value' = packed_value + 1
  /\ packed_written' = Packed!Serialize[3, packed_value']

packedVars == <<packed_value, packed_written>>

allVars == <<part, bbVars, dyVars, exVars, fsVars, teVars, msVars, ring_index, packedVars>>

Parts == {"bandwidth", "delays", "example", "files", "telemetry", "mstream", "ring", "packed"}

(* The kind or the value of a part that is not looked at is fixed. *)
MCInit ==
  /\ part \in Parts
  /\ BbInit /\ DyInit /\ ExInit /\ FsInit /\ TeInit /\ MsInit
  /\ ring_index = Ring!Ring(0) /\ PackedInit
  /\ part # "example" => ex_kind = "button"
  /\ part # "files" => fs_kind = "ram"
  /\ part # "telemetry" => te_kind = "object"
  /\ part # "packed" => packed_value = 0

BandwidthOnly == part = "bandwidth" /\ UNCHANGED <<part, dyVars, exVars, fsVars, teVars, msVars, ring_index, packedVars>>
DelaysOnly == part = "delays" /\ UNCHANGED <<part, bbVars, exVars, fsVars, teVars, msVars, ring_index, packedVars>>
ExampleOnly == part = "example" /\ UNCHANGED <<part, bbVars, dyVars, fsVars, teVars, msVars, ring_index, packedVars>>
FilesOnly == part = "files" /\ UNCHANGED <<part, bbVars, dyVars, exVars, teVars, msVars, ring_index, packedVars>>
TelemetryOnly == part = "telemetry" /\ UNCHANGED <<part, bbVars, dyVars, exVars, fsVars, msVars, ring_index, packedVars>>
MStreamOnly == part = "mstream" /\ UNCHANGED <<part, bbVars, dyVars, exVars, fsVars, teVars, ring_index, packedVars>>
RingOnly == part = "ring" /\ UNCHANGED <<part, bbVars, dyVars, exVars, fsVars, teVars, msVars, packedVars>>
PackedOnly == part = "packed" /\ UNCHANGED <<part, bbVars, dyVars, exVars, fsVars, teVars, msVars, ring_index>>

MCNext ==
  \/ BandwidthOnly /\ BbNext
  \/ DelaysOnly /\ DyNext
  \/ ExampleOnly /\ ExNext
  \/ FilesOnly /\ FsNext
  \/ TelemetryOnly /\ TeNext
  \/ MStreamOnly /\ MsNext
  \/ RingOnly /\ MoveRing
  \/ PackedOnly /\ PackedWrite

(* The weak fairness of each part, for the behaviours that are about it. *)
MCProgress ==
  \/ BandwidthOnly /\ BbStep
  \/ DelaysOnly /\ DyStep
  \/ ExampleOnly /\ ExStep

MCSpec ==
  /\ MCInit /\ [][MCNext]_allVars
  /\ WF_allVars(MCProgress)

(* Bandwidth benchmark: both programs are in the same test, an answer      *)
(* finds the synchronisation it is for, and results count what was sent.   *)
(* Delays benchmark: the tables of sender and receiver are of the same     *)
(* messages, it fails only for a reason, and a percentile is an index of   *)
(* the table it is taken from.                                             *)
BenchesExact ==
  /\ part = "bandwidth" => BbTypeOK /\ InStep /\ ResultsExact /\ AnswerFindsSync
  /\ part = "delays" => DyTypeOK /\ TablesAgree /\ FailsForAReason /\ PercentileInTable

(* Examples: the clients they work with are chosen when they start to, and *)
(* those of an earlier start are used again.                               *)
ClientsReused == part = "example" => ExTypeOK /\ ClientsChosen /\ ClientsKept

(* File systems: what was stored is found and listed, and what was removed *)
(* does not come back, across restarts and crashes (Store, Load, Enumerate *)
(* and Remove of the five file systems).                                   *)
ListedAsStored == part = "files" => FsTypeOK /\ FoundAsStored

(* Memory streams: what is read is what was written, of whatever shape,    *)
(* and a buffer that was cut off within a value is noticed where the code  *)
(* looks (operator>> of mstream.h, VectorReader).                          *)
SerializedRight == part = "mstream" => MsTypeOK /\ ReadAsWritten /\ CutIsNoticed

(* What was written is read back, and the reader does not take less: no    *)
(* proper prefix of the bytes is a value of its own, so that a reader that *)
(* gets them in pieces never stops early (Deserialize's kNo).              *)
RoundTrip ==
  /\ Packed!Deserialize[3, packed_written] =
       [res |-> "kFinished", value |-> packed_value, used |-> Len(packed_written)]
  /\ \A n \in 0 .. Len(packed_written) - 1 :
       Packed!Deserialize[3, SubSeq(packed_written, 1, n)] = Packed!NotRead

(* The length is the documented one. *)
DocumentedLength ==
  \A r \in DOMAIN DocumentedEnd :
    Len(packed_written) <= Packed!SizeOf(r) <=> packed_value <= DocumentedEnd[r]

(* A ring index moves by what it was asked to (SSRingIndex); a packed      *)
(* integer is read back as it was written, no part of it reads as another  *)
(* one, and its length is the one the comment of Packed gives              *)
(* (Packed::Serialize, Packed::Deserialize).                               *)
ArithmeticRight ==
  /\ part = "ring" => ring_index \in Ring!RingValues /\ Ring!MovesMeasured(ring_index)
  /\ part = "packed" => RoundTrip /\ DocumentedLength

(* DelaysEnd, in the behaviours that are about the delays benchmark: the   *)
(* program ends, with its results or with an error.                        *)
DelaysOver == []<>(part = "delays" => DyOver)

(* The delays benchmark ends, whatever is lost.  The bandwidth benchmark   *)
(* ends unless its handshake is lost, which is not repeated, or a write    *)
(* was stopped, of which nobody tells it; the cloud example ends unless a  *)
(* message of it is lost.  The light of the button example follows its     *)
(* key.                                                                    *)
ProcessesEnd == TestsEnd /\ DelaysOver /\ CloudEnds /\ LedFollowsKey
=============================================================================
