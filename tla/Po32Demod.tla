----------------------------- MODULE Po32Demod ------------------------------
(***************************************************************************)
(* The streaming PO-32 demodulator of src/core/src/po32.c, from the bit    *)
(* each symbol boundary decides upwards: hunting for the preamble, bytes,  *)
(* packets, the tail, loss of sync, and the three ways a caller interferes *)
(* (a callback that stops or desyncs, a desync between chunks, a flush).   *)
(*                                                                         *)
(* The analogue half (oscillator, correlator, timing recovery) is reduced  *)
(* to its outcome: every boundary decides some bit, chosen by whoever      *)
(* composes this module with a source of bits; here it is arbitrary.       *)
(*                                                                         *)
(* po32_demodulator_push works on a copy of the hot fields (run) and       *)
(* commits it at the end.  Only synced is read and written on both sides   *)
(* while a callback may run, so only synced is kept twice.                 *)
(***************************************************************************)
EXTENDS Po32Frame

CONSTANTS SyncBytes,    \* preamble bytes the sync pattern covers: 8
          WorkSize      \* PO32_DEMOD_WORK_SIZE: 280

ASSUME SyncAssumption == SyncBytes \in 1..Len(Preamble)
ASSUME WorkAssumption == WorkSize \in Nat /\ WorkSize >= MaxPacketBytes

VARIABLES
  pushing,          \* a po32_demodulator_push call is in progress
  run_synced,       \* run.synced, meaningful while pushing
  synced, started, sync_window, current_byte, bits_in_byte, byte_offset,
  crc_state, work, packet_count, done, stopped, tail,
  pending,          \* symbol_phase >= PO32_FLUSH_MIN_SYMBOL_PHASE between pushes
  heard,            \* history: bytes completed since the last acquisition
  delivered,        \* history: packets handed to the callback since then
  lost              \* history: how the lock on those bytes ended, if it did

bitVars  == <<started, sync_window>>
byteVars == <<current_byte, bits_in_byte, byte_offset>>
pktVars  == <<crc_state, work, packet_count, done, stopped, tail>>
history  == <<heard, delivered, lost>>
vars     == <<pushing, run_synced, synced, pending, bitVars, byteVars, pktVars, history>>

Bit       == {0, 1}
Reply     == [stop : BOOLEAN, desync : BOOLEAN]  \* what a callback does
WindowLen == 8 * SyncBytes
Pow2      == <<1, 2, 4, 8, 16, 32, 64, 128>>

BitOf(byte, i) == (byte \div Pow2[i + 1]) % 2

(* The last SyncBytes bytes of the preamble, least significant bit first. *)
SyncPattern ==
  [i \in 1..WindowLen |->
     BitOf(Preamble[Len(Preamble) - SyncBytes + ((i - 1) \div 8) + 1], (i - 1) % 8)]

(* Whether the demodulator currently takes bits as payload. *)
Locked == IF pushing THEN run_synced ELSE synced

Init ==
  /\ pushing = FALSE /\ run_synced = FALSE
  /\ synced = FALSE /\ started = FALSE
  /\ sync_window = [i \in 1..WindowLen |-> 0]
  /\ current_byte = 0 /\ bits_in_byte = 0 /\ byte_offset = 0
  /\ crc_state = 0 /\ work = <<>> /\ packet_count = 0
  /\ done = FALSE /\ stopped = FALSE /\ tail = NoTail
  /\ pending = TRUE
  /\ heard = <<>> /\ delivered = <<>> /\ lost = "no"

(***************************************************************************)
(* What the work buffer holds once it is w (po32_demod_on_byte).           *)
(***************************************************************************)
StartsTail(w) == Unwhiten(crc_state, w[1]) = TailMarker1

HeaderFits(w) ==
  /\ Len(w) >= HeaderBytes
  /\ HeaderIsKnown(crc_state, w)
  /\ PacketHeader(crc_state, w).len <= WorkSize

(* Mutant: the tail is judged a byte early. *)
AwaitsLess(w) ==
  \/ StartsTail(w) /\ Len(w) < TailBytes - 1
  \/ ~StartsTail(w) /\ Len(w) < HeaderBytes
  \/ ~StartsTail(w) /\ HeaderFits(w) /\ Len(w) < PacketHeader(crc_state, w).len

AwaitsMore(w) ==
  \/ StartsTail(w) /\ Len(w) < TailBytes
  \/ ~StartsTail(w) /\ Len(w) < HeaderBytes
  \/ ~StartsTail(w) /\ HeaderFits(w) /\ Len(w) < PacketHeader(crc_state, w).len

CompletesTail(w) ==
  StartsTail(w) /\ Len(w) = TailBytes /\ ReadTail(crc_state, w).ok

CompletesPacket(w) ==
  /\ ~StartsTail(w)
  /\ HeaderFits(w)
  /\ Len(w) = PacketHeader(crc_state, w).len
  /\ DecodePacket(crc_state, w).ok

(***************************************************************************)
(* A completed byte.  run and the demodulator agree on synced from here    *)
(* on: it is copied in before the handler and copied back after it.        *)
(***************************************************************************)
(* Mutant: the copy the loop works on is not reloaded. *)
SetSyncedOnce(v) == synced' = v /\ UNCHANGED run_synced

SetSynced(v) == synced' = v /\ run_synced' = v

ByteAwaited(w) ==
  /\ AwaitsMore(w)
  /\ work' = w
  /\ SetSynced(TRUE)
  /\ UNCHANGED <<crc_state, packet_count, done, stopped, tail, delivered, lost>>

(* Mutant: the tail's first state is the one before its markers.            *)
ByteEndsTailUnmarked(w) ==
  /\ CompletesTail(w)
  /\ work' = w
  /\ tail' = [ReadTail(crc_state, w).tail EXCEPT !.before = crc_state]
  /\ done' = TRUE
  /\ SetSynced(TRUE)
  /\ UNCHANGED <<crc_state, packet_count, stopped, delivered, lost>>

ByteEndsTail(w) ==
  /\ CompletesTail(w)
  /\ work' = w
  /\ tail' = ReadTail(crc_state, w).tail
  /\ done' = TRUE
  /\ SetSynced(TRUE)
  /\ UNCHANGED <<crc_state, packet_count, stopped, delivered, lost>>

(* Where in the transmitted frame the packet in w began; byte_offset has    *)
(* counted its last byte already.  Mutant: the preamble is left out.        *)
PacketStartInBody(w) == (byte_offset + 1) - Len(w)

PacketStart(w) == Len(Preamble) + (byte_offset + 1) - Len(w)

(* The packet is committed, then the callback runs and replies. *)
ByteEndsPacket(w, reply) ==
  LET pkt == DecodePacket(crc_state, w)
  IN  /\ CompletesPacket(w)
      /\ crc_state' = pkt.state
      /\ packet_count' = packet_count + 1
      /\ work' = <<>>
      /\ delivered' =
           Append(delivered, [tag |-> pkt.tag, payload |-> pkt.payload,
                              offset |-> PacketStart(w)])
      /\ stopped' = reply.stop
      /\ SetSynced(~reply.desync)
      /\ lost' = IF reply.desync THEN "asked" ELSE lost
      /\ UNCHANGED <<done, tail>>

(* Mutant: the bytes are dropped but the lock is kept. *)
ByteSkipped(w) ==
  /\ ~AwaitsMore(w) /\ ~CompletesTail(w) /\ ~CompletesPacket(w)
  /\ work' = <<>>
  /\ SetSynced(TRUE)
  /\ lost' = "rejected"
  /\ UNCHANGED <<crc_state, packet_count, done, stopped, tail, delivered>>

ByteRejected(w) ==
  /\ ~AwaitsMore(w) /\ ~CompletesTail(w) /\ ~CompletesPacket(w)
  /\ work' = <<>>
  /\ SetSynced(FALSE)
  /\ lost' = "rejected"
  /\ UNCHANGED <<crc_state, packet_count, done, stopped, tail, delivered>>

(* A full buffer is dropped before the byte is stored. *)
BufferOverrun ==
  /\ work' = <<>>
  /\ SetSynced(FALSE)
  /\ lost' = "rejected"
  /\ UNCHANGED <<crc_state, packet_count, done, stopped, tail, delivered>>

OnByte(byte, reply) ==
  IF Len(work) >= WorkSize
  THEN BufferOverrun
  ELSE \/ ByteAwaited(Append(work, byte))
       \/ ByteEndsTail(Append(work, byte))
       \/ ByteEndsPacket(Append(work, byte), reply)
       \/ ByteRejected(Append(work, byte))

(***************************************************************************)
(* One symbol boundary (po32_demod_run_boundary).                          *)
(***************************************************************************)
FirstWindow ==
  /\ ~started
  /\ started' = TRUE
  /\ UNCHANGED <<run_synced, synced, sync_window, byteVars, pktVars, history>>

Shifted(bit) == Append(Tail(sync_window), bit)

Hunt(bit) ==
  /\ started
  /\ Shifted(bit) # SyncPattern
  /\ sync_window' = Shifted(bit)
  /\ UNCHANGED <<run_synced, synced, started, byteVars, pktVars, history>>

(* run.synced is set; d->synced follows at the next byte or at the commit. *)
Acquire(bit) ==
  /\ started
  /\ Shifted(bit) = SyncPattern
  /\ sync_window' = Shifted(bit)
  /\ run_synced' = TRUE
  /\ crc_state' = InitialState
  /\ current_byte' = 0 /\ bits_in_byte' = 0 /\ byte_offset' = 0
  /\ work' = <<>> /\ packet_count' = 0
  /\ heard' = <<>> /\ delivered' = <<>> /\ lost' = "no"
  /\ UNCHANGED <<synced, started, done, stopped, tail>>

MidByte(bit) ==
  /\ bits_in_byte < 7
  /\ current_byte' = current_byte + bit * Pow2[bits_in_byte + 1]
  /\ bits_in_byte' = bits_in_byte + 1
  /\ UNCHANGED <<run_synced, synced, byte_offset, bitVars, pktVars, history>>

EndByte(bit, reply) ==
  LET byte == current_byte + bit * Pow2[8]
  IN  /\ bits_in_byte = 7
      /\ byte_offset' = byte_offset + 1
      /\ current_byte' = 0 /\ bits_in_byte' = 0
      /\ heard' = Append(heard, byte)
      /\ OnByte(byte, reply)
      /\ UNCHANGED bitVars

(***************************************************************************)
(* The calls.  A push takes any number of boundaries between PushBegin and *)
(* PushEnd; it is a no-op once done or stopped, and a step that sets       *)
(* either ends its loop.                                                   *)
(***************************************************************************)
PushBegin ==
  /\ ~pushing /\ ~done /\ ~stopped
  /\ pushing' = TRUE
  /\ run_synced' = synced
  /\ UNCHANGED <<synced, pending, bitVars, byteVars, pktVars, history>>

PushBit(bit, reply) ==
  /\ pushing /\ ~done /\ ~stopped
  /\ \/ ~run_synced /\ (FirstWindow \/ Hunt(bit) \/ Acquire(bit))
     \/ run_synced /\ (MidByte(bit) \/ EndByte(bit, reply))
  /\ UNCHANGED <<pushing, pending>>

PushEnd ==
  /\ pushing
  /\ pushing' = FALSE
  /\ synced' = run_synced
  /\ pending' \in BOOLEAN
  /\ UNCHANGED <<run_synced, bitVars, byteVars, pktVars, history>>

(* One forced boundary.  It needs a lock, so it is never the first window, *)
(* and it does not look at stopped.                                        *)
Flush(bit, reply) ==
  /\ ~pushing /\ ~done /\ synced /\ pending
  /\ pending' = FALSE
  /\ MidByte(bit) \/ EndByte(bit, reply)
  /\ UNCHANGED pushing

(* Mutant: a desync also takes a stop back. *)
DesyncResumes ==
  /\ ~pushing
  /\ synced' = FALSE
  /\ work' = <<>>
  /\ stopped' = FALSE
  /\ lost' = IF synced THEN "asked" ELSE lost
  /\ UNCHANGED <<pushing, run_synced, pending, bitVars, byteVars, crc_state,
                 packet_count, done, tail, heard, delivered>>

Desync ==
  /\ ~pushing
  /\ synced' = FALSE
  /\ work' = <<>>
  /\ lost' = IF synced THEN "asked" ELSE lost
  /\ UNCHANGED <<pushing, run_synced, pending, bitVars, byteVars, crc_state,
                 packet_count, done, stopped, tail, heard, delivered>>

(* po32_demodulator_init on a demodulator in use. *)
Reinit ==
  /\ ~pushing
  /\ pushing' = FALSE /\ run_synced' = FALSE
  /\ synced' = FALSE /\ started' = FALSE
  /\ sync_window' = [i \in 1..WindowLen |-> 0]
  /\ current_byte' = 0 /\ bits_in_byte' = 0 /\ byte_offset' = 0
  /\ crc_state' = 0 /\ work' = <<>> /\ packet_count' = 0
  /\ done' = FALSE /\ stopped' = FALSE /\ tail' = NoTail
  /\ pending' = TRUE
  /\ heard' = <<>> /\ delivered' = <<>> /\ lost' = "no"

Next ==
  \/ PushBegin \/ PushEnd \/ Desync \/ Reinit
  \/ \E bit \in Bit, reply \in Reply : PushBit(bit, reply) \/ Flush(bit, reply)

Spec == Init /\ [][Next]_vars

-----------------------------------------------------------------------------
(***************************************************************************)
(* Properties.                                                             *)
(***************************************************************************)
Packet == [tag : Word, payload : Seq(Byte), offset : Nat]

(* Every field holds a value of its C type. *)
TypeOK ==
  /\ pushing \in BOOLEAN /\ run_synced \in BOOLEAN /\ synced \in BOOLEAN
  /\ started \in BOOLEAN /\ pending \in BOOLEAN
  /\ sync_window \in [1..WindowLen -> Bit]
  /\ bits_in_byte \in 0..7
  /\ current_byte \in 0..255
  /\ byte_offset \in Nat
  /\ crc_state \in Word
  /\ work \in Seq(Byte)
  /\ packet_count \in Nat
  /\ done \in BOOLEAN /\ stopped \in BOOLEAN
  /\ tail \in [before : Word, after : Word, final : Word]
  /\ heard \in Seq(Byte)
  /\ delivered \in Seq(Packet)
  /\ lost \in {"no", "rejected", "asked"}

(* The packets reported since the last acquisition tile the received bytes *)
(* exactly: each begins where the one before it ended, the first right     *)
(* after the preamble, and the work buffer is what follows the last.  This *)
(* is what makes packet->offset an offset into the transmitted frame.      *)
WireLen(pkt) == OverheadBytes + Len(pkt.payload)

NextOffset ==
  IF delivered = <<>> THEN Len(Preamble)
  ELSE delivered[Len(delivered)].offset + WireLen(delivered[Len(delivered)])

OffsetsTile ==
  /\ packet_count = Len(delivered)
  /\ delivered # <<>> => delivered[1].offset = Len(Preamble)
  /\ \A i \in 1..(Len(delivered) - 1) :
       delivered[i+1].offset = delivered[i].offset + WireLen(delivered[i])
  /\ Locked => NextOffset + Len(work) = Len(Preamble) + byte_offset

(* The streaming decoder and po32_frame_parse are two parsers for one      *)
(* format: on the bytes heard since the last acquisition they report the   *)
(* same packets at the same offsets, and the stream is done exactly when   *)
(* the parser reaches a valid tail, with the same tail.                    *)
StreamMatchesParse ==
  LET parsed == ParseBody(heard)
  IN  bits_in_byte = 0 =>
        /\ parsed.packets = delivered
        /\ done <=> parsed.status = "ok"
        /\ done => tail = parsed.tail

(* A stop is terminal: until the demodulator is initialised again, nothing *)
(* is delivered, no tail is accepted and the flag stays up, whatever the   *)
(* caller pushes, flushes or desyncs.                                      *)
StopIsTerminal ==
  [][stopped => \/ stopped' /\ UNCHANGED <<delivered, packet_count, done, tail>>
                \/ Reinit]_vars

(* Once sync is lost, by a rejected byte or at the caller's request (from  *)
(* a callback too), no packet and no tail comes out before the preamble    *)
(* has been found again.                                                   *)
NothingAfterLoss ==
  [][lost # "no" /\ lost' # "no" => UNCHANGED <<delivered, done>>]_vars

=============================================================================
