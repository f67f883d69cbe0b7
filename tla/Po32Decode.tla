----------------------------- MODULE Po32Decode -----------------------------
(***************************************************************************)
(* po32_decode_f32 of src/core/src/po32.c: one call that listens to a      *)
(* recording with a demodulator (Po32Link: all of it in one push, then a   *)
(* flush) while its callback files every packet into a builder over the    *)
(* caller's out_frame (Po32Builder), and then closes the rebuilt frame.    *)
(* The recording may end anywhere.                                         *)
(***************************************************************************)
EXTENDS Po32Link, Po32Builder

CONSTANT EndStride   \* the recording may end before every EndStride-th symbol

ASSUME EndAssumption == EndStride \in Nat \ {0}

VARIABLES
  stage,            \* "prepare", "push", "flush", "finalize", "returned"
  ctx_status,       \* ctx.status: what filing packets came to
  result,           \* *out_result
  filed,            \* history: the packets filed, as the demodulator gave them
  attempts          \* history: how often sync was acquired

fileVars   == <<buffer, builder_state, finished, status, out_len, appended, ctx_status, filed>>
decodeVars == <<linkVars, stage, capacity, fileVars, result, attempts>>

ClearResult == [packet_count |-> 0, done |-> FALSE, tail |-> NoTail]

(* status is the builder's last answer until the call returns; then it is  *)
(* what po32_decode_f32 returns.                                           *)
DecodeInit ==
  /\ LinkInit
  /\ stage = "prepare"
  /\ BuilderInit
  /\ ctx_status = "OK" /\ result = ClearResult
  /\ filed = <<>> /\ attempts = 0

Return(answer) ==
  /\ stage' = "returned" /\ status' = answer
  /\ UNCHANGED <<capacity, buffer, builder_state, finished, out_len, appended>>

(* po32_decode_prepare, with arguments in order, and the start of the push. *)
PrepareRefused ==
  /\ stage = "prepare"
  /\ Len(buffer) < Len(Preamble)
  /\ Return("BUFFER_TOO_SMALL")
  /\ UNCHANGED <<linkVars, ctx_status, result, filed, attempts>>

Prepare ==
  /\ stage = "prepare"
  /\ Len(buffer) >= Len(Preamble)
  /\ stage' = "push"
  /\ ChunkBegins
  /\ UNCHANGED <<capacity, fileVars, result, attempts>>

(* po32_decode_collect_packet: the callback of the push and of the flush.  *)
(* It asks for a stop when the packet could not be filed.                  *)
Delivers == Len(delivered') = Len(delivered) + 1

(* Mutant: a packet that could not be filed is passed over. *)
CollectOnwards(reply) ==
  \/ /\ Delivers
     /\ \E pkt \in {delivered'[Len(delivered')]} :
          /\ AppendPacket(pkt.tag, pkt.payload)
          /\ filed' = IF status' = "OK" THEN Append(filed, pkt) ELSE filed
     /\ UNCHANGED ctx_status
     /\ ~reply.stop
  \/ ~Delivers /\ UNCHANGED <<capacity, fileVars>>

Collect(reply) ==
  \/ /\ Delivers
     /\ \E pkt \in {delivered'[Len(delivered')]} :
          /\ AppendPacket(pkt.tag, pkt.payload)
          /\ filed' = IF status' = "OK" THEN Append(filed, pkt) ELSE filed
     /\ ctx_status' = status'
     /\ reply.stop = (status' # "OK")
  \/ ~Delivers /\ UNCHANGED <<capacity, fileVars>>

Listen ==
  /\ stage = "push"
  /\ \E reply \in Replies :
       /\ \/ Hear(reply) \/ HearWrong(reply)
          \/ \E bit \in Bit : HearExtra(bit, reply)
       /\ Collect(reply)
  /\ attempts' = IF ~run_synced /\ run_synced' THEN attempts + 1 ELSE attempts
  /\ UNCHANGED <<stage, result>>

LoseSymbol ==
  /\ stage = "push"
  /\ Miss
  /\ UNCHANGED <<stage, capacity, fileVars, result, attempts>>

RecordingEnds ==
  /\ stage = "push"
  /\ pos % EndStride = 0 \/ ~Playing \/ done \/ stopped
  /\ PushEnd
  /\ stage' = "flush"
  /\ UNCHANGED <<pos, faults, capacity, fileVars, result, attempts>>

(* The flush decides the symbol cut off by the end of the recording, if    *)
(* enough of it was heard; otherwise it does nothing.                      *)
FlushDecides ==
  /\ stage = "flush"
  /\ \E reply \in Replies :
       /\ Flush(IF Playing THEN Recording[pos] ELSE 1, reply)
       /\ Collect(reply)
  /\ stage' = "finalize"
  /\ UNCHANGED <<pos, faults, result, attempts>>

FlushIdles ==
  /\ stage = "flush"
  /\ done \/ ~synced \/ ~pending
  /\ stage' = "finalize"
  /\ UNCHANGED <<linkVars, capacity, fileVars, result, attempts>>

(* po32_decode_finalize. *)
FilingFailed ==
  /\ stage = "finalize" /\ ctx_status # "OK"
  /\ Return(ctx_status)
  /\ UNCHANGED <<linkVars, ctx_status, result, filed, attempts>>

NoTailHeard ==
  /\ stage = "finalize" /\ ctx_status = "OK" /\ ~done
  /\ Return("FRAME")
  /\ result' = [packet_count |-> packet_count, done |-> FALSE, tail |-> result.tail]
  /\ UNCHANGED <<linkVars, ctx_status, filed, attempts>>

CloseFrame ==
  /\ stage = "finalize" /\ ctx_status = "OK" /\ done
  /\ Finish
  /\ stage' = "returned"
  /\ result' = IF status' = "OK"
               THEN [packet_count |-> packet_count, done |-> done, tail |-> tail]
               ELSE result
  /\ UNCHANGED <<linkVars, ctx_status, filed, attempts>>

DecodeNext ==
  \/ PrepareRefused \/ Prepare \/ Listen \/ LoseSymbol \/ RecordingEnds
  \/ FlushDecides \/ FlushIdles \/ FilingFailed \/ NoTailHeard \/ CloseFrame

DecodeSpec == DecodeInit /\ [][DecodeNext]_decodeVars

-----------------------------------------------------------------------------
(***************************************************************************)
(* Properties.                                                             *)
(***************************************************************************)
Returned == stage = "returned"

(* While the demodulator is on the first lock of the call, the rebuilt     *)
(* frame is an exact copy of what it has confirmed: the builder stands at  *)
(* the byte and in the state the demodulator stands at, less the bytes of  *)
(* the packet being received.                                              *)
BuilderFollows ==
  stage = "push" /\ attempts = 1 /\ Locked /\ ctx_status = "OK" =>
    /\ Len(buffer) = Len(Preamble) + byte_offset - Len(work)
    /\ builder_state = crc_state
    /\ SubSeq(buffer, Len(Preamble) + 1, Len(buffer)) = SubSeq(heard, 1, Len(heard) - Len(work))

(* A call that reports success after a single acquisition returns, byte    *)
(* for byte, a frame somebody sent, with that frame's tail and count.      *)
OneLockReturnsTheFrame ==
  Returned /\ status = "OK" /\ attempts = 1 =>
    \E k \in 1..Len(Broadcast) :
      /\ buffer = Preamble \o Body[k]
      /\ result.packet_count = Len(Broadcast[k])
      /\ result.tail = ParseFrame(buffer).tail
      /\ out_len = Len(buffer)

(* Success always means a frame po32_frame_parse accepts, holding exactly  *)
(* the packets that were filed, at the offsets the builder gave them.      *)
SuccessParses ==
  Returned /\ status = "OK" =>
    LET parsed == ParseFrame(buffer)
    IN  /\ parsed.status = "ok"
        /\ out_len = Len(buffer) /\ out_len <= capacity
        /\ parsed.packets = appended

(* A call that fails leaves *out_len at zero and reports no completion,    *)
(* whatever was already written into out_frame.                            *)
FailureReportsNothing ==
  Returned /\ status # "OK" => out_len = 0 /\ ~result.done /\ result.tail = NoTail

(* What a call reports is so, of a frame or of none.                       *)
ReportIsTrue == SuccessParses /\ FailureReportsNothing

(* docs/api/PO32.md "Packet offsets": packet->offset "matches the offset   *)
(* po32_builder_append_packet(...) reports for the same packet, so it can  *)
(* be used to index a reconstructed frame".                                *)
OffsetsIndexTheFrame ==
  Returned /\ status = "OK" => \A i \in 1..Len(filed) : filed[i].offset = appended[i].offset

=============================================================================
