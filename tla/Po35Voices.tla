----------------------------- MODULE Po35Voices -----------------------------
(***************************************************************************)
(* A PO-35 backup as its owner sees it: recordings, each in a slot, with a *)
(* rate, a count of records, some metadata and perhaps extensions, among   *)
(* other things.  A request asks for new records and a rate in some of the *)
(* slots, and is served as it was asked: each of these recordings gets its *)
(* own, no other does, and nothing moves.                                  *)
(***************************************************************************)
EXTENDS Integers, Sequences

CONSTANTS RecordBytes

VARIABLES voices,   \* a sequence: recordings, and things that are none
          asked     \* the request last served: <<slot, rate, records>> each

IsRecording(v) == "slot" \in DOMAIN v

(* Recordings are made of whole records. *)
Replaced(v, edit) ==
  [v EXCEPT !.audio = edit.records, !.rate = edit.rate,
            !.count = Len(edit.records) \div RecordBytes]

InSlot(now, slot) == { i \in DOMAIN now : IsRecording(now[i]) /\ now[i].slot = slot }

(* Extended recordings cannot be edited, nor one recording twice. *)
MayBe(now, request) ==
  \A e \in DOMAIN request :
    /\ Len(request[e].records) % RecordBytes = 0
    /\ \A f \in DOMAIN request : request[e].slot = request[f].slot => e = f
    /\ \E i \in DOMAIN now : InSlot(now, request[e].slot) = {i} /\ now[i].extensions = <<>>

Served(now, request) ==
  [i \in DOMAIN now |->
     IF \E e \in DOMAIN request : i \in InSlot(now, request[e].slot)
     THEN Replaced(now[i], request[CHOOSE e \in DOMAIN request : i \in InSlot(now, request[e].slot)])
     ELSE now[i]]

(* A call that served no request asked for nothing that counts.            *)
Edit == \E request \in {asked'} : MayBe(voices, request) /\ voices' = Served(voices, request)

Spec == [][Edit]_<<voices, asked>>

=============================================================================
