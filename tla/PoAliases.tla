------------------------------ MODULE PoAliases ------------------------------
(***************************************************************************)
(* Where the rebuilding calls may read and write: po33_pool_edit_rebuild   *)
(* and its kin (src/core/src/po33.c) and po35_speech_edit_rebuild          *)
(* (src/core/src/po35.c).  A caller hands over regions of one memory; the  *)
(* call refuses regions that share an octet when one of them is written,   *)
(* and clears the length it returns before it has looked at the rest.      *)
(*                                                                         *)
(* Memory is Addresses 0..Top, Top for UINTPTR_MAX; a pointer is one of    *)
(* them or Null.  A region may claim more octets than there is room for,   *)
(* as a capacity of SIZE_MAX does.                                         *)
(***************************************************************************)
EXTENDS Integers

CONSTANTS Top,         \* the last address
          Pointers,    \* Pointers[region]: where a caller may put it
          Sizes,       \* Sizes[region]: how long a caller may say it is
          Required     \* how many octets the rebuilt frame takes

Null    == -1
Inputs  == {"frame", "samples"}     \* for the PO-35, the edits and their records
Storage == {"plan", "workspace", "out", "length"}
Regions == Inputs \cup Storage

(* The length is a size_t: it takes room.                                  *)
ASSUME AliasesAssumption ==
  /\ Top \in Nat /\ Required \in Nat
  /\ \A r \in Regions : Pointers[r] \subseteq (0..Top) \cup {Null}
  /\ \A r \in Regions : Sizes[r] \subseteq Nat
  /\ 0 \notin Sizes["length"]

VARIABLES at,       \* the pointers of the call
          size,     \* the sizes of the call
          memory,   \* who wrote each address, or "caller"
          pc        \* where the call is, or what it returned

aliasVars == <<at, size, memory, pc>>

(* The addresses a region covers.                                          *)
Covered(r) == IF at[r] = Null THEN {} ELSE at[r]..(at[r] + size[r] - 1)

RangesOverlap(left, left_bytes, right, right_bytes) ==
  /\ left_bytes # 0 /\ right_bytes # 0
  /\ \/ left + left_bytes > Top \/ right + right_bytes > Top
     \/ left < right + right_bytes /\ right < left + left_bytes

(* A null pointer covers nothing, whatever size is said; the length is     *)
(* compared without looking, and a call without one is refused anyway.     *)
Bytes(r) == IF at[r] = Null THEN 0 ELSE size[r]

Clash(r, s) == RangesOverlap(at[r], Bytes(r), at[s], Bytes(s))

(* What a call cannot do without; no samples need no pointer.              *)
Missing ==
  \/ \E r \in Storage \cup {"frame"} : at[r] = Null
  \/ at["samples"] = Null /\ size["samples"] # 0

(* What is written may share nothing with anything else; inputs may share  *)
(* with each other.                                                        *)
InvalidAliases ==
  \E r \in Storage : \E s \in Regions \ {r} : Clash(r, s)

(* Mutant: the length is cleared whatever it may lie on.                   *)
CanClearAlways == at["length"] # Null

CanClear == at["length"] # Null /\ ~InvalidAliases

Written(r, n, who) ==
  [a \in DOMAIN memory |-> IF a \in at[r]..(at[r] + n - 1) THEN who ELSE memory[a]]

-----------------------------------------------------------------------------
AliasInit ==
  /\ at \in [frame : Pointers.frame, samples : Pointers.samples, plan : Pointers.plan,
             workspace : Pointers.workspace, out : Pointers.out, length : Pointers.length]
  /\ size \in [frame : Sizes.frame, samples : Sizes.samples, plan : Sizes.plan,
               workspace : Sizes.workspace, out : Sizes.out, length : Sizes.length]
  /\ memory = [a \in 0..Top |-> "caller"]
  /\ pc = "called"

Clear ==
  /\ pc = "called"
  /\ memory' = IF CanClear THEN Written("length", size["length"], "cleared") ELSE memory
  /\ pc' = "cleared"
  /\ UNCHANGED <<at, size>>

Refuse ==
  /\ pc = "cleared"
  /\ \/ InvalidAliases
     \/ Missing
  /\ pc' = "invalid"
  /\ UNCHANGED <<at, size, memory>>

(* The plan is made again from the frame and must be the caller's; the     *)
(* buffers must hold what it says.                                         *)
Check ==
  /\ pc = "cleared"
  /\ ~Missing /\ ~InvalidAliases
  /\ pc' = IF size["workspace"] < Required \/ size["out"] < Required
           THEN "buffer" ELSE "planned"
  /\ UNCHANGED <<at, size, memory>>

(* The frame is parsed into the workspace; a packet may be refused midway. *)
RebuildWorkspace ==
  /\ pc = "planned"
  /\ memory' = Written("workspace", Required, "workspace")
  /\ pc' \in {"rebuilt", "frame"}
  /\ UNCHANGED <<at, size>>

Deliver ==
  /\ pc = "rebuilt"
  /\ memory' = [Written("out", Required, "out") EXCEPT ![at["length"]] = "length"]
  /\ pc' = "ok"
  /\ UNCHANGED <<at, size>>

AliasNext == Clear \/ Refuse \/ Check \/ RebuildWorkspace \/ Deliver

AliasSpec == AliasInit /\ [][AliasNext]_aliasVars

-----------------------------------------------------------------------------
(* Nothing a call may read is written while it may be read or after: not   *)
(* the frame, not the samples, not the plan, in any arrangement, refused   *)
(* or not.                                                                 *)
InputsAreKept ==
  \A r \in Inputs \cup {"plan"} : \A a \in Covered(r) \cap (0..Top) : memory[a] = "caller"

(* A call that succeeds leaves the frame and its length, each whole.       *)
ResultStands ==
  pc = "ok" =>
    /\ \A a \in at["out"]..(at["out"] + Required - 1) : memory[a] = "out"
    /\ memory[at["length"]] = "length"

(* Regions that share nothing are never refused: what is left to refuse is *)
(* a missing pointer and a region that reaches the end of memory.          *)
Apart == \A r \in Storage : \A s \in Regions \ {r} : Covered(r) \cap Covered(s) = {}
Ends == \E r \in Regions : at[r] # Null /\ size[r] # 0 /\ at[r] + size[r] > Top
OnlySharingIsRefused == pc = "invalid" => ~Apart \/ Ends \/ Missing

(* Whatever the regions of a call share, what it reads is kept, what it    *)
(* returns stands, and regions that share nothing are not refused.         *)
MemoryIsKept == InputsAreKept /\ ResultStands /\ OnlySharingIsRefused

=============================================================================
