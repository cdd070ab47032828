---------------------------- MODULE AtomicMemory ----------------------------
(***************************************************************************)
(* What the publication layer promises its callers, with no processes, no  *)
(* files and no Git: memory is a single object, a change request takes     *)
(* effect on it at most once and all at once, and a caller is only told    *)
(* that its change succeeded after it has.                                 *)
(*                                                                         *)
(* A request may be built several times (a retry reads a later base and    *)
(* stamps new times on its facts), so what takes effect is one BUILD of a  *)
(* request, named by a stamp.                                              *)
(***************************************************************************)
CONSTANTS Request, Stamp

VARIABLES
    applied,    \* the <<request, stamp>> pairs that have taken effect
    contents,   \* the stamps whose effect the memory files show
    acked       \* the <<request, stamp>> pairs a caller was told succeeded

absVars == <<applied, contents, acked>>

AbsTypeOK ==
    /\ applied \subseteq Request \X Stamp
    /\ contents \subseteq Stamp
    /\ acked \subseteq Request \X Stamp

AbsInit ==
    /\ applied = {}
    /\ contents = {}
    /\ acked = {}

(* One build of a request that never took effect is added to all that      *)
(* memory shows; nothing another request wrote is dropped.                 *)
Apply(r, s) ==
    /\ \A done \in applied : done[1] # r
    /\ applied' = applied \cup {<<r, s>>}
    /\ contents' = contents \cup {s}
    /\ UNCHANGED acked

Acknowledge(r, s) ==
    /\ <<r, s>> \in applied
    /\ acked' = acked \cup {<<r, s>>}
    /\ UNCHANGED <<applied, contents>>

AbsNext == \E r \in Request, s \in Stamp : Apply(r, s) \/ Acknowledge(r, s)

AbsSpec == AbsInit /\ [][AbsNext]_absVars
=============================================================================
