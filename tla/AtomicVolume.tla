--------------------------- MODULE AtomicVolume ---------------------------
(***************************************************************************)
(* What a BAFS volume promises its user about power loss, with no disk in  *)
(* sight.  A volume holds one durable image.  A flush offers a new image;  *)
(* the durable image may become an offered one, whole, at any moment       *)
(* before the flush is acknowledged or the volume is mounted again, and    *)
(* never changes otherwise.  Damage to both superblock copies is the only  *)
(* way to lose the volume.                                                 *)
(***************************************************************************)
CONSTANTS
    Image,   \* the possible contents of a volume (all blocks its roots reach)
    Lost     \* the volume cannot be mounted any more

VARIABLES
    durable, \* the image the next mount would find
    acked,   \* the image of the last acknowledged flush (or found by the last mount)
    offered  \* images of flushes that started and were not acknowledged

absVars == <<durable, acked, offered>>

AbsInit ==
    /\ durable \in Image
    /\ acked = durable
    /\ offered = {}

\* flush_and_commit is called with the working image v.
Offer(v) ==
    /\ offered' = offered \cup {v}
    /\ UNCHANGED <<durable, acked>>

\* The commit point of an offered image.
TakeEffect ==
    /\ durable' \in offered
    /\ UNCHANGED <<acked, offered>>

\* flush_and_commit returns Ok: only a durable offered image is acknowledged.
\* The commit point and the acknowledgement may coincide.
Acknowledge(v) ==
    /\ v \in offered
    /\ durable' = v
    /\ acked' = v
    /\ offered' = {}

\* bafs_mount returns Ok: the user sees the durable image, and what was
\* offered and did not take effect is gone for good.
Resolve ==
    /\ durable # Lost
    /\ acked' = durable
    /\ offered' = {}
    /\ UNCHANGED durable

\* Both copies of the superblock are damaged.
Lose ==
    /\ durable' = Lost
    /\ UNCHANGED <<acked, offered>>

AbsNext ==
    \/ \E v \in Image : Offer(v) \/ Acknowledge(v)
    \/ TakeEffect
    \/ Resolve
    \/ Lose

AbsSpec == AbsInit /\ [][AbsNext]_absVars
===========================================================================
