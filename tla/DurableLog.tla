----------------------------- MODULE DurableLog -----------------------------
(***************************************************************************)
(* What the metadata of a PfFlashStore promises to the rest of the store:  *)
(* a record that write_entry accepted survives, once and in order, every   *)
(* compaction, crash and restart.  A record is named by its ordinal: the   *)
(* n-th record logged since the disk was formatted is the number n.        *)
(***************************************************************************)
EXTENDS Naturals, Sequences

VARIABLES
    durable,    \* the records a restart would find, in the order it applies them
    accepted    \* how many records write_entry has accepted so far

dvars == <<durable, accepted>>

DInit == durable = <<>> /\ accepted = 0

\* write_entry returned 0: exactly the new record joins the durable ones.
Accept ==
    /\ accepted' = accepted + 1
    /\ durable' = Append(durable, accepted + 1)

\* Compaction, crash, restart and shutdown are all stuttering steps here.
DSpec == DInit /\ [][Accept]_dvars
=============================================================================
