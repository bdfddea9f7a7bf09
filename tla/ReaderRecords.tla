---------------------------- MODULE ReaderRecords ----------------------------
(***************************************************************************)
(* What is kept of readers: their labels and segments (Membership), the    *)
(* data labels keep of them (LabelData) and their vouchers (Vouchers).     *)
(* The three share no variable: in each behaviour one of them is at work,  *)
(* and the others rest.                                                    *)
(***************************************************************************)
EXTENDS Membership, LabelData, Vouchers

VARIABLE part   \* the component that is at work

readers_vars == <<membership_vars, data_vars, vars, part>>

ReadersInit ==
    /\ MembershipInit /\ DataInit /\ Init
    /\ part \in {"membership", "data", "vouchers"}

ReadersNext ==
    \/ /\ part = "membership" /\ MembershipNext
       /\ UNCHANGED <<data_vars, vars, part>>
    \/ /\ part = "data" /\ DataNext
       /\ UNCHANGED <<membership_vars, vars, part>>
    \/ /\ part = "vouchers" /\ Next
       /\ UNCHANGED <<membership_vars, data_vars, part>>

ReadersSpec == ReadersInit /\ [][ReadersNext]_readers_vars

(* The variables of the component at work have their types.                *)
ReadersTypeOK ==
    /\ part = "membership" => MembershipTypeOK
    /\ part = "data" => DataTypeOK
    /\ part = "vouchers" => TypeOK
=============================================================================
