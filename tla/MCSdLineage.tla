---------------------------- MODULE MCSdLineage ----------------------------
(* SdLineage on two instances at once: two cards and the faults of the     *)
(* reset, where nothing but the first store works, and two stores, one of  *)
(* them the packet log, with a card that comes and goes and a lineage      *)
(* record that may be unreadable.                                          *)
EXTENDS SdLineage, TLC

(* Cards are told apart only by what is written on them.                   *)
CardSymmetry == Permutations(Cards)

TwoCards == /\ op.store = 1 /\ ram[2] = Absent
            /\ \A c \in Cards : card[c][2] = Blank[2]
            /\ \A s \in StoreId : fence[s].ok

TwoStores == /\ faults = 0
             /\ \E c \in Cards : card[c] = Blank /\ slot # c

(* The cursors' journal plays no part here.                                *)
Instances == /\ readState.nvs = Absent
             /\ IF packetLog = 0 THEN TwoCards ELSE TwoStores
=============================================================================
