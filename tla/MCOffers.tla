------------------------------ MODULE MCOffers ------------------------------
(***************************************************************************)
(* Promocodes, and beside it TariffOrder: what the CRM offers the riders.  *)
(* They share no state: a behaviour runs one of them, named by part.       *)
(***************************************************************************)
EXTENDS MCPromocodes

CONSTANTS Tariffs, Requests, MaxPlace   \* of TariffOrder

VARIABLES part, tariffStatus, place, serial, req, rough, renumbered

Order == INSTANCE TariffOrder WITH None <- NoRow, status <- tariffStatus

tariffVars == <<tariffStatus, place, serial, req, rough, renumbered>>

ASSUME MCOffersAssumption == Order!TariffOrderAssumption

RunInit == part \in {"promocodes", "tariffs"} /\ Init /\ Order!Init

\* The tariffs come to rest at their bound, the promocodes never do.
RunNext ==
  /\ UNCHANGED part
  /\ \/ part = "promocodes" /\ Next /\ UNCHANGED tariffVars
     \/ part = "tariffs" /\ Order!Next /\ UNCHANGED vars
     \/ part = "tariffs" /\ UNCHANGED <<vars, tariffVars>>

RunSpec == RunInit /\ [][RunNext]_<<part, vars, tariffVars>>

\* The types of both.
TypesOK == TypeOK /\ Order!TypeOK

\* The places of the active tariffs are 1 to n after an archival was renumbered
\* undisturbed (updateTariffsOrderAfterChangeStatus), and stay so through every
\* activation that nobody overlaps (changeTariffStatus counts before it writes);
\* that renumbering leaves the list in the order it was read.  The places the
\* CRM sends (updateTariffsOrders) are taken as they come, dense or not.
ListInOrder == Order!PlacesDense /\ Order!OrderKept
=============================================================================
