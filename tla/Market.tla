------------------------------- MODULE Market -------------------------------
(***************************************************************************)
(* The bank, the invoices and the arena over one table of users: a balance *)
(* one component has checked is one the others may move before it commits. *)
(* Each component keeps its own requests; what they share is the Ledger.   *)
(***************************************************************************)
EXTENDS Transactions, Functions

CONSTANTS InvoiceIds, InvHandlers, RoomIds, ArenaHandlers

(* The pots of the rooms can only be summed if there are finitely many.    *)
ASSUME RoomsAssumption == IsFiniteSet(RoomIds)

VARIABLES
  invoice, receipts, invReq,    \* see Invoices
  room, matches, arenaReq       \* see Arena

invoiceVars == <<invoice, receipts, invReq>>
arenaVars == <<room, matches, arenaReq>>

Inv == INSTANCE Invoices
Arn == INSTANCE Arena

marketVars == <<vars, invoiceVars, arenaVars>>

MarketInit == TransactionsInit /\ Inv!InvoicesInit /\ Arn!ArenaInit

MarketNext ==
  \/ TransactionsNext /\ UNCHANGED <<invoiceVars, arenaVars>>
  \/ Inv!InvoicesNext /\ UNCHANGED <<bankVars, arenaVars>>
  \/ Arn!ArenaNext /\ UNCHANGED <<bankVars, invoiceVars>>

MarketSpec == MarketInit /\ [][MarketNext]_marketVars

(* Clients that wait for each answer, whatever they ask for: no user has   *)
(* two requests under way, in one component or in two.                     *)
BankBusy(u) == \E h \in Handlers : bankReq[h] # Idle /\ bankReq[h].user = u
InvoicesBusy(u) == \E h \in InvHandlers : invReq[h] # Idle /\ invReq[h].user = u
ArenaBusy(u) == \E h \in ArenaHandlers : arenaReq[h] # Idle /\ arenaReq[h].user = u

OneRequestPerUser ==
  /\ OneAtATime
  /\ \A g, h \in InvHandlers :
       (invReq[g] # Idle /\ invReq[h] # Idle /\ invReq[g].user = invReq[h].user)
         => g = h
  /\ \A g, h \in ArenaHandlers :
       (arenaReq[g] # Idle /\ arenaReq[h] # Idle
          /\ arenaReq[g].user = arenaReq[h].user) => g = h
  /\ \A u \in Users :
       /\ ~(BankBusy(u) /\ InvoicesBusy(u))
       /\ ~(BankBusy(u) /\ ArenaBusy(u))
       /\ ~(InvoicesBusy(u) /\ ArenaBusy(u))

WaitingMarketSpec ==
  MarketInit /\ [][MarketNext /\ OneRequestPerUser']_marketVars

-----------------------------------------------------------------------------
(* The money of the market: what users own and what open rooms hold is the *)
(* opening money and what is borrowed, whichever components a coin passes  *)
(* through.                                                                *)
MoneyConserved ==
  SumFunction(coin) + SumFunction([r \in RoomIds |-> Arn!Pot(r)])
    = SumFunction(StartCoin) + SumFunction(bankDebt)
=============================================================================
