----------------------------- MODULE OrderBook ------------------------------
(***************************************************************************)
(* What an idempotency key promises a consumer, with no request, statement *)
(* or transaction in it: the first order placed under a key is entered     *)
(* once and for ever, and whoever uses the key afterwards is told of that  *)
(* entry if it asks for the same, and refused if it asks for another.      *)
(***************************************************************************)
CONSTANTS Requests, Keys, Orders,
          Topups,       \* orders that may be refused outright
          NoEntry, NoReply, NoRequest

VARIABLES book,     \* the entry of every key
          reply     \* what a request was told, if its answer arrived

bookVars == <<book, reply>>

BookInit ==
    /\ book = [k \in Keys |-> NoEntry]
    /\ reply = [r \in Requests |-> NoReply]

Enter(r, k, o) ==
    /\ book[k] = NoEntry
    /\ \A j \in Keys : book[j] # NoEntry => book[j].id # r
    /\ book' = [book EXCEPT ![k] = [id |-> r, order |-> o]]
    /\ UNCHANGED reply

Reply(r, k, o, says, id) ==
    /\ reply[r] = NoReply
    /\ reply' = [reply EXCEPT ![r] = [key |-> k, order |-> o, says |-> says, purchase |-> id]]
    /\ UNCHANGED book

Accept(r, k, o) == book[k] # NoEntry /\ book[k].order = o /\ Reply(r, k, o, "accepted", book[k].id)
Conflict(r, k, o) == book[k] # NoEntry /\ book[k].order # o /\ Reply(r, k, o, "conflict", NoRequest)
Refuse(r, k, o) == o \in Topups /\ Reply(r, k, o, "not_allowed", NoRequest)

BookNext ==
    \E r \in Requests, k \in Keys, o \in Orders :
        Enter(r, k, o) \/ Accept(r, k, o) \/ Conflict(r, k, o) \/ Refuse(r, k, o)

BookSpec == BookInit /\ [][BookNext]_bookVars
=============================================================================
