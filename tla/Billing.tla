------------------------------ MODULE Billing ------------------------------
(***************************************************************************)
(* What a tenant is billed: usage events are recorded one by one, an       *)
(* invoice adds the charges of those it lists to the subscription, and a   *)
(* checkout asks Stripe (external) for a session over the total.           *)
(*                                                                         *)
(* Money is counted in hundredths of a cent and units in tenths, so that   *)
(* sums are exact; rounding to cents is a choice where the amount lies     *)
(* half way, since there the binary fraction and not the amount decides.   *)
(*                                                                         *)
(* The units are a decimal(14, 4) in the table: it stores tenths as they   *)
(* are, and refuses a number of more than ten digits, which then is an     *)
(* insert that fails.  Fractions finer than four places, which it rounds   *)
(* and the in-memory store does not, are left out.                         *)
(***************************************************************************)
EXTENDS Integers, Listing

CONSTANTS
  Events,    \* the usage events, each recorded by one request
  Bodies,    \* what the requests report: a category and a number of units
  Clients,   \* those who check out; one that was answered checks out again
  Stores,    \* how the process may store: with a pool, or in memory
  Limit,     \* the LIMIT of the usage query: 2000
  MaxSessions, \* bound on the sessions of a client
  None       \* no value

unitCosts == [workflow_run |-> 50, agent_task |-> 200, api_call |-> 2,
              analytics_compute |-> 80]
Cent == 100
Subscription == 25 * 129 * 100 * Cent

ASSUME BodiesAssumption == Bodies \subseteq [category : DOMAIN unitCosts, units : Nat]
ASSUME StoresAssumption == Stores \subseteq {"postgres", "memory"}
ASSUME LimitAssumption == Limit \in Nat \ {0} /\ MaxSessions \in Nat
ASSUME NoneAssumption == None \notin Bodies

VARIABLES
  store,     \* how this deployment stores
  created,   \* the events in the order of their recordedAt
  usage,     \* event -> what it reports, or None
  call,      \* event -> the state of the request that records it
  rows,      \* the events stored
  audited,   \* the events with an audit entry
  checkout,  \* client -> how far its checkout is
  since,     \* client -> the events that were stored when it asked
  total,     \* client -> the total of its invoice, in cents
  sessions   \* client -> the sessions Stripe made for it

recording == <<created, usage, call, rows, audited>>
paying == <<checkout, since, total, sessions>>
vars == <<store, recording, paying>>

Usages == [category : DOMAIN unitCosts, units : Nat \ {0}]
Calls == {"new", "sent", "stored", "failed", "done"}
Phases == {"idle", "reading", "priced", "answered"}
Sessions == [cents : Nat \ {0}, since : SUBSET Events, until : SUBSET Events]

Charge(e) == usage[e].units * unitCosts[usage[e].category]
ChargeOf(S) == SumFunction([e \in S |-> Charge(e)])

\* toFixed(2): the nearest cent, or either of the two nearest.
RoundCents(m) == {n \in (m \div Cent)..(m \div Cent + 1) : 2 * Cent * n \in (2*m - Cent)..(2*m + Cent)}
Newest(S) == ByAge(created, S)

\* Faults.
Valid_AnyNumber(u) == TRUE
Listed_OldestFirst == FirstOf(Reverse(Newest(rows)), Limit)
Listed_NewestOnly == FirstOf(Newest(rows), 1)
UsageTotals_RoundEach(S) ==
  {FoldSet(LAMBDA e, sum : sum + (Charge(e) + Cent \div 2) \div Cent, 0, S)}
UnitAmount_InDollars(t) == IF t \div 100 > 100 THEN t \div 100 ELSE 100

-----------------------------------------------------------------------------
\* usageSchema; anything else is a 400.
Valid(u) == u.units > 0

\* listBillingUsageEvents: only the query has a limit.
Listed == IF store = "postgres" THEN FirstOf(Newest(rows), Limit) ELSE Newest(rows)

\* getInvoiceSummary, in cents.  Each sum is rounded by itself.
UsageTotals(S) == RoundCents(ChargeOf(S))
Totals(S) == RoundCents(Subscription + ChargeOf(S))

\* Stripe takes no less than a dollar.
UnitAmount(t) == IF t > 100 THEN t ELSE 100

\* The row is awaited before the audit entry is made.
Ready(e) == call[e] = "stored"

-----------------------------------------------------------------------------
Init ==
  /\ store \in Stores
  /\ created = <<>> /\ rows = {} /\ audited = {}
  /\ usage = [e \in Events |-> None]
  /\ call = [e \in Events |-> "new"]
  /\ checkout = [k \in Clients |-> "idle"]
  /\ since = [k \in Clients |-> {}]
  /\ total = [k \in Clients |-> 0]
  /\ sessions = [k \in Clients |-> <<>>]

\* POST /usage; agent tasks and workflow runs record theirs the same way.
PostUsage(e, u) ==
  /\ call[e] = "new" /\ Valid(u)
  /\ created' = Append(created, e)
  /\ usage' = [usage EXCEPT ![e] = u]
  /\ \/ /\ store = "postgres" /\ call' = [call EXCEPT ![e] = "sent"]
        /\ UNCHANGED <<rows, audited>>
     \/ /\ store = "memory" /\ call' = [call EXCEPT ![e] = "done"]
        /\ rows' = rows \cup {e} /\ audited' = audited \cup {e}
  /\ UNCHANGED <<store, paying>>

\* The row is written, and the answer gets back or is lost.
InsertUsage(e) ==
  /\ call[e] = "sent"
  /\ rows' = rows \cup {e}
  /\ \E s \in {"stored", "failed"} : call' = [call EXCEPT ![e] = s]
  /\ UNCHANGED <<store, created, usage, audited, paying>>

InsertFails(e) ==
  /\ call[e] = "sent" /\ call' = [call EXCEPT ![e] = "failed"]
  /\ UNCHANGED <<store, created, usage, rows, audited, paying>>

\* The audit entry, then 201.
Reply(e) ==
  /\ Ready(e) /\ call' = [call EXCEPT ![e] = "done"]
  /\ audited' = audited \cup {e}
  /\ UNCHANGED <<store, created, usage, rows, paying>>

\* POST /checkout, where Stripe is configured (else a 400 that changes nothing).
Checkout(k) ==
  /\ checkout[k] \in {"idle", "answered"} /\ Len(sessions[k]) < MaxSessions
  /\ checkout' = [checkout EXCEPT ![k] = "reading"]
  /\ since' = [since EXCEPT ![k] = rows]
  /\ UNCHANGED <<store, recording, total, sessions>>

\* The events are read and the session is asked for.
Price(k) ==
  /\ checkout[k] = "reading"
  /\ checkout' = [checkout EXCEPT ![k] = "priced"]
  /\ \E t \in Totals(ToSet(Listed)) : total' = [total EXCEPT ![k] = t]
  /\ UNCHANGED <<store, recording, since, sessions>>

\* Stripe makes the session; its answer, or ours to the client, may be lost.
CreateSession(k) ==
  /\ checkout[k] = "priced"
  /\ checkout' = [checkout EXCEPT ![k] = "answered"]
  /\ sessions' = [sessions EXCEPT ![k] =
       Append(@, [cents |-> UnitAmount(total[k]), since |-> since[k], until |-> rows])]
  /\ UNCHANGED <<store, recording, since, total>>

\* The query or Stripe fails: a 500.
CheckoutFails(k) ==
  /\ checkout[k] \in {"reading", "priced"}
  /\ checkout' = [checkout EXCEPT ![k] = "answered"]
  /\ UNCHANGED <<store, recording, since, total, sessions>>

Next ==
  \/ \E e \in Events :
       \/ \E u \in Bodies : PostUsage(e, u)
       \/ InsertUsage(e) \/ InsertFails(e) \/ Reply(e)
  \/ \E k \in Clients : Checkout(k) \/ Price(k) \/ CreateSession(k) \/ CheckoutFails(k)

Spec == Init /\ [][Next]_vars

-----------------------------------------------------------------------------
\* Every variable holds a value of its kind.
TypeOK ==
  /\ store \in Stores
  /\ created \in Seq(Events)
  /\ usage \in [Events -> Usages \cup {None}]
  /\ call \in [Events -> Calls]
  /\ rows \subseteq Events /\ audited \subseteq Events
  /\ checkout \in [Clients -> Phases]
  /\ since \in [Clients -> SUBSET Events]
  /\ total \in [Clients -> Nat]
  /\ sessions \in [Clients -> Seq(Sessions)]

\* An invoice counts every event stored, or as many as the limit allows; what
\* it leaves out is older than all it counts.  An audit entry is about one of
\* either.
InvoiceIsComplete ==
  LET listed == Listed
      billed == ToSet(listed)
      left   == rows \ billed
  IN  /\ billed \subseteq rows /\ audited \subseteq rows
      /\ Len(listed) = Cardinality(billed)
      /\ left # {} => store = "postgres" /\ Cardinality(billed) = Limit
      /\ \A e \in left, d \in billed : Position(created, e) < Position(created, d)

\* The three amounts of an invoice are rounded one by one, and yet add up to
\* within a cent.
InvoiceAddsUp ==
  LET billed == ToSet(Listed)
  IN  \A u \in UsageTotals(billed), t \in Totals(billed) :
        t - (Subscription \div Cent + u) \in -1..1

\* A session charges, to the cent, an amount that was owed at some moment
\* between the request and the session, whatever was recorded meanwhile: as
\* long as the limit is not reached, no less than before, no more than after.
AmountFromWindow ==
  \A k \in Clients : \A i \in DOMAIN sessions[k] :
    LET s == sessions[k][i]
        owed(S) == Subscription + ChargeOf(S)
    IN  /\ 2 * Cent * s.cents <= 2 * owed(s.until) + Cent
        /\ Cardinality(s.until) <= Limit =>
             2 * Cent * s.cents >= 2 * owed(s.since) - Cent

\* What is owed never shrinks, by whatever is recorded or paid, unless new
\* events push old ones over the limit.
OwedGrows ==
  [][Cardinality(rows') > Limit
       \/ ChargeOf(ToSet(Listed)) <= ChargeOf(ToSet(Listed))']_vars
=============================================================================
