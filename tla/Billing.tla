------------------------------ MODULE Billing -------------------------------
(***************************************************************************)
(* The plan of one tenant.  Polar, the payment provider, holds the         *)
(* tenant's subscription and tells the API of every change by webhooks,    *)
(* each with an identifier, again and again until the API answers that it  *)
(* is well.  The API records the identifier, reads the tenant's billing    *)
(* row, computes the new row and writes it back; for a subscription it     *)
(* then puts the slug of the plan tier where the product's name was.       *)
(* Handlers run concurrently and none of their steps share a transaction.  *)
(* get_tenant_tier finds the tier whose slug is in the row, and the        *)
(* default tier otherwise: limits are those of that tier.                  *)
(*                                                                         *)
(* A product's name is told from the slugs, as in the migration that seeds *)
(* the tiers ("Pro" and "pro").  The status and the amounts of the row,    *)
(* which no tier depends on, are left out: customer.created and            *)
(* customer.updated write back the plan and the product they have read.    *)
(***************************************************************************)
EXTENDS Naturals, FiniteSets, Sequences

CONSTANTS
  Products,
  TierOf,     (* the tier an operator has linked to a product, or Nil       *)
  Default,    (* the slug of the default tier                               *)
  Nil,        (* no product, no tier, no row                                *)
  MaxHooks,   (* webhooks that may be handled at a time                     *)
  MaxPublished,  (* bound on what Polar publishes                              *)
  MaxMishaps     (* bound on the kinds of failures of one behaviour            *)

ASSUME BillingAssumption ==
  /\ TierOf \in [Products -> {TierOf[p] : p \in Products}]
  /\ Nil \notin Products /\ Default \notin Products \cup {Nil}
  /\ Products \cap {TierOf[p] : p \in Products} = {}
  /\ MaxHooks \in Nat /\ MaxPublished \in Nat /\ MaxMishaps \in Nat

Hooks == 1..MaxHooks
Slugs == ({TierOf[p] : p \in Products} \cup {Default}) \ {Nil}

VARIABLES
  customer, (* Polar knows the tenant as a customer                         *)
  sub,      (* the product the tenant subscribes to, at Polar               *)
  sent,     (* events, in the order Polar has published them                *)
  due,      (* events Polar has had no good answer for                      *)
  deliveries, (* identifiers the API has recorded                           *)
  bill,     (* the row of tenant_billing, or Nil                            *)
  hook,     (* webhook handlers                                             *)
  newest,   (* the latest of the events that have been handled              *)
  owed,     (* the row that is due when events are handled one by one       *)
  upset,    (* what has come between owed and the row since the last event  *)
            (* that writes all of it                                        *)
  mishaps,  (* failures so far                                              *)
  clear     (* the newest event found all others answered, and nothing has  *)
            (* failed since                                                 *)

polar == <<customer, sub, sent>>
history == <<newest, owed, upset, mishaps>>
billingVars == <<polar, due, deliveries, bill, hook, history, clear>>

(*---------------------------------- Rows ---------------------------------*)
Events == [kind : {"customer", "deleted", "state", "subscription"}, product : Products \cup {Nil}]
Bills == [plan : Slugs \cup Products \cup {Nil}, product : Products \cup {Nil}]
Blank == [plan |-> Nil, product |-> Nil]

ASSUME NilAssumption == Nil \notin Bills

(* Mutant: the customer's end leaves what there was. *)
RowKept(existing, e) ==
  CASE e.kind \in {"customer", "deleted"} -> IF existing = Nil THEN Blank ELSE existing
    [] OTHER -> [plan |-> e.product, product |-> e.product]

(* customer_row_from_event, subscription_row_from_event and the branches of the handler: what an *)
(* event makes of the row that was read.  The plan gets the product's name.                      *)
RowFromEvent(existing, e) ==
  CASE e.kind = "customer" -> IF existing = Nil THEN Blank ELSE existing
    [] e.kind = "deleted" -> Blank
    [] OTHER -> [plan |-> e.product, product |-> e.product]

(* assign_to_tenant: an upsert that leaves the other columns of a row. *)
Assigned(r, tier) == IF r = Nil THEN [plan |-> tier, product |-> Nil] ELSE [r EXCEPT !.plan = tier]

(* get_by_polar_product_id and the assignment, at the end of a subscription's event. *)
HasTier(e) == e.kind = "subscription" /\ TierOf[e.product] # Nil

(* get_tenant_tier *)
Tier == IF bill # Nil /\ bill.plan \in Slugs THEN bill.plan ELSE Default

Apply(r, e) ==
  LET new == RowFromEvent(r, e) IN IF HasTier(e) THEN Assigned(new, TierOf[e.product]) ELSE new

(*----------------------------------- Polar -------------------------------*)
Working == {t \in Hooks : hook[t].at \in {"load", "write", "assign"}}
Answered == due = {} /\ Working = {}

Event(kind, product) == [kind |-> kind, product |-> product]
Publish(e) ==
  /\ Len(sent) < MaxPublished
  /\ sent' = Append(sent, e)
  /\ due' = due \cup {Len(sent) + 1}
  /\ clear' = Answered

(* A checkout or a change of product, the next period, the end of a subscription, the customer's *)
(* end, and the customer's state, which is told of all of them.                                  *)
Subscribe(p) ==
  /\ p # sub
  /\ sub' = p /\ customer' = TRUE
  /\ Publish(Event("subscription", p))
  /\ UNCHANGED <<deliveries, bill, hook, history>>

Renew ==
  /\ sub # Nil
  /\ Publish(Event("subscription", sub))
  /\ UNCHANGED <<customer, sub, deliveries, bill, hook, history>>

Revoke ==
  /\ sub # Nil
  /\ sub' = Nil
  /\ Publish(Event("subscription", sub))
  /\ UNCHANGED <<customer, deliveries, bill, hook, history>>

CustomerDeleted ==
  /\ customer /\ customer' = FALSE /\ sub' = Nil
  /\ Publish(Event("deleted", Nil))
  /\ UNCHANGED <<deliveries, bill, hook, history>>

StateChanged ==
  /\ customer /\ sent[Len(sent)].kind # "state"
  /\ Publish(Event("state", sub))
  /\ UNCHANGED <<customer, sub, deliveries, bill, hook, history>>

(* ensure_polar_customer_exists, for the customer portal: look, create, and look again where *)
(* Polar says that there is one: whatever comes in between, one customer is created.         *)
OpenPortal ==
  /\ ~ customer /\ customer' = TRUE
  /\ Publish(Event("customer", Nil))
  /\ UNCHANGED <<sub, deliveries, bill, hook, history>>

(*------------------------------- The webhook -----------------------------*)
Free == [at |-> "free", id |-> 0, bill |-> Nil]
EventOf(t) == sent[hook[t].id]
HookAt(t, l) == hook[t].at = l
FirstFree(t) == HookAt(t, "free") /\ \A u \in 1..(t - 1) : ~ HookAt(u, "free")
HookGoes(t, l) == hook' = [hook EXCEPT ![t].at = l]

Mishap(e) ==
  /\ Cardinality(mishaps \cup {e}) <= MaxMishaps
  /\ mishaps' = mishaps \cup {e}
  /\ clear' = FALSE

(* The answer: Polar is content, or sends the event again. *)
Answer(t) == hook' = [hook EXCEPT ![t] = Free] /\ due' = due \ {hook[t].id}
Refuse(t) == hook' = [hook EXCEPT ![t] = Free] /\ UNCHANGED due

(* An event that writes all of the row, and meets nobody at work, makes good what was upset. *)
Whole(e) == e.kind # "customer"
Accept(t, id) ==
  LET before == IF Whole(sent[id]) /\ Working = {} THEN {} ELSE upset IN
  /\ hook' = [hook EXCEPT ![t] = [at |-> "load", id |-> id, bill |-> Nil]]
  /\ owed' = Apply(owed, sent[id])
  /\ newest' = IF id > newest THEN id ELSE newest
  /\ upset' = before \cup (IF Working # {} THEN {"overlap"} ELSE {})
                     \cup (IF id < newest THEN {"late"} ELSE {})

(* ensure_webhook_idempotent: a delivery that is known already is answered at once; Polar may *)
(* send it again while an earlier one is being handled.                                       *)
SkipKnown(t, id) ==
  /\ FirstFree(t) /\ id \in due \cap deliveries
  /\ due' = due \ {id}
  /\ UNCHANGED <<polar, deliveries, bill, hook, history, clear>>

Record(t, id) ==
  /\ FirstFree(t) /\ id \in due \ deliveries
  /\ deliveries' = deliveries \cup {id}
  /\ Accept(t, id)
  /\ UNCHANGED <<polar, due, bill, mishaps, clear>>

(* The identifier cannot be recorded: the event is handled all the same, were it a duplicate. *)
RecordFails(t, id) ==
  /\ FirstFree(t) /\ id \in due
  /\ Mishap("unrecorded")
  /\ Accept(t, id)
  /\ UNCHANGED <<polar, due, deliveries, bill>>

(* load_billing_row *)
Load(t) ==
  /\ HookAt(t, "load")
  /\ hook' = [hook EXCEPT ![t].at = "write", ![t].bill = bill]
  /\ UNCHANGED <<polar, due, deliveries, bill, history, clear>>

(* Mutant: an event that brings no other product than the row has is not handled. *)
WriteChange(t) ==
  /\ HookAt(t, "write")
  /\ IF bill # Nil /\ bill.product = EventOf(t).product
     THEN Answer(t) /\ UNCHANGED bill
     ELSE /\ bill' = RowFromEvent(hook[t].bill, EventOf(t))
          /\ IF HasTier(EventOf(t)) THEN HookGoes(t, "assign") /\ UNCHANGED due ELSE Answer(t)
  /\ UNCHANGED <<polar, deliveries, history, clear>>

(* Mutant: the insertion does nothing where there is a row. *)
WriteOnce(t) ==
  /\ HookAt(t, "write")
  /\ bill' = IF bill = Nil THEN RowFromEvent(hook[t].bill, EventOf(t)) ELSE bill
  /\ IF HasTier(EventOf(t)) THEN HookGoes(t, "assign") /\ UNCHANGED due ELSE Answer(t)
  /\ UNCHANGED <<polar, deliveries, history, clear>>

(* upsert_billing_row: every column, from the row that was read. *)
Write(t) ==
  /\ HookAt(t, "write")
  /\ bill' = RowFromEvent(hook[t].bill, EventOf(t))
  /\ IF HasTier(EventOf(t)) THEN HookGoes(t, "assign") /\ UNCHANGED due ELSE Answer(t)
  /\ UNCHANGED <<polar, deliveries, history, clear>>

Assign(t) ==
  /\ HookAt(t, "assign")
  /\ bill' = Assigned(bill, TierOf[EventOf(t).product])
  /\ Answer(t)
  /\ UNCHANGED <<polar, deliveries, history, clear>>

(* A statement fails before the row is written: Polar sends the event again, and the API knows *)
(* it already.                                                                                 *)
WebhookFails(t) ==
  /\ hook[t].at \in {"load", "write"}
  /\ Mishap("failed")
  /\ upset' = upset \cup {"failed"}
  /\ Refuse(t)
  /\ UNCHANGED <<polar, deliveries, bill, newest, owed>>

(* The tier cannot be looked up or assigned, which nobody notices. *)
AssignFails(t) ==
  /\ HookAt(t, "assign")
  /\ Mishap("failed")
  /\ upset' = upset \cup {"failed"}
  /\ Answer(t)
  /\ UNCHANGED <<polar, deliveries, bill, newest, owed>>

(* The API is started again: handlers are cut, and migrate_existing_tenants puts every tenant on *)
(* the default tier before the first request, unless the statement fails.                        *)
ApiRestarts ==
  /\ "restart" \notin mishaps
  /\ Mishap("restart")
  /\ hook' = [t \in Hooks |-> Free]
  /\ bill' \in {bill, Assigned(bill, Default)}
  /\ upset' = upset \cup {"restart"}
  /\ UNCHANGED <<polar, due, deliveries, newest, owed>>

BillingInit ==
  /\ customer = FALSE /\ sub = Nil /\ sent = <<>> /\ due = {} /\ deliveries = {}
  /\ bill = Assigned(Nil, Default)
  /\ hook = [t \in Hooks |-> Free]
  /\ newest = 0 /\ owed = bill /\ upset = {} /\ mishaps = {} /\ clear = FALSE

Receive(id) == \E t \in Hooks : SkipKnown(t, id) \/ Record(t, id)
Handle(t) == Load(t) \/ Write(t) \/ Assign(t)

BillingNext ==
  \/ \E p \in Products : Subscribe(p)
  \/ Renew \/ Revoke \/ CustomerDeleted \/ StateChanged \/ OpenPortal
  \/ \E t \in Hooks, id \in due : SkipKnown(t, id) \/ Record(t, id) \/ RecordFails(t, id)
  \/ \E t \in Hooks : Handle(t) \/ WebhookFails(t) \/ AssignFails(t)
  \/ ApiRestarts

BillingSpec == BillingInit /\ [][BillingNext]_billingVars

(* A handler goes on, and Polar sends again whatever was not answered well.  A failure that *)
(* comes back for ever is excluded by its bound.                                            *)
BillingFairSpec ==
  /\ BillingSpec
  /\ \A t \in Hooks : WF_billingVars(Handle(t))
  /\ \A id \in 1..MaxPublished : SF_billingVars(Receive(id))

(*-------------------------------- Properties -----------------------------*)
(* Type invariant; a handler has a delivery, and Polar asks only for what it has published. *)
BillingTypeOK ==
  /\ customer \in BOOLEAN /\ sub \in Products \cup {Nil}
  /\ sent \in Seq(Events) /\ Len(sent) <= MaxPublished
  /\ due \subseteq 1..Len(sent) /\ deliveries \subseteq 1..Len(sent)
  /\ bill \in Bills \cup {Nil} /\ owed \in Bills \cup {Nil}
  /\ hook \in [Hooks -> {Free} \cup [at : {"load", "write", "assign"},
                                     id : 1..Len(sent), bill : Bills \cup {Nil}]]
  /\ newest \in 0..Len(sent)
  /\ upset \subseteq {"overlap", "late", "failed", "restart"}
  /\ mishaps \subseteq {"unrecorded", "failed", "restart"} /\ clear \in BOOLEAN

(* At rest, the row is what the handling of one event after the other gives, unless, since the  *)
(* last event that writes all of the row, two handlers have overlapped, one has failed, or the   *)
(* API was started again (handle_polar_webhook_with_secret).                                     *)
AsIfOneByOne == (Working = {} /\ upset \subseteq {"late"}) => bill = owed

(* When every webhook has been answered well and nobody is at work, the tenant has the tier of   *)
(* the product it pays for, or the default tier when it pays for none, provided that the newest  *)
(* event was handled last and alone, and that it was the subscription's own event while there is *)
(* one and not when there is none: customer.state_changed leaves no tier (get_tenant_tier).      *)
(* Nothing is claimed while anything upsets it: a tenant has lost its tier after a restart of    *)
(* the API or a failure, until an event that writes all of the row is handled alone.             *)
TierOwed == IF sub # Nil /\ TierOf[sub] # Nil THEN TierOf[sub] ELSE Default
ToldLast == \E id \in 1..Len(sent) :
  /\ \A later \in (id + 1)..Len(sent) : ~ Whole(sent[later])
  /\ sent[id].kind \in IF sub = Nil THEN {"state", "deleted"} ELSE {"subscription"}
TierIsOwed == (Answered /\ upset = {} /\ ToldLast) => Tier = TierOwed

(* Every webhook is answered well in the end, after failures and restarts too, and a tier that   *)
(* was lost is found again: whatever has overlapped, come late, failed or been put back to the   *)
(* default tier by a restart, one event of the subscription (or of its end) that is published    *)
(* when all others are answered, and is the last thing to happen, sets the tier right.           *)
LastTells ==
  sent # <<>> /\ sent[Len(sent)].kind \in IF sub = Nil THEN {"state", "deleted"} ELSE {"subscription"}
TierHeals == <>[](Answered /\ (clear /\ LastTells => Tier = TierOwed))
=============================================================================
