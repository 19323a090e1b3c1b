------------------------------- MODULE Router -------------------------------
(***************************************************************************)
(* The control plane of the routers and the certificates of one host.      *)
(*                                                                         *)
(* The API stamps an update with the second it is made in and publishes it *)
(* to every router; a router changes its memory and its cache file at      *)
(* once, then writes the database all routers share, and later replaces    *)
(* its memory by what the database holds.  An ACME order publishes a       *)
(* challenge until a router serves it, has it validated, deletes it, and   *)
(* publishes the certificate after the API has recorded it in its own      *)
(* database; the worker of the API and the calls that ask for a            *)
(* certificate at once may each have an order of the host under way.       *)
(*                                                                         *)
(* An item is the route of the host, its certificate or a challenge token. *)
(* The value of a route is the number of the update that made it (a list   *)
(* of targets, the empty one included), that of a certificate or a         *)
(* challenge is the order it belongs to.                                   *)
(***************************************************************************)
EXTENDS Naturals, FiniteSets, Sequences

CONSTANTS
  Routers,
  Orders,     (* ACME orders, an order is also its challenge token          *)
  None,       (* the item is absent                                         *)
  MaxRoute,   (* bound on the updates of the route                          *)
  MaxWork,    (* bound on the updates of the route and the orders together  *)
  MaxAdd,     (* bound on the times a challenge is published (45 in the code) *)
  MaxInbox,   (* bound on the messages that wait at a router                *)
  MaxRare     (* bound on the kinds of failures of one behaviour            *)

ASSUME RouterAssumption ==
  /\ Routers # {} /\ None \notin Orders
  /\ {"route", "cert"} \cap Orders = {}
  /\ MaxRoute \in Nat /\ MaxWork \in Nat /\ MaxAdd \in Nat \ {0} /\ MaxRare \in Nat
  /\ MaxInbox \in Nat \ {0}

VARIABLES
  clock,    (* the current second                                           *)
  made,     (* number of the last update of the route                       *)
  outbox,   (* updates that are stamped and not yet published               *)
  db,       (* the database of the routers                                  *)
  stored,   (* every value the route has had in it                          *)
  router,   (* each router: its process, its memory and its cache file      *)
  inbox,    (* messages a router has received and not handled               *)
  order,    (* the ACME orders                                              *)
  recorded, (* the order whose certificate the API has recorded             *)
  rare      (* what happened that not every property survives               *)

vars == <<clock, made, outbox, db, stored, router, inbox, order, recorded, rare>>
network == <<outbox, inbox>>
api == <<clock, made, outbox, order, recorded>>
data == <<db, stored>>

Items == {"route", "cert"} \cup Orders
Routes == 0 .. MaxRoute
Values == Routes \cup Orders \cup {None}
Empty == [i \in Items |-> IF i = "route" THEN 0 ELSE None]
NoVersions == [i \in Items |-> 0]
NoMessage == [item |-> "route", val |-> 0, at |-> 0]
Failures == {"router crash", "api crash", "write", "read", "error", "together"}
RareEvents == Failures \cup {"missed", "same second", "rewound"}
Phases == {"down", "boot", "synced", "loop", "write", "resync"}
OrderPhases == {"new", "add", "look", "validate", "cleanup", "record", "send", "done"}

Note(e, happens) == rare' = IF happens THEN rare \cup {e} ELSE rare
Rare(e) ==
  /\ e \notin rare /\ Cardinality(rare \cap Failures) < MaxRare
  /\ rare' = rare \cup {e}

UnderWay(o) == order[o].phase \notin {"new", "done"}
Work == made + Cardinality({o \in Orders : order[o].phase # "new"})

(*------------------------------- The network -----------------------------*)
Subscribed(r) == router[r].phase \in {"loop", "write", "resync"}

Missed == Note("missed", \E r \in Routers : ~Subscribed(r))

(* Mutant: the routers share a queue group. *)
BroadcastToOne(msg) ==
  \E r \in Routers :
    /\ Len(inbox[r]) < MaxInbox
    /\ inbox' = IF Subscribed(r) THEN [inbox EXCEPT ![r] = Append(@, msg)] ELSE inbox

(* A plain subscription: each router that is subscribed receives the message. *)
Broadcast(msg) ==
  /\ \A r \in Routers : Len(inbox[r]) < MaxInbox
  /\ inbox' = [r \in Routers |-> IF Subscribed(r) THEN Append(inbox[r], msg) ELSE inbox[r]]

(* Concurrent tasks of the API may publish in another order than they stamped. *)
Publish(msg) ==
  /\ msg \in outbox
  /\ outbox' = outbox \ {msg}
  /\ Broadcast(msg)
  /\ Missed
  /\ UNCHANGED <<clock, made, data, router, order, recorded>>

(*---------------------------- Updates of the route -----------------------*)
(* notify_router has listed the targets: the update carries the current second. *)
NotifyRouter(second) ==
  /\ made < MaxRoute /\ Work < MaxWork
  /\ second \in {clock, clock + 1}
  /\ clock' = second
  /\ made' = made + 1
  /\ outbox' = outbox \cup {[item |-> "route", val |-> made + 1, at |-> second]}
  /\ Note("same second", second = clock /\ made > 0)
  /\ UNCHANGED <<data, router, inbox, order, recorded>>

(*-------------------------------- A router -------------------------------*)
ShouldApplyIfNewer(r, msg) == msg.at > router[r].ver[msg.item]

(* The state, the versions and the snapshot change, and the cache file is written. *)
WithState(rec, mem, ver) == [rec EXCEPT !.mem = mem, !.ver = ver, !.cache = <<mem, ver>>]

Ignore(r) ==
  /\ router[r].phase = "loop"
  /\ inbox[r] # <<>>
  /\ ~ShouldApplyIfNewer(r, Head(inbox[r]))
  /\ inbox' = [inbox EXCEPT ![r] = Tail(@)]
  /\ UNCHANGED <<api, data, router, rare>>

(* The fast path: the memory takes the value, the database is still to be written. *)
Apply(r, items) ==
  /\ router[r].phase = "loop"
  /\ inbox[r] # <<>>
  /\ LET msg == Head(inbox[r])
         rec == router[r] IN
     /\ msg.item \in items
     /\ ShouldApplyIfNewer(r, msg)
     /\ router' = [router EXCEPT ![r] =
          [WithState(rec, [rec.mem EXCEPT ![msg.item] = msg.val],
                          [rec.ver EXCEPT ![msg.item] = msg.at])
           EXCEPT !.phase = "write", !.msg = msg, !.prev = <<rec.mem, rec.ver>>]]
  /\ inbox' = [inbox EXCEPT ![r] = Tail(@)]
  /\ UNCHANGED <<api, data, rare>>

UpdateRouteTargets(r) == Apply(r, {"route"})
AddCertificate(r) == Apply(r, {"cert"})
ChangeToken(r) == Apply(r, Orders)

Finished(rec) == [rec EXCEPT !.phase = "loop", !.msg = NoMessage, !.prev = <<Empty, NoVersions>>]
Writing(r, items) == router[r].phase = "write" /\ router[r].msg.item \in items

(* The row is replaced whatever it holds, and a resync is asked for. *)
Store(r) ==
  /\ db' = [db EXCEPT ![router[r].msg.item] = router[r].msg.val]
  /\ router' = [router EXCEPT ![r] = [Finished(@) EXCEPT !.pending = TRUE]]
  /\ UNCHANGED <<api, inbox>>

StoreRoute(r) ==
  /\ Writing(r, {"route"})
  /\ Store(r)
  /\ stored' = stored \cup {router[r].msg.val}
  /\ Note("rewound", router[r].msg.val < db["route"])

StoreCertificate(r) == Writing(r, {"cert"}) /\ Store(r) /\ UNCHANGED <<stored, rare>>
StoreChallenge(r) == Writing(r, Orders) /\ Store(r) /\ UNCHANGED <<stored, rare>>

(* Mutant: the route stays in memory. *)
RouteNotStoredKept(r) ==
  /\ Writing(r, {"route"})
  /\ Rare("write")
  /\ router' = [router EXCEPT ![r] = Finished(@)]
  /\ UNCHANGED <<api, inbox, data>>

(* The write fails: the memory is put back as it was before the update. *)
RouteNotStored(r) ==
  /\ Writing(r, {"route"})
  /\ Rare("write")
  /\ LET rec == router[r] IN
     router' = [router EXCEPT ![r] = WithState(Finished(rec), rec.prev[1], rec.prev[2])]
  /\ UNCHANGED <<api, inbox, data>>

(* The certificate stays in memory, until a resync removes it. *)
CertificateNotStored(r) ==
  /\ Writing(r, {"cert"})
  /\ Rare("write")
  /\ router' = [router EXCEPT ![r] = Finished(@)]
  /\ UNCHANGED <<api, inbox, data>>

(* A resync is asked for as if it had been stored. *)
ChallengeNotStored(r) ==
  /\ Writing(r, Orders)
  /\ Rare("write")
  /\ router' = [router EXCEPT ![r] = [Finished(@) EXCEPT !.pending = TRUE]]
  /\ UNCHANGED <<api, inbox, data>>

(* sync_full_state reads the three tables one after the other, which no property relates. *)
ReadAll(r) ==
  /\ router[r].phase = "loop" /\ router[r].pending
  /\ router' = [router EXCEPT ![r].phase = "resync", ![r].prev = <<db, NoVersions>>]
  /\ UNCHANGED <<api, inbox, data, rare>>

ReadAllFails(r) ==
  /\ router[r].phase = "loop" /\ router[r].pending
  /\ Rare("read")
  /\ router' = [router EXCEPT ![r].pending = FALSE]
  /\ UNCHANGED <<api, inbox, data>>

(* update_state: what was read replaces the memory, and every version is forgotten. *)
UpdateState(r) ==
  /\ router[r].phase = "resync"
  /\ router' = [router EXCEPT ![r] =
       [WithState(Finished(@), @.prev[1], @.prev[2]) EXCEPT !.pending = FALSE]]
  /\ UNCHANGED <<api, inbox, data, rare>>

(*-------------------------- Restarts of a router -------------------------*)
(* What the router had received and not written is gone with it. *)
Crash(r) ==
  /\ Subscribed(r)
  /\ Cardinality(rare \cap Failures) < MaxRare /\ "router crash" \notin rare
  /\ rare' = rare \cup {"router crash"} \cup
       (IF inbox[r] # <<>> \/ router[r].phase = "write" THEN {"missed"} ELSE {})
  /\ router' = [router EXCEPT ![r] = [Finished(@) EXCEPT
       !.phase = "down", !.pending = FALSE, !.mem = Empty, !.ver = NoVersions]]
  /\ inbox' = [inbox EXCEPT ![r] = <<>>]
  /\ UNCHANGED <<api, data>>

(* load_cached_state: the router serves what the cache file holds. *)
Boot(r) ==
  /\ router[r].phase = "down"
  /\ LET rec == router[r] IN
     router' = [router EXCEPT ![r] = [rec EXCEPT !.phase = "boot",
                                                 !.mem = rec.cache[1], !.ver = rec.cache[2]]]
  /\ UNCHANGED <<api, data, inbox, rare>>

(* The first sync comes before the subscription. *)
FirstSync(r) ==
  /\ router[r].phase = "boot"
  /\ router' = [router EXCEPT ![r] = [WithState(@, db, NoVersions) EXCEPT !.phase = "synced"]]
  /\ UNCHANGED <<api, data, inbox, rare>>

(* The router goes on with what the cache file held.  MaxRare does not count it: the restart is *)
(* counted.                                                                                      *)
FirstSyncFails(r) ==
  /\ router[r].phase = "boot"
  /\ rare' = rare \cup {"read"}
  /\ router' = [router EXCEPT ![r].phase = "synced"]
  /\ UNCHANGED <<api, data, inbox>>

Subscribe(r) ==
  /\ router[r].phase = "synced"
  /\ router' = [router EXCEPT ![r].phase = "loop"]
  /\ UNCHANGED <<api, data, inbox, rare>>

(*----------------------------- The ACME orders ---------------------------*)
Turn(o, phase) == order' = [order EXCEPT ![o].phase = phase]

(* The order goes on, or ends, without its challenge; "left" is what it has not done. *)
Past(c, phase, left) ==
  [c EXCEPT !.phase = phase, !.at = 0, !.adds = 0, !.ready = FALSE, !.undone = @ \cup left]

(* What is not done when an error or a crash ends the order. *)
Left(c) ==
  IF c.phase = "send" THEN {"send"} ELSE IF c.adds > 0 THEN {"cleanup"} ELSE {}
Fails(c) == Past(c, "done", Left(c))

(* The challenge carries the second of its first publication. *)
Start(o, second) ==
  /\ order[o].phase = "new" /\ Work < MaxWork
  /\ clock' = second
  /\ order' = [order EXCEPT ![o].phase = "add", ![o].at = second]
  /\ UNCHANGED <<made, outbox, data, router, inbox, recorded>>

(* The host has no certificate, or one that ends within 30 days. *)
NewOrder(o) ==
  /\ \A p \in Orders : ~UnderWay(p)
  /\ Start(o, IF recorded = None THEN clock ELSE clock + 1)
  /\ UNCHANGED rare

(* The need was looked up before another order of the host recorded its certificate. *)
NewOrderBeside(o) ==
  /\ recorded # None \/ \E p \in Orders : UnderWay(p)
  /\ Start(o, clock)
  /\ ("together" \in rare /\ UNCHANGED rare) \/ Rare("together")

Token(o, val, second) == [item |-> o, val |-> val, at |-> second]

(* verify_challenge_is_live publishes the same message before each look. *)
PublishChallenge(o) ==
  /\ order[o].phase = "add"
  /\ Broadcast(Token(o, o, order[o].at))
  /\ order' = [order EXCEPT ![o].phase = "look", ![o].adds = @ + 1]
  /\ Missed
  /\ UNCHANGED <<clock, made, outbox, data, router, recorded>>

(* lookup_acme_key_auth: a router serves what its memory holds, from the start on. *)
Serves(r, o) == router[r].phase # "down" /\ router[r].mem[o] = o

Look(r, o) ==
  /\ order[o].phase = "look"
  /\ \/ Serves(r, o) /\ Turn(o, "validate")
     \/ ~Serves(r, o) /\ order[o].adds < MaxAdd /\ Turn(o, "add")
     \/ ~Serves(r, o) /\ order[o].adds = MaxAdd /\ order' = [order EXCEPT ![o] = Fails(@)]
  /\ UNCHANGED <<clock, made, outbox, data, router, inbox, recorded, rare>>

(* The CA asks a router for the challenge; the order is looked at every five seconds until it is *)
(* ready or has failed.                                                                          *)
Validate(r, o) ==
  /\ order[o].phase = "validate"
  /\ order' = [order EXCEPT ![o].phase = "cleanup", ![o].ready = Serves(r, o)]
  /\ clock' = clock + 1
  /\ UNCHANGED <<made, outbox, data, router, inbox, recorded, rare>>

(* The CA has validated the host before: the order is ready at once. *)
ValidBefore(o) ==
  /\ order[o].phase = "validate"
  /\ order' = [order EXCEPT ![o].phase = "cleanup", ![o].ready = TRUE]
  /\ UNCHANGED <<clock, made, outbox, data, router, inbox, recorded, rare>>

Cleaned(c, left) == Past(c, IF c.ready THEN "record" ELSE "done", left)

(* Mutant: the challenge is deleted once the order is ready only. *)
CleanupReady(o) ==
  /\ order[o].phase = "cleanup"
  /\ IF order[o].ready THEN Broadcast(Token(o, None, clock)) ELSE UNCHANGED inbox
  /\ order' = [order EXCEPT ![o] = Cleaned(@, IF @.at = clock THEN {"cleanup"} ELSE {})]
  /\ Missed
  /\ UNCHANGED <<clock, made, outbox, data, router, recorded>>

(* The routers ignore a deletion of the second the challenge was made in. *)
Cleanup(o) ==
  /\ order[o].phase = "cleanup"
  /\ Broadcast(Token(o, None, clock))
  /\ order' = [order EXCEPT ![o] = Cleaned(@, IF @.at = clock THEN {"cleanup"} ELSE {})]
  /\ Missed
  /\ UNCHANGED <<clock, made, outbox, data, router, recorded>>

(* The deletion cannot be published, which is only logged. *)
CleanupFails(o) ==
  /\ order[o].phase = "cleanup"
  /\ Rare("error")
  /\ order' = [order EXCEPT ![o] = Cleaned(@, {"cleanup"})]
  /\ UNCHANGED <<clock, made, data, router, network, recorded>>

(* Mutant: the certificate is not published. *)
RecordOnly(o) ==
  /\ order[o].phase = "record"
  /\ recorded' = o
  /\ Turn(o, "done")
  /\ UNCHANGED <<clock, made, outbox, data, router, inbox, rare>>

(* cert_expires_at is written before the certificate is published. *)
Record(o) ==
  /\ order[o].phase = "record"
  /\ recorded' = o
  /\ Turn(o, "send")
  /\ UNCHANGED <<clock, made, outbox, data, router, inbox, rare>>

SendCertificate(o) ==
  /\ order[o].phase = "send"
  /\ Broadcast([item |-> "cert", val |-> o, at |-> clock])
  /\ Turn(o, "done")
  /\ Missed
  /\ UNCHANGED <<clock, made, outbox, data, router, recorded>>

(* An error ends the order where it is: the challenge cannot be published or looked at, the CA    *)
(* cannot be asked or refuses the certificate, the key cannot be encrypted or published.          *)
OrderFails(o) ==
  /\ order[o].phase \in {"add", "look", "validate", "record", "send"}
  /\ Rare("error")
  /\ order' = [order EXCEPT ![o] = Fails(@)]
  /\ UNCHANGED <<clock, made, data, router, network, recorded>>

ApiCrash ==
  /\ outbox # {} \/ \E o \in Orders : UnderWay(o)
  /\ Rare("api crash")
  /\ order' = [o \in Orders |-> IF UnderWay(o) THEN Fails(order[o]) ELSE order[o]]
  /\ outbox' = {}
  /\ UNCHANGED <<clock, made, data, router, inbox, recorded>>

(*----------------------------- Specification -----------------------------*)
(* The routers listen; one that is started later is one that crashed. *)
Init ==
  /\ clock = 1 /\ made = 0 /\ outbox = {} /\ db = Empty /\ stored = {0}
  /\ router = [r \in Routers |->
                 [phase |-> "loop", pending |-> FALSE, mem |-> Empty, ver |-> NoVersions,
                  cache |-> <<Empty, NoVersions>>, msg |-> NoMessage,
                  prev |-> <<Empty, NoVersions>>]]
  /\ inbox = [r \in Routers |-> <<>>]
  /\ order = [o \in Orders |->
                [phase |-> "new", at |-> 0, adds |-> 0, ready |-> FALSE, undone |-> {}]]
  /\ recorded = None /\ rare = {}

(* The select loop of a router handles one thing at a time. *)
Loop(r) ==
  \/ Ignore(r) \/ UpdateRouteTargets(r) \/ AddCertificate(r) \/ ChangeToken(r)
  \/ StoreRoute(r) \/ StoreCertificate(r) \/ StoreChallenge(r)
  \/ RouteNotStored(r) \/ CertificateNotStored(r) \/ ChallengeNotStored(r)
  \/ ReadAll(r) \/ ReadAllFails(r) \/ UpdateState(r)
Startup(r) == Boot(r) \/ FirstSync(r) \/ FirstSyncFails(r) \/ Subscribe(r)
Certify(o) ==
  \/ NewOrder(o) \/ NewOrderBeside(o) \/ PublishChallenge(o)
  \/ \E r \in Routers : Look(r, o) \/ Validate(r, o)
  \/ ValidBefore(o) \/ Cleanup(o) \/ CleanupFails(o)
  \/ Record(o) \/ SendCertificate(o) \/ OrderFails(o)

Done ==
  /\ Work = MaxWork /\ outbox = {} /\ \A o \in Orders : ~UnderWay(o)
  /\ \A r \in Routers : router[r].phase = "loop" /\ ~router[r].pending /\ inbox[r] = <<>>
  /\ UNCHANGED vars

Next ==
  \/ \E second \in {clock, clock + 1} : NotifyRouter(second)
  \/ \E msg \in outbox : Publish(msg)
  \/ \E r \in Routers : Loop(r) \/ Startup(r) \/ Crash(r)
  \/ \E o \in Orders : Certify(o)
  \/ ApiCrash
  \/ Done

Spec == Init /\ [][Next]_vars

(*------------------------------- Properties ------------------------------*)
(* Every variable keeps its type. *)
TypeOK ==
  /\ clock \in Nat /\ made \in 0 .. MaxRoute
  /\ outbox \subseteq [item : {"route"}, val : Routes, at : Nat]
  /\ db \in [Items -> Values] /\ stored \subseteq Routes
  /\ router \in [Routers -> [phase : Phases, pending : BOOLEAN, mem : [Items -> Values],
                             ver : [Items -> Nat], cache : [Items -> Values] \X [Items -> Nat],
                             msg : [item : Items, val : Values, at : Nat],
                             prev : [Items -> Values] \X [Items -> Nat]]]
  /\ inbox \in [Routers -> Seq([item : Items, val : Values, at : Nat])]
  /\ order \in [Orders -> [phase : OrderPhases, at : Nat, adds : 0 .. MaxAdd, ready : BOOLEAN,
                           undone : SUBSET {"cleanup", "send"}]]
  /\ recorded \in Orders \cup {None}
  /\ rare \subseteq RareEvents

Idle(r) == router[r].phase = "loop" /\ ~router[r].pending /\ inbox[r] = <<>>
Quiet == outbox = {} /\ \A r \in Routers : Idle(r)
AtRest == Quiet /\ \A o \in Orders : ~UnderWay(o)
Undisturbed(events) == rare \cap events = {}

(* Once every update has been handled, all routers serve the last list of targets, also after a *)
(* router was restarted or could not read the database.  Needed for it: no update was missed by *)
(* a starting router, none shares its second with another, no write failed, and no router took  *)
(* an older update after a newer one had been stored (it was published late, or the router was  *)
(* slow, and a resync had made it forget the versions).                                         *)
RoutersAgree ==
  Quiet /\ Undisturbed({"missed", "same second", "rewound", "write", "api crash"})
    => \A r \in Routers : router[r].mem["route"] = made /\ db["route"] = made

(* A certificate the API has recorded as issued, so that it is not asked for again for two       *)
(* months, is the one the routers have stored; when orders of the host overlapped they have       *)
(* stored one of those.  It is lost in three ways only: that order was ended between the record   *)
(* and the message, a router missed a message, or could not write what it received.               *)
RecordedIsStored ==
  AtRest /\ recorded # None /\ "send" \notin order[recorded].undone
    /\ Undisturbed({"missed", "write"})
      => IF "together" \in rare THEN db["cert"] # None ELSE db["cert"] = recorded

(* No challenge stays in the database once its order has ended.  It stays in these ways only: an  *)
(* error or a crash ended the order before the clean-up, the clean-up was not published, or it    *)
(* carried the second of the challenge itself; a router missed a message or could not write.      *)
NoChallengeLeft ==
  AtRest /\ Undisturbed({"missed", "write"}) =>
    \A o \in Orders : "cleanup" \notin order[o].undone => db[o] = None

(* An update of the route that could not be stored is taken back: at rest a router serves only  *)
(* lists of targets that were stored at some time, unless it was started from its cache file    *)
(* and could not read the database.                                                             *)
ServedWasStored ==
  Undisturbed({"read"}) =>
    \A r \in Routers : Idle(r) => router[r].mem["route"] \in stored
=============================================================================
