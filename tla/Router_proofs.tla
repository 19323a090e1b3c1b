---------------------------- MODULE Router_proofs -----------------------------
(***************************************************************************)
(* Proofs about the control plane of the routers, for any number of        *)
(* routers, updates, orders and failures.                                  *)
(***************************************************************************)
EXTENDS Router, SequenceTheorems, TLAPS

Message == [item : Items, val : Values, at : Nat]
RouterRecord ==
  [phase : Phases, pending : BOOLEAN, mem : [Items -> Values], ver : [Items -> Nat],
   cache : [Items -> Values] \X [Items -> Nat], msg : Message,
   prev : [Items -> Values] \X [Items -> Nat]]

OrderRecord ==
  [phase : OrderPhases, at : Nat, adds : 0 .. MaxAdd, ready : BOOLEAN,
   undone : SUBSET {"cleanup", "send"}]

(* The types, and what they rest on: the value of a route is the number of an update; a challenge *)
(* that is to be published can be, and is of an order that has not cleaned up.                    *)
RouteValues ==
  \A r \in Routers :
    /\ \A i \in DOMAIN inbox[r] : inbox[r][i].item = "route" => inbox[r][i].val \in Routes
    /\ router[r].msg.item = "route" => router[r].msg.val \in Routes
OrderOk(c) ==
  /\ c \in OrderRecord
  /\ c.phase = "add" => c.adds < MaxAdd
  /\ c.phase \in {"new", "record", "send", "done"} => c.adds = 0
Types == TypeOK /\ RouteValues /\ \A o \in Orders : OrderOk(order[o])

(* Stamps are not of the future; a router that does not listen has no messages; the cache file is *)
(* what the memory is; a resync forgets the versions.                                             *)
Clocked ==
  /\ clock \in Nat \ {0} /\ \A o \in Orders : order[o].at <= clock
  /\ \A m \in outbox : m.at <= clock
  /\ \A r \in Routers : \A i \in DOMAIN inbox[r] : inbox[r][i].at <= clock
  /\ \A r \in Routers, x \in Items :
       router[r].ver[x] <= clock /\ router[r].cache[2][x] <= clock /\ router[r].prev[2][x] <= clock
Asleep == \A r \in Routers : ~ Subscribed(r) => inbox[r] = <<>>
Coherent ==
  \A r \in Routers :
    /\ router[r].phase # "down" => router[r].cache = <<router[r].mem, router[r].ver>>
    /\ router[r].phase = "resync" => router[r].prev[2] = NoVersions
BaseInv == Clocked /\ Asleep /\ Coherent

(* What a router serves has been stored, or is being stored and is taken back when that fails. *)
ServesStored(c) ==
  IF c.phase = "write" /\ c.msg.item = "route"
  THEN c.mem["route"] = c.msg.val /\ c.prev[1]["route"] \in stored
  ELSE /\ c.phase # "boot" => c.mem["route"] \in stored
       /\ c.phase = "resync" => c.prev[1]["route"] \in stored
ServedInv ==
  /\ 0 \in stored /\ db["route"] \in stored
  /\ Undisturbed({"read"}) => \A r \in Routers : ServesStored(router[r])

(* An item whose last value is on its way: whatever else a router has received of the item, it    *)
(* has received that value after it, and it will not be taken for an old one.                     *)
Says(r, i, x, w) == inbox[r][i].item = x /\ inbox[r][i].val = w
Writes(r, x) == router[r].phase = "write" /\ router[r].msg.item = x
Arrives(r, x, w) ==
  (Writes(r, x) /\ router[r].msg.val = w) \/ \E i \in DOMAIN inbox[r] : Says(r, i, x, w)
Lasts(x, w) ==
  /\ db[x] # w => \E r \in Routers : Arrives(r, x, w)
  /\ \A r \in Routers :
       /\ Writes(r, x) /\ router[r].msg.val # w => \E j \in DOMAIN inbox[r] : Says(r, j, x, w)
       /\ \A i \in DOMAIN inbox[r] : inbox[r][i].item = x /\ ~ Says(r, i, x, w) =>
            \E j \in DOMAIN inbox[r] : j > i /\ Says(r, j, x, w)
Taken(x, W) ==
  \A r \in Routers : \A j \in DOMAIN inbox[r] : inbox[r][j].item = x /\ inbox[r][j].val \in W =>
    /\ inbox[r][j].at > router[r].ver[x] /\ inbox[r][j].at > 0
    /\ \A i \in DOMAIN inbox[r] : i < j /\ inbox[r][i].item = x =>
         inbox[r][i].at < inbox[r][j].at

(* A challenge that was published and not deleted: until it is deleted nothing of it is of a later *)
(* second than itself.  A challenge that is not out is on its way out.                             *)
Open(o) == order[o].phase \in {"new", "add", "look", "validate", "cleanup"}
Until(r, x, second) ==
  /\ router[r].ver[x] <= second /\ router[r].cache[2][x] <= second
  /\ router[r].prev[2][x] <= second
  /\ \A i \in DOMAIN inbox[r] : inbox[r][i].item = x => inbox[r][i].at <= second
TokenStamps(o) == Open(o) => \A r \in Routers : Until(r, o, order[o].at)
Withdrawn(o) ==
  "cleanup" \notin order[o].undone =>
    Taken(o, {None}) /\ (order[o].adds = 0 => Lasts(o, None))
ChallengeInv ==
  /\ \A o \in Orders : TokenStamps(o)
  /\ Undisturbed({"missed", "write"}) => \A o \in Orders : Withdrawn(o)

(* A router that has the version of a certificate has stored one, or is about to. *)
CertIn(r) ==
  /\ Writes(r, "cert") => router[r].msg.val \in Orders
  /\ \A i \in DOMAIN inbox[r] : inbox[r][i].item = "cert" =>
       inbox[r][i].val \in Orders /\ inbox[r][i].at > 0
  /\ router[r].ver["cert"] > 0 \/ router[r].cache[2]["cert"] > 0 \/ router[r].prev[2]["cert"] > 0
       => db["cert"] # None \/ Writes(r, "cert")
CertComes ==
  \/ db["cert"] # None
  \/ \E r \in Routers : Writes(r, "cert") \/ \E i \in DOMAIN inbox[r] : inbox[r][i].item = "cert"

(* A certificate the API has recorded is on its way in, once it was published, or another one is. *)
Published(o) == o = recorded /\ order[o].phase # "send" /\ "send" \notin order[o].undone
SomeCert == (\A r \in Routers : CertIn(r)) /\ \A o \in Orders : Published(o) => CertComes

(* While orders do not overlap it is that one: the next one is of a later second. *)
CertStamps == \A r \in Routers : Until(r, "cert", clock - 1)
LastCert ==
  /\ Taken("cert", Values)
  /\ \A o, p \in Orders : UnderWay(o) /\ UnderWay(p) => o = p
  /\ \A o \in Orders : UnderWay(o) => CertStamps
  /\ \A o \in Orders : order[o].phase = "send" => o = recorded
  /\ \A o \in Orders : o = recorded => order[o].phase \in {"send", "done"}
  /\ recorded = None => CertStamps
  /\ \A o \in Orders : Published(o) => Lasts("cert", o)
CertInv ==
  Undisturbed({"missed", "write"}) => SomeCert /\ ("together" \notin rare => LastCert)

(* Updates of the route that are under way, or that a router has the version of, are newer when   *)
(* they were made later.                                                                          *)
RouteMsg(val, at) == [item |-> "route", val |-> val, at |-> at]
Mail(r) == {inbox[r][i] : i \in {j \in DOMAIN inbox[r] : inbox[r][j].item = "route"}}
Served(r) == IF router[r].ver["route"] = 0 THEN {}
             ELSE {RouteMsg(router[r].mem["route"], router[r].ver["route"])}
Cached(r) == IF router[r].cache[2]["route"] = 0 THEN {}
             ELSE {RouteMsg(router[r].cache[1]["route"], router[r].cache[2]["route"])}
Updates == outbox \cup UNION {Mail(r) \cup Served(r) \cup Cached(r) : r \in Routers}
Ordered ==
  /\ \A m \in Updates : m.val \in 1 .. made /\ m.at <= clock /\ m.at > 0
  /\ \A m, n \in Updates : m.val < n.val => m.at < n.at

(* What a router serves is not ahead of the database, unless it is about to be stored. *)
Behind(c) ==
  IF c.phase = "write" /\ c.msg.item = "route"
  THEN c.mem["route"] = c.msg.val /\ c.msg.val \in 1 .. made
  ELSE /\ c.mem["route"] \in 0 .. db["route"] /\ c.cache[1]["route"] \in 0 .. db["route"]
       /\ c.phase = "resync" => c.prev[1]["route"] \in 0 .. db["route"]
(* The last update reaches every router, or it has it. *)
Awaits(r) ==
  \/ \E m \in outbox : m.val = made
  \/ Arrives(r, "route", made)
HasLast(c) ==
  /\ db["route"] = made
  /\ ~ (c.phase = "write" /\ c.msg.item = "route") =>
       /\ c.phase # "down" => c.mem["route"] = made
       /\ c.cache[1]["route"] = made
       /\ c.phase = "resync" => c.prev[1]["route"] = made
RouteInv ==
  Undisturbed({"missed", "same second", "rewound", "write", "api crash"}) =>
    /\ db["route"] \in 0 .. made
    /\ Ordered
    /\ \A r \in Routers : Behind(router[r]) /\ (Awaits(r) \/ HasLast(router[r]))

(*---------------------- What the steps of a router do --------------------*)
Neither == <<Empty, NoVersions>>
Turns(r, phase, mem, ver, cache, msg, prev) ==
  /\ \A s \in Routers : s # r => router'[s] = router[s]
  /\ router'[r].phase = phase /\ router'[r].mem = mem /\ router'[r].ver = ver
  /\ router'[r].cache = cache /\ router'[r].msg = msg /\ router'[r].prev = prev

(* It takes the next message, which is too old or changes what it serves. *)
Takes(r) ==
  /\ router[r].phase = "loop" /\ inbox[r] # <<>>
  /\ inbox' = [inbox EXCEPT ![r] = Tail(@)]
  /\ UNCHANGED <<db, stored, rare>>
Ignores(r) ==
  /\ Takes(r) /\ router' = router
  /\ inbox[r][1].at <= router[r].ver[inbox[r][1].item]
Applies(r) ==
  LET m == inbox[r][1]
      c == router[r]
      mem == [c.mem EXCEPT ![m.item] = m.val]
      ver == [c.ver EXCEPT ![m.item] = m.at] IN
  /\ Takes(r) /\ m.at > c.ver[m.item]
  /\ Turns(r, "write", mem, ver, <<mem, ver>>, m, <<c.mem, c.ver>>)
(* It writes the database, or cannot. *)
WriteEnds(r) == router[r].phase = "write" /\ inbox' = inbox /\ rare \subseteq rare'
Stores(r) ==
  LET c == router[r] IN
  /\ WriteEnds(r)
  /\ Turns(r, "loop", c.mem, c.ver, c.cache, NoMessage, Neither)
  /\ db' = [db EXCEPT ![c.msg.item] = c.msg.val]
  /\ IF c.msg.item = "route"
     THEN /\ stored' = stored \cup {c.msg.val}
          /\ c.msg.val < db["route"] => "rewound" \in rare'
     ELSE stored' = stored
PutsBack(r) ==
  LET c == router[r] IN
  /\ WriteEnds(r) /\ "write" \in rare' /\ c.msg.item = "route"
  /\ Turns(r, "loop", c.prev[1], c.prev[2], <<c.prev[1], c.prev[2]>>, NoMessage, Neither)
  /\ UNCHANGED data
Keeps(r) ==
  LET c == router[r] IN
  /\ WriteEnds(r) /\ "write" \in rare' /\ c.msg.item # "route"
  /\ Turns(r, "loop", c.mem, c.ver, c.cache, NoMessage, Neither)
  /\ UNCHANGED data
(* It replaces its memory by what the database holds. *)
Still == UNCHANGED <<inbox, db, stored, rare>>
Reads(r) ==
  LET c == router[r] IN
  /\ c.phase = "loop" /\ Still
  /\ Turns(r, "resync", c.mem, c.ver, c.cache, c.msg, <<db, NoVersions>>)
Loads(r) ==
  LET c == router[r] IN
  /\ c.phase = "resync" /\ Still
  /\ Turns(r, "loop", c.prev[1], c.prev[2], <<c.prev[1], c.prev[2]>>, NoMessage, Neither)
(* It stops and starts. *)
Stops(r) ==
  LET c == router[r] IN
  /\ Subscribed(r) /\ rare \subseteq rare' /\ UNCHANGED data
  /\ inbox[r] # <<>> \/ c.phase = "write" => "missed" \in rare'
  /\ inbox' = [inbox EXCEPT ![r] = <<>>]
  /\ Turns(r, "down", Empty, NoVersions, c.cache, NoMessage, Neither)
Boots(r) ==
  LET c == router[r] IN
  /\ c.phase = "down" /\ Still
  /\ Turns(r, "boot", c.cache[1], c.cache[2], c.cache, c.msg, c.prev)
Syncs(r) ==
  LET c == router[r] IN
  /\ c.phase = "boot" /\ Still
  /\ Turns(r, "synced", db, NoVersions, <<db, NoVersions>>, c.msg, c.prev)
GoesOn(r) ==
  LET c == router[r] IN
  /\ c.phase \in {"loop", "boot", "synced"} /\ UNCHANGED <<inbox, db, stored>>
  /\ rare \subseteq rare' /\ (c.phase = "boot" => "read" \in rare')
  /\ Turns(r, IF c.phase = "boot" THEN "synced" ELSE "loop",
           c.mem, c.ver, c.cache, c.msg, c.prev)
RouterStep(r) ==
  \/ Ignores(r) \/ Applies(r) \/ Stores(r) \/ PutsBack(r) \/ Keeps(r) \/ Reads(r) \/ Loads(r)
  \/ Stops(r) \/ Boots(r) \/ Syncs(r) \/ GoesOn(r)

(* A message of the API for all routers. *)
Announces(m) ==
  /\ Broadcast(m) /\ rare \subseteq rare' /\ UNCHANGED <<db, stored, router>>
  /\ (\E r \in Routers : ~ Subscribed(r)) => "missed" \in rare'
Silent == rare \subseteq rare' /\ UNCHANGED <<db, stored, router, inbox>>

-----------------------------------------------------------------------------

(* The constants of the types, and what the types say. *)
LEMMA ConstantTypes ==
  /\ "route" \in Items /\ "cert" \in Items /\ 0 \in Values /\ None \in Values
  /\ Empty \in [Items -> Values] /\ NoVersions \in [Items -> Nat] /\ NoMessage \in Message
  /\ Orders \subseteq Items /\ Orders \subseteq Values /\ Routes \subseteq Values
BY RouterAssumption DEF Items, Values, Routes, Empty, NoVersions, NoMessage, Message

(* The parts of TypeOK. *)
LEMMA RouterTypes ==
  ASSUME TypeOK
  PROVE  /\ router \in [Routers -> RouterRecord] /\ inbox \in [Routers -> Seq(Message)]
         /\ db \in [Items -> Values] /\ stored \subseteq Routes
         /\ clock \in Nat
BY DEF TypeOK, RouterRecord, Message

(* What helpers change of a router's record. *)
LEMMA FinishedFields ==
  ASSUME NEW c \in RouterRecord
  PROVE  /\ Finished(c) \in RouterRecord /\ Finished(c).phase = "loop"
         /\ Finished(c).mem = c.mem /\ Finished(c).ver = c.ver /\ Finished(c).cache = c.cache
         /\ Finished(c).msg = NoMessage /\ Finished(c).prev = Neither
BY ConstantTypes DEF Finished, RouterRecord, Phases, Neither

(* The new state of a router, field by field. *)
LEMMA WithStateFields ==
  ASSUME NEW c \in RouterRecord, NEW mem \in [Items -> Values], NEW ver \in [Items -> Nat]
  PROVE  /\ WithState(c, mem, ver) \in RouterRecord
         /\ WithState(c, mem, ver).phase = c.phase
         /\ WithState(c, mem, ver).mem = mem /\ WithState(c, mem, ver).ver = ver
         /\ WithState(c, mem, ver).cache = <<mem, ver>>
         /\ WithState(c, mem, ver).msg = c.msg /\ WithState(c, mem, ver).prev = c.prev
BY DEF WithState, RouterRecord

(* A record that replaces the one of a router. *)
LEMMA BecomesTurns ==
  ASSUME TypeOK, NEW r \in Routers, NEW d \in RouterRecord, router' = [router EXCEPT ![r] = d]
  PROVE  /\ router' \in [Routers -> RouterRecord]
         /\ Turns(r, d.phase, d.mem, d.ver, d.cache, d.msg, d.prev)
BY RouterTypes DEF Turns

(* The messages of a router once it has taken the first. *)
LEMMA TakenMessages ==
  ASSUME TypeOK, NEW r \in Routers, Takes(r)
  PROVE  /\ inbox' \in [Routers -> Seq(Message)]
         /\ 1 \in DOMAIN inbox[r] /\ inbox[r][1] = Head(inbox[r]) /\ inbox[r][1] \in Message
         /\ \A s \in Routers : s # r => inbox'[s] = inbox[s]
         /\ \A i \in DOMAIN inbox'[r] :
              i \in Nat \ {0} /\ i + 1 \in DOMAIN inbox[r] /\ inbox'[r][i] = inbox[r][i + 1]
         /\ \A i \in DOMAIN inbox[r] : i \in Nat \ {0}
         /\ \A i \in DOMAIN inbox[r] : i # 1 =>
              i - 1 \in DOMAIN inbox'[r] /\ inbox'[r][i - 1] = inbox[r][i]
<1>1. inbox \in [Routers -> Seq(Message)] /\ inbox[r] \in Seq(Message) /\ inbox[r] # <<>>
  BY RouterTypes DEF Takes
<1>2. /\ Tail(inbox[r]) \in Seq(Message) /\ Len(Tail(inbox[r])) = Len(inbox[r]) - 1
      /\ \A i \in 1 .. Len(Tail(inbox[r])) : Tail(inbox[r])[i] = inbox[r][i + 1]
  BY <1>1, HeadTailProperties
<1>3. Len(inbox[r]) \in Nat \ {0} /\ DOMAIN inbox[r] = 1 .. Len(inbox[r])
  BY <1>1, EmptySeq, LenProperties
<1>4. DOMAIN Tail(inbox[r]) = 1 .. (Len(inbox[r]) - 1)
  BY <1>2, LenProperties
<1>5. inbox' \in [Routers -> Seq(Message)] /\ inbox'[r] = Tail(inbox[r])
  BY <1>1, <1>2 DEF Takes
<1>6. 1 \in DOMAIN inbox[r] /\ inbox[r][1] = Head(inbox[r]) /\ inbox[r][1] \in Message
  BY <1>1, <1>3, ElementOfSeq
<1>7. \A s \in Routers : s # r => inbox'[s] = inbox[s]
  BY <1>1 DEF Takes
<1>8. \A i \in DOMAIN inbox'[r] :
        i \in Nat \ {0} /\ i + 1 \in DOMAIN inbox[r] /\ inbox'[r][i] = inbox[r][i + 1]
  BY <1>2, <1>3, <1>4, <1>5
<1>9. \A i \in DOMAIN inbox[r] : i # 1 =>
        i - 1 \in DOMAIN inbox'[r] /\ inbox'[r][i - 1] = inbox[r][i]
  <2> SUFFICES ASSUME NEW i \in DOMAIN inbox[r], i # 1
               PROVE  i - 1 \in DOMAIN inbox'[r] /\ inbox'[r][i - 1] = inbox[r][i]
    OBVIOUS
  <2>1. i \in Int /\ i - 1 \in DOMAIN inbox'[r]
    BY <1>3, <1>4, <1>5
  <2> QED
    BY <2>1, <1>8
<1> QED
  BY <1>3, <1>5, <1>6, <1>7, <1>8, <1>9

(* The messages of the routers once one was published. *)
LEMMA BroadcastMessages ==
  ASSUME TypeOK, NEW m \in Message, Broadcast(m)
  PROVE  /\ inbox' \in [Routers -> Seq(Message)]
         /\ \A r \in Routers : ~ Subscribed(r) => inbox'[r] = inbox[r]
         /\ \A r \in Routers : Subscribed(r) =>
              \E n \in DOMAIN inbox'[r] :
                /\ inbox'[r][n] = m /\ n \in Nat
                /\ DOMAIN inbox'[r] = DOMAIN inbox[r] \cup {n}
                /\ \A i \in DOMAIN inbox[r] : i \in Nat /\ i < n /\ inbox'[r][i] = inbox[r][i]
<1>1. inbox \in [Routers -> Seq(Message)]
  BY RouterTypes
<1>2. ASSUME NEW r \in Routers
      PROVE  /\ Append(inbox[r], m) \in Seq(Message)
             /\ Len(inbox[r]) \in Nat /\ DOMAIN inbox[r] = 1 .. Len(inbox[r])
             /\ DOMAIN Append(inbox[r], m) = 1 .. (Len(inbox[r]) + 1)
             /\ Append(inbox[r], m)[Len(inbox[r]) + 1] = m
             /\ \A i \in 1 .. Len(inbox[r]) : Append(inbox[r], m)[i] = inbox[r][i]
  BY <1>1, AppendProperties, LenProperties
<1>3. \A r \in Routers :
        inbox'[r] = IF Subscribed(r) THEN Append(inbox[r], m) ELSE inbox[r]
  BY DEF Broadcast
<1>4. inbox' \in [Routers -> Seq(Message)]
  BY <1>1, <1>2 DEF Broadcast
<1>5. ASSUME NEW r \in Routers, Subscribed(r)
      PROVE  \E n \in DOMAIN inbox'[r] :
               /\ inbox'[r][n] = m /\ n \in Nat
               /\ DOMAIN inbox'[r] = DOMAIN inbox[r] \cup {n}
               /\ \A i \in DOMAIN inbox[r] : i \in Nat /\ i < n /\ inbox'[r][i] = inbox[r][i]
  <2> DEFINE n == Len(inbox[r]) + 1
  <2>1. inbox'[r] = Append(inbox[r], m)
    BY <1>3, <1>5
  <2>2. /\ n \in Nat /\ n \in DOMAIN inbox'[r] /\ inbox'[r][n] = m
        /\ DOMAIN inbox'[r] = DOMAIN inbox[r] \cup {n}
        /\ \A i \in DOMAIN inbox[r] : i \in Nat /\ i < n /\ inbox'[r][i] = inbox[r][i]
    BY <1>2, <2>1
  <2> HIDE DEF n
  <2> QED
    BY <2>2
<1> QED
  BY <1>3, <1>4, <1>5

(* Every step of a router is one of those above. *)
LEMMA RouterSteps ==
  ASSUME TypeOK, NEW r \in Routers, Loop(r) \/ Startup(r) \/ Crash(r)
  PROVE  /\ router' \in [Routers -> RouterRecord]
         /\ RouterStep(r) /\ UNCHANGED api /\ rare \subseteq rare'
<1> DEFINE c == router[r]
<1>0. /\ c \in RouterRecord /\ router \in [Routers -> RouterRecord] /\ db \in [Items -> Values]
      /\ c.mem \in [Items -> Values] /\ c.ver \in [Items -> Nat]
      /\ c.prev[1] \in [Items -> Values] /\ c.prev[2] \in [Items -> Nat]
      /\ c.cache[1] \in [Items -> Values] /\ c.cache[2] \in [Items -> Nat]
      /\ c.prev = <<c.prev[1], c.prev[2]>> /\ c.msg \in Message
  BY RouterTypes DEF RouterRecord
<1>1. ASSUME Ignore(r) PROVE Ignores(r) /\ router' = router /\ UNCHANGED api /\ rare' = rare
  <2>1. Takes(r) /\ router' = router /\ UNCHANGED api /\ rare' = rare
    BY <1>1 DEF Ignore, Takes, data
  <2>2. inbox[r][1] = Head(inbox[r]) /\ inbox[r][1] \in Message
    BY <2>1, TakenMessages
  <2>3. inbox[r][1].at <= c.ver[inbox[r][1].item]
    BY <1>0, <1>1, <2>2 DEF Ignore, ShouldApplyIfNewer, Message
  <2> QED
    BY <2>1, <2>3 DEF Ignores
<1>2. ASSUME NEW items, Apply(r, items)
      PROVE  /\ Applies(r) /\ router' \in [Routers -> RouterRecord]
             /\ UNCHANGED api /\ rare' = rare
  <2> DEFINE m == Head(inbox[r])
             mem == [c.mem EXCEPT ![m.item] = m.val]
             ver == [c.ver EXCEPT ![m.item] = m.at]
             w == WithState(c, mem, ver)
             d == [w EXCEPT !.phase = "write", !.msg = m, !.prev = <<c.mem, c.ver>>]
  <2>1. Takes(r) /\ UNCHANGED api /\ rare' = rare
    BY <1>2 DEF Apply, Takes, data
  <2>2. inbox[r][1] = m /\ m \in Message
    BY <2>1, TakenMessages
  <2>3. m.at > c.ver[m.item] /\ router' = [router EXCEPT ![r] = d]
    BY <1>2 DEF Apply, ShouldApplyIfNewer
  <2>4. mem \in [Items -> Values] /\ ver \in [Items -> Nat]
    BY <1>0, <2>2 DEF Message
  <2> HIDE DEF m, mem, ver
  <2>5. /\ w \in RouterRecord /\ w.mem = mem /\ w.ver = ver /\ w.cache = <<mem, ver>>
    BY <1>0, <2>4, WithStateFields
  <2> HIDE DEF w, c
  <2>6. /\ d \in RouterRecord /\ d.phase = "write" /\ d.mem = mem /\ d.ver = ver
        /\ d.cache = <<mem, ver>> /\ d.msg = m /\ d.prev = <<c.mem, c.ver>>
    BY <1>0, <2>2, <2>5 DEF RouterRecord, Phases
  <2> HIDE DEF d
  <2>7. /\ router' \in [Routers -> RouterRecord]
        /\ Turns(r, "write", mem, ver, <<mem, ver>>, m, <<c.mem, c.ver>>)
    BY <2>3, <2>6, BecomesTurns
  <2> QED
    BY <2>1, <2>2, <2>3, <2>7 DEF Applies, m, mem, ver, c
<1> DEFINE f == Finished(c)
<1>3. /\ f \in RouterRecord /\ f.phase = "loop" /\ f.mem = c.mem /\ f.ver = c.ver
      /\ f.cache = c.cache /\ f.msg = NoMessage /\ f.prev = Neither
  BY <1>0, FinishedFields
<1>4. /\ [f EXCEPT !.pending = TRUE] \in RouterRecord /\ f.phase = [f EXCEPT !.pending = TRUE].phase
      /\ f.mem = [f EXCEPT !.pending = TRUE].mem /\ f.ver = [f EXCEPT !.pending = TRUE].ver
      /\ f.cache = [f EXCEPT !.pending = TRUE].cache /\ f.msg = [f EXCEPT !.pending = TRUE].msg
      /\ f.prev = [f EXCEPT !.pending = TRUE].prev
  <2> HIDE DEF f
  <2> QED
    BY <1>3 DEF RouterRecord
<1>5. ASSUME router' = [router EXCEPT ![r] = [Finished(@) EXCEPT !.pending = TRUE]]
      PROVE  /\ router' \in [Routers -> RouterRecord]
             /\ Turns(r, "loop", c.mem, c.ver, c.cache, NoMessage, Neither)
  <2> DEFINE d == [f EXCEPT !.pending = TRUE]
  <2>1. router' = [router EXCEPT ![r] = d]
    BY <1>5
  <2>2. d \in RouterRecord
    BY <1>4
  <2> HIDE DEF d
  <2>3. /\ router' \in [Routers -> RouterRecord]
        /\ Turns(r, d.phase, d.mem, d.ver, d.cache, d.msg, d.prev)
    BY <2>1, <2>2, BecomesTurns
  <2> QED
    BY <1>3, <1>4, <2>3 DEF d
<1>6. ASSUME StoreRoute(r) \/ StoreCertificate(r) \/ StoreChallenge(r)
      PROVE  /\ Stores(r) /\ router' \in [Routers -> RouterRecord]
             /\ UNCHANGED api /\ rare \subseteq rare'
  <2>1. /\ c.phase = "write" /\ Store(r) /\ rare \subseteq rare'
        /\ \/ /\ c.msg.item = "route" /\ stored' = stored \cup {c.msg.val}
              /\ c.msg.val < db["route"] => "rewound" \in rare'
           \/ c.msg.item # "route" /\ stored' = stored
    BY <1>6, RouterAssumption DEF StoreRoute, StoreCertificate, StoreChallenge, Writing, Note
  <2>2. /\ db' = [db EXCEPT ![c.msg.item] = c.msg.val] /\ UNCHANGED api /\ inbox' = inbox
        /\ router' = [router EXCEPT ![r] = [Finished(@) EXCEPT !.pending = TRUE]]
    BY <2>1 DEF Store
  <2>3. /\ router' \in [Routers -> RouterRecord]
        /\ Turns(r, "loop", c.mem, c.ver, c.cache, NoMessage, Neither)
    BY <1>5, <2>2
  <2> QED
    BY <2>1, <2>2, <2>3 DEF Stores, WriteEnds
<1>7. ASSUME RouteNotStored(r)
      PROVE  /\ PutsBack(r) /\ router' \in [Routers -> RouterRecord]
             /\ UNCHANGED api /\ rare \subseteq rare'
  <2> DEFINE d == WithState(f, c.prev[1], c.prev[2])
  <2>1. /\ c.phase = "write" /\ c.msg.item = "route" /\ rare \subseteq rare' /\ "write" \in rare'
        /\ inbox' = inbox /\ UNCHANGED data /\ UNCHANGED api /\ router' = [router EXCEPT ![r] = d]
    BY <1>7 DEF RouteNotStored, Writing, Rare, data
  <2>2. /\ d \in RouterRecord /\ d.phase = "loop" /\ d.mem = c.prev[1] /\ d.ver = c.prev[2]
        /\ d.cache = <<c.prev[1], c.prev[2]>> /\ d.msg = NoMessage /\ d.prev = Neither
    <3> HIDE DEF f
    <3> QED
      BY <1>0, <1>3, WithStateFields
  <2> HIDE DEF d
  <2>3. /\ router' \in [Routers -> RouterRecord]
        /\ Turns(r, "loop", c.prev[1], c.prev[2], <<c.prev[1], c.prev[2]>>, NoMessage, Neither)
    BY <2>1, <2>2, BecomesTurns
  <2> QED
    BY <2>1, <2>3 DEF PutsBack, WriteEnds
<1>8. ASSUME CertificateNotStored(r) \/ ChallengeNotStored(r)
      PROVE  /\ Keeps(r) /\ router' \in [Routers -> RouterRecord]
             /\ UNCHANGED api /\ rare \subseteq rare'
  <2>1. /\ c.phase = "write" /\ c.msg.item # "route" /\ rare \subseteq rare' /\ "write" \in rare'
        /\ inbox' = inbox /\ UNCHANGED data /\ UNCHANGED api
    BY <1>8, RouterAssumption DEF CertificateNotStored, ChallengeNotStored, Writing, Rare, data
  <2>2. /\ router' \in [Routers -> RouterRecord]
        /\ Turns(r, "loop", c.mem, c.ver, c.cache, NoMessage, Neither)
    <3>1. CASE ChallengeNotStored(r)
      BY <3>1, <1>5 DEF ChallengeNotStored
    <3>2. CASE CertificateNotStored(r)
      <4>1. router' = [router EXCEPT ![r] = f]
        BY <3>2 DEF CertificateNotStored
      <4> HIDE DEF f
      <4>2. /\ router' \in [Routers -> RouterRecord]
            /\ Turns(r, f.phase, f.mem, f.ver, f.cache, f.msg, f.prev)
        BY <1>3, <4>1, BecomesTurns
      <4> QED
        BY <1>3, <4>2
    <3> QED
      BY <1>8, <3>1, <3>2
  <2> QED
    BY <2>1, <2>2 DEF Keeps, WriteEnds
<1>9. ASSUME ReadAll(r)
      PROVE  Reads(r) /\ router' \in [Routers -> RouterRecord] /\ UNCHANGED api /\ rare' = rare
  <2> DEFINE d == [c EXCEPT !.phase = "resync", !.prev = <<db, NoVersions>>]
  <2>1. c.phase = "loop" /\ Still /\ UNCHANGED api /\ router' = [router EXCEPT ![r] = d]
    BY <1>9, <1>0 DEF ReadAll, Still, data
  <2> HIDE DEF c
  <2>2. /\ d \in RouterRecord /\ d.phase = "resync" /\ d.mem = c.mem /\ d.ver = c.ver
        /\ d.cache = c.cache /\ d.msg = c.msg /\ d.prev = <<db, NoVersions>>
    BY <1>0, ConstantTypes DEF RouterRecord, Phases
  <2> HIDE DEF d
  <2>3. /\ router' \in [Routers -> RouterRecord]
        /\ Turns(r, "resync", c.mem, c.ver, c.cache, c.msg, <<db, NoVersions>>)
    BY <2>1, <2>2, BecomesTurns
  <2> QED
    BY <2>1, <2>3 DEF Reads, c, Still
<1>10. ASSUME UpdateState(r)
       PROVE  Loads(r) /\ router' \in [Routers -> RouterRecord] /\ UNCHANGED api /\ rare' = rare
  <2> DEFINE w == WithState(f, c.prev[1], c.prev[2])
             d == [w EXCEPT !.pending = FALSE]
  <2>1. c.phase = "resync" /\ Still /\ UNCHANGED api /\ router' = [router EXCEPT ![r] = d]
    BY <1>10 DEF UpdateState, Still, data
  <2>2. /\ w \in RouterRecord /\ w.phase = "loop" /\ w.mem = c.prev[1] /\ w.ver = c.prev[2]
        /\ w.cache = <<c.prev[1], c.prev[2]>> /\ w.msg = NoMessage /\ w.prev = Neither
    <3> HIDE DEF f
    <3> QED
      BY <1>0, <1>3, WithStateFields
  <2> HIDE DEF w
  <2>3. /\ d \in RouterRecord /\ d.phase = "loop" /\ d.mem = c.prev[1] /\ d.ver = c.prev[2]
        /\ d.cache = <<c.prev[1], c.prev[2]>> /\ d.msg = NoMessage /\ d.prev = Neither
    BY <2>2 DEF RouterRecord
  <2> HIDE DEF d
  <2>4. /\ router' \in [Routers -> RouterRecord]
        /\ Turns(r, "loop", c.prev[1], c.prev[2], <<c.prev[1], c.prev[2]>>, NoMessage, Neither)
    BY <2>1, <2>3, BecomesTurns
  <2> QED
    BY <2>1, <2>4 DEF Loads, Still
<1>11. ASSUME Crash(r)
       PROVE  /\ Stops(r) /\ router' \in [Routers -> RouterRecord]
              /\ UNCHANGED api /\ rare \subseteq rare'
  <2> DEFINE d == [f EXCEPT !.phase = "down", !.pending = FALSE, !.mem = Empty, !.ver = NoVersions]
  <2>1. /\ Subscribed(r) /\ rare \subseteq rare' /\ UNCHANGED data /\ UNCHANGED api
        /\ inbox[r] # <<>> \/ c.phase = "write" => "missed" \in rare'
        /\ inbox' = [inbox EXCEPT ![r] = <<>>] /\ router' = [router EXCEPT ![r] = d]
    BY <1>11 DEF Crash, data
  <2>2. /\ d \in RouterRecord /\ d.phase = "down" /\ d.mem = Empty /\ d.ver = NoVersions
        /\ d.cache = c.cache /\ d.msg = NoMessage /\ d.prev = Neither
    <3> HIDE DEF f
    <3> QED
      BY <1>3, ConstantTypes DEF RouterRecord, Phases
  <2> HIDE DEF d
  <2>3. /\ router' \in [Routers -> RouterRecord]
        /\ Turns(r, "down", Empty, NoVersions, c.cache, NoMessage, Neither)
    BY <2>1, <2>2, BecomesTurns
  <2> QED
    BY <2>1, <2>3 DEF Stops
<1>12. ASSUME Boot(r)
       PROVE  Boots(r) /\ router' \in [Routers -> RouterRecord] /\ UNCHANGED api /\ rare' = rare
  <2> DEFINE d == [c EXCEPT !.phase = "boot", !.mem = c.cache[1], !.ver = c.cache[2]]
  <2>1. c.phase = "down" /\ Still /\ UNCHANGED api /\ router' = [router EXCEPT ![r] = d]
    BY <1>12 DEF Boot, Still, data
  <2> HIDE DEF c
  <2>2. /\ d \in RouterRecord /\ d.phase = "boot" /\ d.mem = c.cache[1] /\ d.ver = c.cache[2]
        /\ d.cache = c.cache /\ d.msg = c.msg /\ d.prev = c.prev
    BY <1>0 DEF RouterRecord, Phases
  <2> HIDE DEF d
  <2>3. /\ router' \in [Routers -> RouterRecord]
        /\ Turns(r, "boot", c.cache[1], c.cache[2], c.cache, c.msg, c.prev)
    BY <2>1, <2>2, BecomesTurns
  <2> QED
    BY <2>1, <2>3 DEF Boots, c, Still
<1>13. ASSUME FirstSync(r)
       PROVE  Syncs(r) /\ router' \in [Routers -> RouterRecord] /\ UNCHANGED api /\ rare' = rare
  <2> DEFINE w == WithState(c, db, NoVersions)
             d == [w EXCEPT !.phase = "synced"]
  <2>1. c.phase = "boot" /\ Still /\ UNCHANGED api /\ router' = [router EXCEPT ![r] = d]
    BY <1>13 DEF FirstSync, Still, data
  <2>2. /\ w \in RouterRecord /\ w.mem = db /\ w.ver = NoVersions
        /\ w.cache = <<db, NoVersions>> /\ w.msg = c.msg /\ w.prev = c.prev
    <3> HIDE DEF c
    <3> QED
      BY <1>0, ConstantTypes, WithStateFields
  <2> HIDE DEF w, c
  <2>3. /\ d \in RouterRecord /\ d.phase = "synced" /\ d.mem = db /\ d.ver = NoVersions
        /\ d.cache = <<db, NoVersions>> /\ d.msg = c.msg /\ d.prev = c.prev
    BY <2>2 DEF RouterRecord, Phases
  <2> HIDE DEF d
  <2>4. /\ router' \in [Routers -> RouterRecord]
        /\ Turns(r, "synced", db, NoVersions, <<db, NoVersions>>, c.msg, c.prev)
    BY <2>1, <2>3, BecomesTurns
  <2> QED
    BY <2>1, <2>4 DEF Syncs, c, Still
<1>14. ASSUME ReadAllFails(r) \/ FirstSyncFails(r) \/ Subscribe(r)
       PROVE  /\ GoesOn(r) /\ router' \in [Routers -> RouterRecord]
              /\ UNCHANGED api /\ rare \subseteq rare'
  <2>1. PICK d \in RouterRecord :
          /\ router' = [router EXCEPT ![r] = d]
          /\ d.phase = IF c.phase = "boot" THEN "synced" ELSE "loop"
          /\ d.mem = c.mem /\ d.ver = c.ver /\ d.cache = c.cache /\ d.msg = c.msg /\ d.prev = c.prev
    <3>1. CASE ReadAllFails(r)
      <4>1. router' = [router EXCEPT ![r] = [c EXCEPT !.pending = FALSE]] /\ c.phase = "loop"
        BY <3>1 DEF ReadAllFails
      <4> HIDE DEF c
      <4>2. [c EXCEPT !.pending = FALSE] \in RouterRecord
        BY <1>0 DEF RouterRecord
      <4> QED
        BY <1>0, <4>1, <4>2 DEF RouterRecord
    <3>2. CASE FirstSyncFails(r)
      <4>1. router' = [router EXCEPT ![r] = [c EXCEPT !.phase = "synced"]] /\ c.phase = "boot"
        BY <3>2 DEF FirstSyncFails
      <4> HIDE DEF c
      <4>2. [c EXCEPT !.phase = "synced"] \in RouterRecord
        BY <1>0 DEF RouterRecord, Phases
      <4> QED
        BY <1>0, <4>1, <4>2 DEF RouterRecord
    <3>3. CASE Subscribe(r)
      <4>1. router' = [router EXCEPT ![r] = [c EXCEPT !.phase = "loop"]] /\ c.phase = "synced"
        BY <3>3 DEF Subscribe
      <4> HIDE DEF c
      <4>2. [c EXCEPT !.phase = "loop"] \in RouterRecord
        BY <1>0 DEF RouterRecord, Phases
      <4> QED
        BY <1>0, <4>1, <4>2 DEF RouterRecord
    <3> QED
      BY <1>14, <3>1, <3>2, <3>3
  <2>2. /\ router' \in [Routers -> RouterRecord]
        /\ Turns(r, d.phase, d.mem, d.ver, d.cache, d.msg, d.prev)
    BY <2>1, BecomesTurns
  <2>3. /\ c.phase \in {"loop", "boot", "synced"} /\ UNCHANGED <<inbox, db, stored>>
        /\ rare \subseteq rare' /\ (c.phase = "boot" => "read" \in rare') /\ UNCHANGED api
    BY <1>14 DEF ReadAllFails, FirstSyncFails, Subscribe, Rare, data
  <2> QED
    BY <2>1, <2>2, <2>3 DEF GoesOn
<1> QED
  BY <1>0, <1>1, <1>2, <1>6, <1>7, <1>8, <1>9, <1>10, <1>11, <1>12, <1>13, <1>14 DEF Loop,
     Startup, UpdateRouteTargets, AddCertificate, ChangeToken, RouterStep


(* What a step does to the order it is of; the other orders stay as they are. *)
Goes(o, phase, at, adds, undone) ==
  /\ \A p \in Orders : p # o => order'[p] = order[p]
  /\ order'[o].phase = phase /\ order'[o].at = at /\ order'[o].adds = adds
  /\ order'[o].undone = undone
OrdersTyped == order \in [Orders -> OrderRecord] /\ \A o \in Orders : OrderOk(order[o])

(* The orders have their type. *)
LEMMA OrderTypes ==
  ASSUME Types
  PROVE  /\ OrdersTyped /\ 0 \in 0 .. MaxAdd
         /\ \A o \in Orders :
              /\ order[o] \in OrderRecord /\ order[o].at \in Nat /\ order[o].adds \in 0 .. MaxAdd
              /\ order[o].undone \in SUBSET {"cleanup", "send"} /\ order[o].ready \in BOOLEAN
BY RouterAssumption DEF Types, TypeOK, OrdersTyped, OrderRecord

(* The record an order becomes. *)
LEMMA OrderBecomes ==
  ASSUME Types, NEW o \in Orders, NEW d, OrderOk(d), order' = [order EXCEPT ![o] = d]
  PROVE  OrdersTyped' /\ Goes(o, d.phase, d.at, d.adds, d.undone)
<1>1. order \in [Orders -> OrderRecord] /\ \A p \in Orders : OrderOk(order[p])
  BY OrderTypes DEF OrdersTyped
<1>2. \A p \in Orders : order'[p] = IF p = o THEN d ELSE order[p]
  BY <1>1
<1>3. order' \in [Orders -> OrderRecord]
  BY <1>1 DEF OrderOk
<1> QED
  BY <1>1, <1>2, <1>3 DEF OrdersTyped, Goes

(* Another phase leaves the rest of an order alone. *)
LEMMA TurnFields ==
  ASSUME NEW c \in OrderRecord, NEW phase \in OrderPhases, c.adds = 0 \/ phase \in {"add", "validate"},
         phase = "add" => c.adds < MaxAdd
  PROVE  LET d == [c EXCEPT !.phase = phase] IN
         /\ OrderOk(d) /\ d.phase = phase /\ d.at = c.at /\ d.adds = c.adds /\ d.undone = c.undone
BY DEF OrderRecord, OrderOk

(* What is left of an order that has cleaned up or failed. *)
LEMMA PastFields ==
  ASSUME NEW c \in OrderRecord, NEW phase \in {"record", "done"},
         NEW left \in SUBSET {"cleanup", "send"}
  PROVE  LET d == Past(c, phase, left) IN
         /\ OrderOk(d) /\ d.phase = phase /\ d.at = 0 /\ d.adds = 0 /\ d.undone = c.undone \cup left
<1>1. 0 \in 0 .. MaxAdd
  BY RouterAssumption
<1>2. c.undone \in SUBSET {"cleanup", "send"}
  BY DEF OrderRecord
<1>3. c.undone \cup left \in SUBSET {"cleanup", "send"}
  BY <1>2
<1> QED
  BY <1>1, <1>3 DEF OrderRecord, OrderOk, Past, OrderPhases

(* The steps of an order. *)
LEMMA OrderSteps ==
  ASSUME Types, NEW o \in Orders
  PROVE  /\ NewOrder(o) \/ NewOrderBeside(o) =>
              OrdersTyped' /\ Goes(o, "add", clock', 0, order[o].undone) /\ order[o].phase = "new"
         /\ PublishChallenge(o) =>
              OrdersTyped' /\ Goes(o, "look", order[o].at, order[o].adds + 1, order[o].undone)
         /\ \A r \in Routers : Look(r, o) =>
              /\ OrdersTyped'
              /\ \/ \E phase \in {"validate", "add"} :
                      Goes(o, phase, order[o].at, order[o].adds, order[o].undone)
                 \/ Goes(o, "done", 0, 0, order[o].undone \cup {"cleanup"})
         /\ (\E r \in Routers : Validate(r, o)) \/ ValidBefore(o) =>
              OrdersTyped' /\ Goes(o, "cleanup", order[o].at, order[o].adds, order[o].undone)
         /\ Cleanup(o) =>
              /\ OrdersTyped'
              /\ \E phase \in {"record", "done"} :
                   Goes(o, phase, 0, 0,
                        order[o].undone \cup (IF order[o].at = clock THEN {"cleanup"} ELSE {}))
         /\ CleanupFails(o) =>
              /\ OrdersTyped'
              /\ \E phase \in {"record", "done"} :
                   Goes(o, phase, 0, 0, order[o].undone \cup {"cleanup"})
         /\ Record(o) => OrdersTyped' /\ Goes(o, "send", order[o].at, 0, order[o].undone)
         /\ SendCertificate(o) =>
              OrdersTyped' /\ Goes(o, "done", order[o].at, 0, order[o].undone)
         /\ OrderFails(o) =>
              OrdersTyped' /\ Goes(o, "done", 0, 0, order[o].undone \cup Left(order[o]))
<1> DEFINE c == order[o]
<1>0. /\ c \in OrderRecord /\ OrderOk(c) /\ c.at \in Nat /\ c.adds \in 0 .. MaxAdd
      /\ c.undone \in SUBSET {"cleanup", "send"} /\ 0 \in 0 .. MaxAdd
      /\ order \in [Orders -> OrderRecord] /\ clock \in Nat /\ MaxAdd \in Nat \ {0}
  BY OrderTypes, RouterTypes, RouterAssumption DEF OrdersTyped, Types
<1>1. ASSUME NewOrder(o) \/ NewOrderBeside(o)
      PROVE  OrdersTyped' /\ Goes(o, "add", clock', 0, c.undone) /\ c.phase = "new"
  <2>1. PICK second \in Nat : Start(o, second)
    BY <1>0, <1>1 DEF NewOrder, NewOrderBeside
  <2> DEFINE d == [c EXCEPT !.phase = "add", !.at = second]
  <2>2. order' = [order EXCEPT ![o] = d] /\ clock' = second /\ c.phase = "new"
    BY <1>0, <2>1 DEF Start
  <2>3. c.adds = 0
    BY <1>0, <2>2 DEF OrderOk
  <2> HIDE DEF c
  <2>4. OrderOk(d) /\ d.phase = "add" /\ d.at = second /\ d.adds = 0 /\ d.undone = c.undone
    <3> DEFINE e == [c EXCEPT !.phase = "add"]
    <3>1. OrderOk(e) /\ e.phase = "add" /\ e.adds = 0 /\ e.undone = c.undone
      <4>1. "add" \in OrderPhases /\ c.adds < MaxAdd
        BY <1>0, <2>3 DEF OrderPhases
      <4> QED
        BY <1>0, <2>3, <4>1, TurnFields
    <3> HIDE DEF e
    <3>2. d = [e EXCEPT !.at = second]
      <4>1. d = [[c EXCEPT !.phase = "add"] EXCEPT !.at = second]
        BY Zenon
      <4> QED
        BY <4>1, Zenon DEF e
    <3> HIDE DEF d
    <3>3. e \in OrderRecord
      BY <3>1 DEF OrderOk
    <3>4. /\ d \in OrderRecord /\ d.phase = e.phase /\ d.at = second /\ d.adds = e.adds
          /\ d.undone = e.undone
      BY <3>2, <3>3 DEF OrderRecord
    <3>5. 0 < MaxAdd
      BY <1>0
    <3> QED
      BY <3>1, <3>4, <3>5 DEF OrderOk
  <2> HIDE DEF d
  <2> QED
    BY <2>2, <2>4, OrderBecomes
<1>2. ASSUME PublishChallenge(o)
      PROVE  OrdersTyped' /\ Goes(o, "look", c.at, c.adds + 1, c.undone)
  <2> DEFINE d == [c EXCEPT !.phase = "look", !.adds = @ + 1]
  <2>1. order' = [order EXCEPT ![o] = d] /\ c.phase = "add"
    BY <1>0, <1>2 DEF PublishChallenge
  <2>2. c.adds + 1 \in 0 .. MaxAdd
    BY <1>0, <2>1 DEF OrderOk
  <2> HIDE DEF c
  <2>3. OrderOk(d) /\ d.phase = "look" /\ d.at = c.at /\ d.adds = c.adds + 1 /\ d.undone = c.undone
    BY <1>0, <2>2 DEF OrderOk, OrderRecord, OrderPhases
  <2> HIDE DEF d
  <2> QED
    BY <2>1, <2>3, OrderBecomes
<1>3. ASSUME NEW phase \in OrderPhases, Turn(o, phase), phase = "add" => c.adds < MaxAdd,
             c.adds = 0 \/ phase \in {"add", "validate"}
      PROVE  OrdersTyped' /\ Goes(o, phase, c.at, c.adds, c.undone)
  <2> DEFINE d == [c EXCEPT !.phase = phase]
  <2>1. order' = [order EXCEPT ![o] = d]
    BY <1>0, <1>3 DEF Turn
  <2> HIDE DEF c
  <2>2. OrderOk(d) /\ d.phase = phase /\ d.at = c.at /\ d.adds = c.adds /\ d.undone = c.undone
    BY <1>0, <1>3, TurnFields
  <2> HIDE DEF d
  <2> QED
    BY <2>1, <2>2, OrderBecomes
<1>4. ASSUME NEW phase \in {"record", "done"}, NEW left \in SUBSET {"cleanup", "send"},
             order' = [order EXCEPT ![o] = Past(c, phase, left)]
      PROVE  OrdersTyped' /\ Goes(o, phase, 0, 0, c.undone \cup left)
  <2> DEFINE d == Past(c, phase, left)
  <2>1. order' = [order EXCEPT ![o] = d]
    BY <1>4
  <2>2. OrderOk(d) /\ d.phase = phase /\ d.at = 0 /\ d.adds = 0 /\ d.undone = c.undone \cup left
    BY <1>0, PastFields
  <2> HIDE DEF d
  <2>3. OrdersTyped' /\ Goes(o, d.phase, d.at, d.adds, d.undone)
    BY <2>1, <2>2, OrderBecomes
  <2> QED
    BY <2>2, <2>3
<1>5. ASSUME NEW r \in Routers, Look(r, o)
      PROVE  /\ OrdersTyped'
             /\ \/ \E phase \in {"validate", "add"} : Goes(o, phase, c.at, c.adds, c.undone)
                \/ Goes(o, "done", 0, 0, c.undone \cup {"cleanup"})
  <2>1. CASE Turn(o, "validate")
    BY <1>3, <2>1 DEF OrderPhases
  <2>2. CASE Turn(o, "add") /\ c.adds < MaxAdd
    BY <1>3, <2>2 DEF OrderPhases
  <2>3. CASE order' = [order EXCEPT ![o] = Fails(c)] /\ c.adds = MaxAdd /\ c.phase = "look"
    <3>1. Fails(c) = Past(c, "done", {"cleanup"})
      BY <1>0, <2>3 DEF Fails, Left
    <3> QED
      BY <1>4, <2>3, <3>1
  <2> QED
    BY <1>5, <2>1, <2>2, <2>3 DEF Look
<1>6. ASSUME (\E r \in Routers : Validate(r, o)) \/ ValidBefore(o)
      PROVE  OrdersTyped' /\ Goes(o, "cleanup", c.at, c.adds, c.undone)
  <2>1. PICK b \in BOOLEAN : order' = [order EXCEPT ![o].phase = "cleanup", ![o].ready = b]
    BY <1>6 DEF Validate, ValidBefore, Serves
  <2> DEFINE d == [c EXCEPT !.phase = "cleanup", !.ready = b]
  <2>2. order' = [order EXCEPT ![o] = d]
    BY <1>0, <2>1
  <2> HIDE DEF c
  <2>3. OrderOk(d) /\ d.phase = "cleanup" /\ d.at = c.at /\ d.adds = c.adds /\ d.undone = c.undone
    BY <1>0 DEF OrderOk, OrderRecord, OrderPhases
  <2> HIDE DEF d
  <2> QED
    BY <2>2, <2>3, OrderBecomes
<1>7. ASSUME NEW left \in SUBSET {"cleanup", "send"}, order' = [order EXCEPT ![o] = Cleaned(c, left)]
      PROVE  OrdersTyped' /\ \E phase \in {"record", "done"} : Goes(o, phase, 0, 0, c.undone \cup left)
  <2>1. PICK phase \in {"record", "done"} : Cleaned(c, left) = Past(c, phase, left)
    BY DEF Cleaned
  <2> QED
    BY <1>4, <1>7, <2>1
<1>8. ASSUME Cleanup(o)
      PROVE  /\ OrdersTyped'
             /\ \E phase \in {"record", "done"} :
                  Goes(o, phase, 0, 0, c.undone \cup (IF c.at = clock THEN {"cleanup"} ELSE {}))
  <2> DEFINE left == IF c.at = clock THEN {"cleanup"} ELSE {}
  <2>1. order' = [order EXCEPT ![o] = Cleaned(c, left)]
    BY <1>8 DEF Cleanup
  <2>2. left \in SUBSET {"cleanup", "send"}
    OBVIOUS
  <2>3. left = IF c.at = clock THEN {"cleanup"} ELSE {}
    OBVIOUS
  <2> HIDE DEF left
  <2>4. OrdersTyped' /\ \E phase \in {"record", "done"} : Goes(o, phase, 0, 0, c.undone \cup left)
    BY <1>7, <2>1, <2>2
  <2> QED
    BY <2>3, <2>4
<1>9. ASSUME CleanupFails(o)
      PROVE  /\ OrdersTyped'
             /\ \E phase \in {"record", "done"} : Goes(o, phase, 0, 0, c.undone \cup {"cleanup"})
  <2>1. order' = [order EXCEPT ![o] = Cleaned(c, {"cleanup"})]
    BY <1>9 DEF CleanupFails
  <2> QED
    BY <1>7, <2>1
<1>10. ASSUME Record(o) PROVE OrdersTyped' /\ Goes(o, "send", c.at, 0, c.undone)
  <2>1. Turn(o, "send") /\ c.adds = 0
    BY <1>0, <1>10 DEF Record, OrderOk
  <2> QED
    BY <1>3, <2>1 DEF OrderPhases
<1>11. ASSUME SendCertificate(o) PROVE OrdersTyped' /\ Goes(o, "done", c.at, 0, c.undone)
  <2>1. Turn(o, "done") /\ c.adds = 0
    BY <1>0, <1>11 DEF SendCertificate, OrderOk
  <2> QED
    BY <1>3, <2>1 DEF OrderPhases
<1>12. ASSUME OrderFails(o) PROVE OrdersTyped' /\ Goes(o, "done", 0, 0, c.undone \cup Left(c))
  <2>1. order' = [order EXCEPT ![o] = Past(c, "done", Left(c))]
    BY <1>12 DEF OrderFails, Fails
  <2>2. Left(c) \in SUBSET {"cleanup", "send"}
    BY DEF Left
  <2> QED
    BY <1>4, <2>1, <2>2
<1> QED
  BY <1>1, <1>2, <1>5, <1>6, <1>8, <1>9, <1>10, <1>11, <1>12

(* A crash of the API ends the orders that are under way. *)
LEMMA CrashSteps ==
  ASSUME Types, ApiCrash
  PROVE  /\ OrdersTyped'
         /\ \A o \in Orders :
              IF UnderWay(o)
              THEN /\ order'[o].phase = "done" /\ order'[o].at = 0 /\ order'[o].adds = 0
                   /\ order'[o].undone = order[o].undone \cup Left(order[o])
              ELSE order'[o] = order[o]
<1>1. order' = [o \in Orders |-> IF UnderWay(o) THEN Fails(order[o]) ELSE order[o]]
  BY DEF ApiCrash
<1>2. ASSUME NEW o \in Orders
      PROVE  /\ OrderOk(order'[o])
             /\ IF UnderWay(o)
                THEN /\ order'[o].phase = "done" /\ order'[o].at = 0 /\ order'[o].adds = 0
                     /\ order'[o].undone = order[o].undone \cup Left(order[o])
                ELSE order'[o] = order[o]
  <2>1. CASE UnderWay(o)
    <3>1. order'[o] = Past(order[o], "done", Left(order[o]))
      BY <1>1, <2>1 DEF Fails
    <3>2. Left(order[o]) \in SUBSET {"cleanup", "send"} /\ order[o] \in OrderRecord
      BY OrderTypes DEF Left
    <3> QED
      BY <2>1, <3>1, <3>2, PastFields
  <2>2. CASE ~UnderWay(o)
    BY <1>1, <2>2, OrderTypes DEF OrdersTyped
  <2> QED
    BY <2>1, <2>2
<1>3. order' \in [Orders -> OrderRecord]
  <2>1. \A o \in Orders : order'[o] \in OrderRecord
    BY <1>2 DEF OrderOk
  <2> QED
    BY <1>1, <2>1
<1> QED
  BY <1>2, <1>3 DEF OrdersTyped

(* What the API announces to the routers, and what it keeps to itself. *)
LEMMA Announced ==
  ASSUME NEW m, Broadcast(m), Missed, UNCHANGED <<data, router>>
  PROVE  Announces(m)
BY DEF Announces, Missed, Note, data

CertMessage(o) == [item |-> "cert", val |-> o, at |-> clock]

(* The steps of an order announce its challenge or its certificate, or nothing. *)
LEMMA OrderMessages ==
  ASSUME Types, NEW o \in Orders
  PROVE  /\ NewOrder(o) \/ NewOrderBeside(o) \/ (\E r \in Routers : Look(r, o) \/ Validate(r, o))
              \/ ValidBefore(o) \/ CleanupFails(o) \/ Record(o) \/ OrderFails(o) =>
              Silent /\ clock' \in {clock, clock + 1}
         /\ PublishChallenge(o) =>
              Announces(Token(o, o, order[o].at)) /\ Token(o, o, order[o].at) \in Message
         /\ Cleanup(o) => Announces(Token(o, None, clock)) /\ Token(o, None, clock) \in Message
         /\ SendCertificate(o) => Announces(CertMessage(o)) /\ CertMessage(o) \in Message
         /\ PublishChallenge(o) \/ Cleanup(o) \/ SendCertificate(o) => clock' = clock
         /\ Certify(o) => /\ UNCHANGED <<made, outbox>>
                          /\ recorded' = recorded \/ (Record(o) /\ recorded' = o)
<1>0. /\ clock \in Nat /\ order[o].at \in Nat /\ o \in Items /\ o \in Values /\ None \in Values
      /\ "cert" \in Items
  BY RouterTypes, OrderTypes, ConstantTypes DEF Types
<1>1. ASSUME NewOrder(o) \/ NewOrderBeside(o) PROVE Silent /\ clock' \in {clock, clock + 1}
  BY <1>1 DEF NewOrder, NewOrderBeside, Start, Silent, Rare, data
<1>2. ASSUME (\E r \in Routers : Look(r, o) \/ Validate(r, o)) \/ ValidBefore(o)
      PROVE  Silent /\ clock' \in {clock, clock + 1}
  BY <1>2 DEF Look, Validate, ValidBefore, Silent, data
<1>3. ASSUME CleanupFails(o) \/ Record(o) \/ OrderFails(o)
      PROVE  Silent /\ clock' \in {clock, clock + 1}
  BY <1>3 DEF CleanupFails, Record, OrderFails, Silent, Rare, data, network
<1>4. ASSUME PublishChallenge(o)
      PROVE  Announces(Token(o, o, order[o].at)) /\ Token(o, o, order[o].at) \in Message
  <2>1. Token(o, o, order[o].at) \in Message
    BY <1>0 DEF Token, Message
  <2> QED
    BY <1>4, <2>1, Announced DEF PublishChallenge
<1>5. ASSUME Cleanup(o) PROVE Announces(Token(o, None, clock)) /\ Token(o, None, clock) \in Message
  <2>1. Token(o, None, clock) \in Message
    BY <1>0 DEF Token, Message
  <2> QED
    BY <1>5, <2>1, Announced DEF Cleanup
<1>6. ASSUME SendCertificate(o) PROVE Announces(CertMessage(o)) /\ CertMessage(o) \in Message
  <2>1. CertMessage(o) \in Message
    BY <1>0 DEF CertMessage, Message
  <2> QED
    BY <1>6, <2>1, Announced DEF SendCertificate, CertMessage
<1>7. PublishChallenge(o) \/ Cleanup(o) \/ SendCertificate(o) => clock' = clock
  BY DEF PublishChallenge, Cleanup, SendCertificate
<1>8. ASSUME Certify(o)
      PROVE  UNCHANGED <<made, outbox>> /\ (recorded' = recorded \/ (Record(o) /\ recorded' = o))
  BY <1>8 DEF Certify, NewOrder, NewOrderBeside, Start, PublishChallenge, Look, Validate,
     ValidBefore, Cleanup, CleanupFails, Record, SendCertificate, OrderFails, network
<1> QED
  BY <1>1, <1>2, <1>3, <1>4, <1>5, <1>6, <1>7, <1>8

(* Whatever a step of an order is, it announces something of this order at most. *)
LEMMA CertifySteps ==
  ASSUME Types, NEW o \in Orders, Certify(o)
  PROVE  /\ OrdersTyped' /\ UNCHANGED <<made, outbox>> /\ clock' \in {clock, clock + 1}
         /\ \A p \in Orders : p # o => order'[p] = order[p]
         /\ order'[o].at \in {order[o].at, clock', 0} /\ recorded' \in {recorded, o}
         /\ \/ Silent
            \/ \E m \in Message :
                 /\ Announces(m) /\ m.item \in {o, "cert"} /\ m.at \in {order[o].at, clock}
                 /\ clock' = clock
<1>1. CASE NewOrder(o) \/ NewOrderBeside(o)
  BY <1>1, OrderSteps, OrderMessages DEF Goes
<1>2. CASE (\E r \in Routers : Look(r, o) \/ Validate(r, o)) \/ ValidBefore(o)
  BY <1>2, OrderSteps, OrderMessages DEF Goes
<1>3. CASE CleanupFails(o) \/ Record(o) \/ OrderFails(o)
  BY <1>3, OrderSteps, OrderMessages DEF Goes
<1>4. CASE PublishChallenge(o)
  BY <1>4, OrderSteps, OrderMessages DEF Goes, Token
<1>5. CASE Cleanup(o)
  BY <1>5, OrderSteps, OrderMessages DEF Goes, Token
<1>6. CASE SendCertificate(o)
  BY <1>6, OrderSteps, OrderMessages DEF Goes, CertMessage
<1> QED
  BY <1>1, <1>2, <1>3, <1>4, <1>5, <1>6 DEF Certify

(* The other steps of the API. *)
LEMMA ApiSteps ==
  ASSUME Types
  PROVE  /\ \A second \in {clock, clock + 1} : NotifyRouter(second) =>
              Silent /\ clock' \in {clock, clock + 1}
         /\ \A m \in outbox : Publish(m) => Announces(m) /\ m \in Message /\ m.item = "route"
         /\ ApiCrash => Silent /\ clock' = clock /\ "api crash" \in rare'
<1>1. \A second \in {clock, clock + 1} : NotifyRouter(second) =>
        Silent /\ clock' \in {clock, clock + 1}
  BY DEF NotifyRouter, Silent, Note, data
<1>2. \A m \in outbox : Publish(m) => Announces(m) /\ m \in Message /\ m.item = "route"
  BY Announced, ConstantTypes DEF Publish, Types, TypeOK, Message
<1>3. ApiCrash => Silent /\ clock' = clock /\ "api crash" \in rare'
  BY DEF ApiCrash, Silent, Rare, data
<1> QED
  BY <1>1, <1>2, <1>3

(*--------------------------------- Types ---------------------------------*)
RouteOk(m) == m.item = "route" => m.val \in Routes

(* Only failures that have a name are noted. *)
LEMMA RareTyped == TypeOK /\ [Next]_vars => rare' \subseteq RareEvents
BY DEF TypeOK, Next, vars, Loop, Startup, Certify, Done, NotifyRouter, Publish, Crash, ApiCrash,
   Ignore, UpdateRouteTargets, AddCertificate, ChangeToken, Apply, StoreRoute, StoreCertificate,
   StoreChallenge, RouteNotStored, CertificateNotStored, ChallengeNotStored, ReadAll,
   ReadAllFails, UpdateState, Boot, FirstSync, FirstSyncFails, Subscribe, NewOrder,
   NewOrderBeside, Start, PublishChallenge, Look, Validate, ValidBefore, Cleanup, CleanupFails,
   Record, SendCertificate, OrderFails, Missed, Note, Rare, RareEvents, Failures

(* The steps of a router keep the types, and so do messages. *)
LEMMA RouterTypesKept ==
  ASSUME Types, NEW r \in Routers, router' \in [Routers -> RouterRecord], RouterStep(r),
         UNCHANGED api, rare' \subseteq RareEvents
  PROVE  Types'
<1>1. /\ router[r] \in RouterRecord /\ router[r].msg \in Message
      /\ inbox \in [Routers -> Seq(Message)]
      /\ db \in [Items -> Values] /\ stored \subseteq Routes
  BY RouterTypes DEF Types, RouterRecord
<1>2. CASE Ignores(r) \/ Applies(r)
  <2>1. Takes(r) /\ inbox' \in [Routers -> Seq(Message)]
    BY <1>2, TakenMessages DEF Types, Ignores, Applies
  <2>2. db' = db /\ stored' = stored
    BY <2>1 DEF Takes
  <2>5. \A s \in Routers : \A i \in DOMAIN inbox[s] : RouteOk(inbox[s][i])
    BY DEF Types, RouteValues, RouteOk
  <2>6. /\ 1 \in DOMAIN inbox[r]
        /\ \A s \in Routers : s # r => inbox'[s] = inbox[s]
        /\ \A i \in DOMAIN inbox'[r] :
             i + 1 \in DOMAIN inbox[r] /\ inbox'[r][i] = inbox[r][i + 1]
    BY <2>1, TakenMessages DEF Types
  <2>3. /\ \A s \in Routers : \A i \in DOMAIN inbox'[s] : RouteOk(inbox'[s][i])
        /\ RouteOk(inbox[r][1])
    BY <2>5, <2>6
  <2>4. \A s \in Routers : RouteOk(router'[s].msg)
    BY <1>2, <2>3 DEF Ignores, Applies, Turns, Types, RouteValues, RouteOk
  <2> QED
    BY <2>1, <2>2, <2>3, <2>4 DEF Types, TypeOK, RouterRecord, Message, api, RouteValues, RouteOk
<1>3. ASSUME inbox' \in [Routers -> Seq(Message)],
             \A s \in Routers : inbox'[s] = inbox[s] \/ inbox'[s] = <<>>,
             db' \in [Items -> Values], stored' \subseteq Routes,
             \A s \in Routers : router'[s].msg = router[s].msg \/ router'[s].msg = NoMessage
      PROVE  Types'
  <2>1. 0 \in Routes /\ DOMAIN <<>> = {}
    BY RouterAssumption DEF Routes
  <2>2. ASSUME NEW s \in Routers
        PROVE  /\ \A i \in DOMAIN inbox'[s] :
                    inbox'[s][i].item = "route" => inbox'[s][i].val \in Routes
               /\ router'[s].msg.item = "route" => router'[s].msg.val \in Routes
    <3>1. \A i \in DOMAIN inbox'[s] : inbox'[s][i].item = "route" => inbox'[s][i].val \in Routes
      BY <1>3, <2>1 DEF Types, RouteValues
    <3>2. router'[s].msg.item = "route" => router'[s].msg.val \in Routes
      BY <1>3, <2>1 DEF Types, RouteValues, NoMessage
    <3> QED
      BY <3>1, <3>2
  <2> QED
    BY <1>3, <2>2 DEF Types, TypeOK, RouterRecord, Message, api, RouteValues
<1>4. CASE Stores(r)
  <2>1. inbox' = inbox /\ db' \in [Items -> Values] /\ stored' \subseteq Routes
    BY <1>1, <1>4 DEF Stores, WriteEnds, Message, Types, RouteValues
  <2>2. \A s \in Routers : router'[s].msg = router[s].msg \/ router'[s].msg = NoMessage
    BY <1>4 DEF Stores, Turns
  <2> QED
    BY <1>1, <1>3, <2>1, <2>2
<1>5. CASE Stops(r)
  <2>1. inbox' \in [Routers -> Seq(Message)] /\ db' = db /\ stored' = stored
        /\ \A s \in Routers : inbox'[s] = inbox[s] \/ inbox'[s] = <<>>
    BY <1>1, <1>5, EmptySeq DEF Stops, data
  <2>2. \A s \in Routers : router'[s].msg = router[s].msg \/ router'[s].msg = NoMessage
    BY <1>5 DEF Stops, Turns
  <2> QED
    BY <1>1, <1>3, <2>1, <2>2
<1>6. CASE PutsBack(r) \/ Keeps(r) \/ Reads(r) \/ Loads(r) \/ Boots(r) \/ Syncs(r) \/ GoesOn(r)
  <2>1. inbox' = inbox /\ db' = db /\ stored' = stored
    BY <1>6 DEF PutsBack, Keeps, Reads, Loads, Boots, Syncs, GoesOn, WriteEnds, Still, data
  <2>2. \A s \in Routers : router'[s].msg = router[s].msg \/ router'[s].msg = NoMessage
    BY <1>6 DEF PutsBack, Keeps, Reads, Loads, Boots, Syncs, GoesOn, Turns
  <2> QED
    BY <1>1, <1>3, <2>1, <2>2
<1> QED
  BY <1>2, <1>4, <1>5, <1>6 DEF RouterStep

(* A message that is announced reaches inboxes as it is. *)
LEMMA AnnouncedTypes ==
  ASSUME Types, NEW m \in Message, RouteOk(m), Announces(m)
  PROVE  inbox' \in [Routers -> Seq(Message)] /\ RouteValues'
<1>1. inbox' \in [Routers -> Seq(Message)]
  BY BroadcastMessages DEF Types, Announces
<1>2. \A r \in Routers : \A i \in DOMAIN inbox'[r] :
        inbox'[r][i] = m \/ (i \in DOMAIN inbox[r] /\ inbox'[r][i] = inbox[r][i])
  BY BroadcastMessages DEF Types, Announces
<1> QED
  BY <1>1, <1>2 DEF Types, RouteValues, RouteOk, Announces

(* Every step keeps the types. *)
LEMMA TypesKept == Types /\ [Next]_vars => Types'
<1> SUFFICES ASSUME Types, [Next]_vars PROVE Types'
  OBVIOUS
<1>0. /\ rare' \subseteq RareEvents /\ clock \in Nat /\ clock + 1 \in Nat
      /\ OrdersTyped /\ made \in 0 .. MaxRoute
      /\ outbox \subseteq [item : {"route"}, val : Routes, at : Nat]
      /\ recorded \in Orders \cup {None}
  <2>1. rare' \subseteq RareEvents
    BY RareTyped DEF Types
  <2>2. /\ clock \in Nat /\ made \in 0 .. MaxRoute /\ recorded \in Orders \cup {None}
        /\ outbox \subseteq [item : {"route"}, val : Routes, at : Nat]
    BY DEF Types, TypeOK
  <2> QED
    BY <2>1, <2>2, OrderTypes
<1>1. ASSUME NEW r \in Routers, Loop(r) \/ Startup(r) \/ Crash(r) PROVE Types'
  BY <1>0, <1>1, RouterSteps, RouterTypesKept DEF Types
<1>2. ASSUME Silent, made' \in 0 .. MaxRoute, clock' \in Nat, recorded' \in Orders \cup {None},
             outbox' \subseteq [item : {"route"}, val : Routes, at : Nat], OrdersTyped'
      PROVE  Types'
  <2>1. TypeOK'
    BY <1>0, <1>2 DEF Silent, Types, TypeOK, OrdersTyped, OrderRecord
  <2>2. RouteValues'
    BY <1>2 DEF Silent, Types, RouteValues
  <2> QED
    BY <1>2, <2>1, <2>2 DEF Types, OrdersTyped
<1>3. ASSUME NEW m \in Message, RouteOk(m), Announces(m), made' = made, clock' \in Nat,
             recorded' \in Orders \cup {None}, outbox' \subseteq outbox, OrdersTyped'
      PROVE  Types'
  <2>1. inbox' \in [Routers -> Seq(Message)] /\ RouteValues'
    BY <1>3, AnnouncedTypes
  <2>2. TypeOK'
    BY <1>0, <1>3, <2>1 DEF Announces, Types, TypeOK, Message, OrdersTyped, OrderRecord
  <2> QED
    BY <1>3, <2>1, <2>2 DEF Types, OrdersTyped
<1>4. ASSUME NEW second \in {clock, clock + 1}, NotifyRouter(second) PROVE Types'
  <2>1. Silent
    BY <1>4, ApiSteps
  <2>2. /\ made + 1 \in Routes /\ made + 1 \in 0 .. MaxRoute /\ second \in Nat
    <3>1. made < MaxRoute /\ MaxRoute \in Nat
      BY <1>4, RouterAssumption DEF NotifyRouter
    <3> QED
      BY <1>0, <3>1 DEF Routes
  <2>3. outbox' \subseteq [item : {"route"}, val : Routes, at : Nat]
    <3>1. outbox' = outbox \cup {[item |-> "route", val |-> made + 1, at |-> second]}
      BY <1>4 DEF NotifyRouter
    <3> QED
      BY <1>0, <2>2, <3>1
  <2>4. OrdersTyped' /\ recorded' = recorded /\ made' = made + 1 /\ clock' = second
    BY <1>0, <1>4 DEF NotifyRouter, OrdersTyped
  <2> QED
    BY <1>0, <1>2, <2>1, <2>2, <2>3, <2>4
<1>5. ASSUME NEW m \in outbox, Publish(m) PROVE Types'
  <2>1. Announces(m) /\ m \in Message /\ RouteOk(m)
    BY <1>0, <1>5, ApiSteps DEF RouteOk
  <2>2. UNCHANGED <<clock, made, recorded>> /\ OrdersTyped' /\ outbox' \subseteq outbox
    BY <1>0, <1>5 DEF Publish, OrdersTyped
  <2> QED
    BY <1>0, <1>3, <2>1, <2>2
<1>6. ASSUME NEW o \in Orders, Certify(o) PROVE Types'
  <2>1. OrdersTyped' /\ made' = made /\ outbox' = outbox /\ clock' \in Nat
        /\ recorded' \in Orders \cup {None}
    BY <1>0, <1>6, CertifySteps
  <2>2. CASE Silent
    BY <1>0, <1>2, <2>1, <2>2
  <2>3. CASE ~Silent
    <3>1. PICK m \in Message : Announces(m) /\ m.item \in {o, "cert"}
      BY <1>6, <2>3, CertifySteps
    <3>2. RouteOk(m)
      BY <3>1, RouterAssumption DEF RouteOk
    <3> QED
      BY <1>3, <2>1, <3>1, <3>2
  <2> QED
    BY <2>2, <2>3
<1>7. CASE ApiCrash
  <2>1. Silent /\ clock' = clock /\ OrdersTyped'
    BY <1>7, ApiSteps, CrashSteps
  <2>2. made' = made /\ recorded' = recorded /\ outbox' \subseteq outbox
    BY <1>7 DEF ApiCrash
  <2> QED
    BY <1>0, <1>2, <2>1, <2>2
<1>8. CASE UNCHANGED vars
  BY <1>8 DEF vars, Types, TypeOK, RouteValues, OrderOk
<1> QED
  BY <1>1, <1>4, <1>5, <1>6, <1>7, <1>8 DEF Next, Done


(*--------------------- Clocks, sleep and the cache file ------------------*)
(* The fields of a router. *)
LEMMA RouterFields ==
  ASSUME Types, NEW r \in Routers
  PROVE  /\ router[r] \in RouterRecord /\ router[r].msg \in Message
         /\ router[r].mem \in [Items -> Values] /\ router[r].ver \in [Items -> Nat]
         /\ router[r].cache[1] \in [Items -> Values] /\ router[r].cache[2] \in [Items -> Nat]
         /\ router[r].prev[1] \in [Items -> Values] /\ router[r].prev[2] \in [Items -> Nat]
         /\ \A i \in DOMAIN inbox[r] : i \in Nat \ {0} /\ inbox[r][i] \in Message
<1>1. router[r] \in RouterRecord /\ inbox[r] \in Seq(Message)
  BY RouterTypes DEF Types
<1>2. \A i \in DOMAIN inbox[r] : i \in Nat \ {0} /\ inbox[r][i] \in Message
  BY <1>1, LenProperties, ElementOfSeq
<1> QED
  BY <1>1, <1>2 DEF RouterRecord

(* What is in the inboxes after a step of a router was there before. *)
LEMMA RouterMessages ==
  ASSUME Types, NEW r \in Routers, RouterStep(r), NEW s \in Routers, NEW i \in DOMAIN inbox'[s]
  PROVE  \E j \in DOMAIN inbox[s] : inbox'[s][i] = inbox[s][j]
<1>1. CASE Ignores(r) \/ Applies(r)
  BY <1>1, TakenMessages DEF Types, Ignores, Applies
<1>2. CASE Stops(r)
  <2>1. inbox' = [inbox EXCEPT ![r] = <<>>] /\ inbox \in [Routers -> Seq(Message)]
    BY <1>2, RouterTypes DEF Stops, Types
  <2>2. DOMAIN <<>> = {}
    OBVIOUS
  <2> QED
    BY <2>1, <2>2
<1>3. CASE inbox' = inbox
  BY <1>3
<1> QED
  BY <1>1, <1>2, <1>3 DEF RouterStep, Stores, PutsBack, Keeps, Reads, Loads, Boots, Syncs, GoesOn,
     WriteEnds, Still

(* The inboxes after a message of the API: it is the last one, where there is somebody to listen. *)
LEMMA AnnouncedMessages ==
  ASSUME Types, NEW m \in Message, Announces(m), NEW r \in Routers
  PROVE  /\ \A i \in DOMAIN inbox[r] : i \in DOMAIN inbox'[r] /\ inbox'[r][i] = inbox[r][i]
         /\ \A i \in DOMAIN inbox'[r] :
              \/ i \in DOMAIN inbox[r] /\ inbox'[r][i] = inbox[r][i]
              \/ inbox'[r][i] = m /\ \A j \in DOMAIN inbox[r] : j < i
         /\ ~ Subscribed(r) => inbox'[r] = inbox[r]
         /\ Subscribed(r) =>
              \E n \in DOMAIN inbox'[r] :
                inbox'[r][n] = m /\ \A i \in DOMAIN inbox'[r] : inbox'[r][i] = m \/ i < n
<1>1. CASE Subscribed(r)
  <2>1. PICK n \in DOMAIN inbox'[r] :
          /\ inbox'[r][n] = m /\ n \in Nat
          /\ DOMAIN inbox'[r] = DOMAIN inbox[r] \cup {n}
          /\ \A i \in DOMAIN inbox[r] : i \in Nat /\ i < n /\ inbox'[r][i] = inbox[r][i]
    BY <1>1, BroadcastMessages DEF Types, Announces
  <2> QED
    BY <1>1, <2>1
<1>2. CASE ~ Subscribed(r)
  BY <1>2, BroadcastMessages DEF Types, Announces
<1> QED
  BY <1>1, <1>2

(* The conditions on single routers and their steps. *)
ClockedOf(c) ==
  \A x \in Items : c.ver[x] <= clock /\ c.cache[2][x] <= clock /\ c.prev[2][x] <= clock
CoherentOf(c) ==
  /\ c.phase # "down" => c.cache = <<c.mem, c.ver>>
  /\ c.phase = "resync" => c.prev[2] = NoVersions

(* The steps of a router, silent steps of the API, and messages keep the base invariant. *)
LEMMA RouterBase ==
  ASSUME Types, BaseInv, NEW r \in Routers, router' \in [Routers -> RouterRecord],
         RouterStep(r), UNCHANGED api
  PROVE  BaseInv'
<1> DEFINE c == router[r]
           d == router'[r]
<1>0. /\ c.msg \in Message /\ c.mem \in [Items -> Values] /\ c.ver \in [Items -> Nat]
      /\ clock \in Nat \ {0} /\ clock' = clock /\ outbox' = outbox /\ order' = order
      /\ ClockedOf(c) /\ CoherentOf(c)
      /\ \A x \in Items : NoVersions[x] = 0
  BY RouterFields DEF BaseInv, Clocked, Coherent, ClockedOf, CoherentOf, api, NoVersions
<1>1. \A s \in Routers : \A i \in DOMAIN inbox'[s] : inbox'[s][i].at <= clock
  BY RouterMessages DEF BaseInv, Clocked
<1>2. /\ ClockedOf(d) /\ CoherentOf(d) /\ \A s \in Routers : s # r => router'[s] = router[s]
      /\ d.phase \notin {"loop", "write", "resync"} => inbox'[r] = <<>>
      /\ \A s \in Routers : s # r => inbox'[s] = inbox[s]
  <2>0. /\ c.phase \notin {"loop", "write", "resync"} => inbox[r] = <<>>
        /\ Empty \in [Items -> Values] /\ NoVersions \in [Items -> Nat]
    BY ConstantTypes DEF BaseInv, Asleep, Subscribed
  <2>1. CASE Ignores(r)
    <3>1. inbox' = [inbox EXCEPT ![r] = Tail(@)] /\ d = c /\ router' = router /\ c.phase = "loop"
      BY <2>1 DEF Ignores, Takes
    <3> QED
      BY <1>0, <3>1, RouterTypes DEF Types
  <2>2. CASE Applies(r)
    <3> DEFINE m == inbox[r][1]
               mem == [c.mem EXCEPT ![m.item] = m.val]
               ver == [c.ver EXCEPT ![m.item] = m.at]
    <3>1. /\ inbox' = [inbox EXCEPT ![r] = Tail(@)] /\ d.phase = "write" /\ d.mem = mem
          /\ d.ver = ver /\ d.cache = <<mem, ver>> /\ d.prev = <<c.mem, c.ver>>
          /\ \A s \in Routers : s # r => router'[s] = router[s]
      BY <2>2 DEF Applies, Takes, Turns
    <3>2. m \in Message /\ m.at <= clock
      BY <2>2, TakenMessages DEF Applies, Types, BaseInv, Clocked
    <3>3. \A x \in Items : ver[x] <= clock
      BY <1>0, <3>2 DEF ClockedOf, Message
    <3> HIDE DEF m, mem, ver, c, d
    <3> QED
      BY <1>0, <3>1, <3>3, RouterTypes DEF Types, ClockedOf, CoherentOf, c
  <2>3. CASE Stops(r)
    <3>1. inbox' = [inbox EXCEPT ![r] = <<>>] /\ inbox \in [Routers -> Seq(Message)]
      BY <2>3, RouterTypes DEF Stops, Types
    <3> QED
      BY <1>0, <2>3, <3>1 DEF Stops, Turns, Neither, ClockedOf, CoherentOf
  <2>4. CASE Stores(r) \/ PutsBack(r) \/ Keeps(r)
    <3>1. inbox' = inbox /\ c.phase = "write" /\ d.phase = "loop" /\ d.prev = Neither
          /\ \A s \in Routers : s # r => router'[s] = router[s]
      BY <2>4 DEF Stores, PutsBack, Keeps, WriteEnds, Turns
    <3>2. \/ d.mem = c.mem /\ d.ver = c.ver /\ d.cache = c.cache
          \/ d.mem = c.prev[1] /\ d.ver = c.prev[2] /\ d.cache = <<c.prev[1], c.prev[2]>>
      BY <2>4 DEF Stores, PutsBack, Keeps, Turns
    <3> QED
      BY <1>0, <3>1, <3>2 DEF Neither, ClockedOf, CoherentOf
  <2>5. CASE Reads(r) \/ Loads(r)
    <3>1. inbox' = inbox /\ d.phase \in {"loop", "resync"}
          /\ \A s \in Routers : s # r => router'[s] = router[s]
      BY <2>5 DEF Reads, Loads, Still, Turns
    <3> QED
      BY <1>0, <2>5, <3>1 DEF Reads, Loads, Turns, Neither, ClockedOf, CoherentOf
  <2>6. CASE Boots(r) \/ Syncs(r) \/ GoesOn(r)
    <3>1. inbox' = inbox /\ c.phase \in {"down", "boot", "synced", "loop"}
          /\ (c.phase = "loop" => d.phase = "loop") /\ d.phase \notin {"down", "resync"}
          /\ \A s \in Routers : s # r => router'[s] = router[s]
      BY <2>6 DEF Boots, Syncs, GoesOn, Still, Turns
    <3>2. c.cache = <<c.cache[1], c.cache[2]>>
      BY RouterFields DEF RouterRecord
    <3>3. /\ d.prev = c.prev
          /\ \/ d.mem = c.cache[1] /\ d.ver = c.cache[2] /\ d.cache = c.cache /\ c.phase = "down"
             \/ d.mem = db /\ d.ver = NoVersions /\ d.cache = <<db, NoVersions>>
             \/ d.mem = c.mem /\ d.ver = c.ver /\ d.cache = c.cache /\ c.phase # "down"
      BY <2>6 DEF Boots, Syncs, GoesOn, Turns
    <3> QED
      BY <1>0, <2>0, <3>1, <3>2, <3>3 DEF ClockedOf, CoherentOf
  <2> QED
    BY <2>1, <2>2, <2>3, <2>4, <2>5, <2>6 DEF RouterStep
<1>3. Clocked'
  <2>1. \A s \in Routers : ClockedOf(router'[s])
    BY <1>0, <1>2 DEF BaseInv, Clocked, ClockedOf
  <2> QED
    BY <1>0, <1>1, <2>1 DEF BaseInv, Clocked, ClockedOf
<1>4. Asleep'
  BY <1>2 DEF BaseInv, Asleep, Subscribed
<1>5. Coherent'
  BY <1>2 DEF BaseInv, Coherent, CoherentOf
<1> QED
  BY <1>3, <1>4, <1>5 DEF BaseInv

(* A step that leaves the routers alone, and stamps nothing with a time to come. *)
LEMMA ApiBase ==
  ASSUME Types, BaseInv, router' = router, clock' \in {clock, clock + 1},
         \A o \in Orders : order'[o].at <= clock', \A m \in outbox' : m.at <= clock',
         \A r \in Routers : \A i \in DOMAIN inbox'[r] : inbox'[r][i].at <= clock',
         \A r \in Routers : ~ Subscribed(r) => inbox'[r] = inbox[r]
  PROVE  BaseInv'
<1>1. clock \in Nat \ {0} /\ clock' \in Nat \ {0} /\ clock <= clock'
  BY DEF BaseInv, Clocked
<1>2. \A r \in Routers, x \in Items :
        router[r].ver[x] <= clock' /\ router[r].cache[2][x] <= clock'
        /\ router[r].prev[2][x] <= clock'
  <2> TAKE r \in Routers, x \in Items
  <2>1. router[r].ver[x] \in Nat /\ router[r].cache[2][x] \in Nat /\ router[r].prev[2][x] \in Nat
    BY RouterFields
  <2> QED
    BY <1>1, <2>1 DEF BaseInv, Clocked
<1>3. Clocked'
  BY <1>1, <1>2 DEF Clocked
<1>4. Asleep' /\ Coherent'
  BY DEF BaseInv, Asleep, Coherent, Subscribed
<1> QED
  BY <1>3, <1>4 DEF BaseInv

(* So does one that sends nothing. *)
LEMMA SilentBase ==
  ASSUME Types, BaseInv, Silent, clock' \in {clock, clock + 1},
         \A o \in Orders : order'[o].at <= clock',
         \A m \in outbox' : m.at <= clock'
  PROVE  BaseInv'
<1>1. \A r \in Routers : \A i \in DOMAIN inbox[r] : inbox[r][i].at <= clock'
  <2> TAKE r \in Routers
  <2> TAKE i \in DOMAIN inbox[r]
  <2>1. inbox[r][i].at \in Nat /\ inbox[r][i].at <= clock /\ clock \in Nat
    BY RouterFields DEF BaseInv, Clocked, Message
  <2> QED
    BY <2>1
<1> QED
  BY <1>1, ApiBase DEF Silent

(* So does one that sends a message of now or before. *)
LEMMA AnnouncedBase ==
  ASSUME Types, BaseInv, NEW m \in Message, Announces(m), clock' \in {clock, clock + 1},
         \A o \in Orders : order'[o].at <= clock', outbox' \subseteq outbox, m.at <= clock'
  PROVE  BaseInv'
<1>1. \A r \in Routers : \A i \in DOMAIN inbox'[r] : inbox'[r][i].at <= clock'
  <2> TAKE r \in Routers
  <2> TAKE i \in DOMAIN inbox'[r]
  <2>1. CASE inbox'[r][i] = m
    BY <2>1
  <2>2. CASE i \in DOMAIN inbox[r] /\ inbox'[r][i] = inbox[r][i]
    <3>1. inbox[r][i].at \in Nat /\ inbox[r][i].at <= clock /\ clock \in Nat
      BY <2>2, RouterFields DEF BaseInv, Clocked, Message
    <3> QED
      BY <2>2, <3>1
  <2> QED
    BY <2>1, <2>2, AnnouncedMessages
<1>2. \A n \in outbox' : n.at <= clock'
  <2> TAKE n \in outbox'
  <2>1. n.at \in Nat /\ n.at <= clock /\ clock \in Nat
    BY DEF BaseInv, Clocked, Types, TypeOK
  <2> QED
    BY <2>1
<1>3. \A r \in Routers : ~ Subscribed(r) => inbox'[r] = inbox[r]
  BY AnnouncedMessages
<1> QED
  BY <1>1, <1>2, <1>3, ApiBase DEF Announces

(* Every step keeps the base invariant. *)
LEMMA BaseKept == Types /\ BaseInv /\ [Next]_vars => BaseInv'
<1> SUFFICES ASSUME Types, BaseInv, [Next]_vars PROVE BaseInv'
  OBVIOUS
<1>0. /\ clock \in Nat \ {0} /\ \A o \in Orders : order[o].at \in Nat /\ order[o].at <= clock
      /\ \A m \in outbox : m.at \in Nat /\ m.at <= clock
  BY RouterTypes, OrderTypes DEF BaseInv, Clocked, Types, TypeOK
<1>1. ASSUME NEW r \in Routers, Loop(r) \/ Startup(r) \/ Crash(r) PROVE BaseInv'
  BY <1>1, RouterSteps, RouterBase DEF Types
<1>2. ASSUME NEW second \in {clock, clock + 1}, NotifyRouter(second) PROVE BaseInv'
  <2>1. Silent
    BY <1>2, ApiSteps
  <2>2. clock' = second /\ order' = order
        /\ outbox' = outbox \cup {[item |-> "route", val |-> made + 1, at |-> second]}
    BY <1>2 DEF NotifyRouter
  <2>3. (\A o \in Orders : order'[o].at <= clock') /\ \A m \in outbox' : m.at <= clock'
    BY <1>0, <2>2
  <2> QED
    BY <2>1, <2>2, <2>3, SilentBase
<1>3. ASSUME NEW m \in outbox, Publish(m) PROVE BaseInv'
  <2>1. Announces(m) /\ m \in Message
    BY <1>3, ApiSteps
  <2>2. UNCHANGED <<clock, order>> /\ outbox' \subseteq outbox
    BY <1>3 DEF Publish
  <2> QED
    BY <1>0, <2>1, <2>2, AnnouncedBase
<1>4. ASSUME NEW o \in Orders, Certify(o) PROVE BaseInv'
  <2>1. clock' \in {clock, clock + 1} /\ outbox' = outbox
    BY <1>4, CertifySteps
  <2>2. ASSUME NEW p \in Orders PROVE order'[p].at <= clock'
    <3>1. order'[p].at \in {order[p].at, clock', 0}
      BY <1>4, CertifySteps
    <3> QED
      BY <1>0, <2>1, <3>1
  <2>3. CASE Silent
    <3>1. \A m \in outbox' : m.at <= clock'
      BY <1>0, <2>1
    <3> QED
      BY <2>1, <2>2, <2>3, <3>1, SilentBase
  <2>4. CASE ~Silent
    <3>1. PICK m \in Message : Announces(m) /\ m.at \in {order[o].at, clock} /\ clock' = clock
      BY <1>4, <2>4, CertifySteps
    <3>2. m.at <= clock'
      BY <1>0, <3>1
    <3> QED
      BY <2>1, <2>2, <3>1, <3>2, AnnouncedBase
  <2> QED
    BY <2>3, <2>4
<1>5. CASE ApiCrash
  <2>1. Silent /\ clock' = clock /\ outbox' = {}
    BY <1>5, ApiSteps DEF ApiCrash
  <2>2. \A o \in Orders : order'[o].at <= clock'
    BY <1>0, <1>5, <2>1, CrashSteps
  <2> QED
    BY <1>0, <2>1, <2>2, SilentBase
<1>6. CASE UNCHANGED vars
  BY <1>6 DEF vars, BaseInv, Clocked, Asleep, Coherent, Subscribed
<1> QED
  BY <1>1, <1>2, <1>3, <1>4, <1>5, <1>6 DEF Next, Done

(*------------------------- What a router serves --------------------------*)
(* Every step keeps what is served a list that was stored. *)
LEMMA ServedKept == Types /\ ServedInv /\ [Next]_vars => ServedInv'
<1> SUFFICES ASSUME Types, ServedInv, [Next]_vars PROVE ServedInv'
  OBVIOUS
<1>1. ASSUME NEW r \in Routers, Loop(r) \/ Startup(r) \/ Crash(r) PROVE ServedInv'
  <2> DEFINE c == router[r]
             d == router'[r]
  <2>1. RouterStep(r) /\ rare \subseteq rare'
    BY <1>1, RouterSteps DEF Types
  <2>2. /\ stored \subseteq stored' /\ 0 \in stored' /\ db'["route"] \in stored'
        /\ \A s \in Routers : s # r => router'[s] = router[s]
    BY <2>1, RouterTypes, ConstantTypes DEF RouterStep, Ignores, Applies, Stores, PutsBack, Keeps,
       Reads, Loads, Stops, Boots, Syncs, GoesOn, Takes, Turns, WriteEnds, Still, data, ServedInv,
       Types
  <2>3. ASSUME ServesStored(c), Undisturbed({"read"})' PROVE ServesStored(router[r])'
    <3>1. CASE Applies(r)
      <4> DEFINE m == inbox[r][1]
                 mem == [c.mem EXCEPT ![m.item] = m.val]
      <4>1. m \in Message /\ c.mem \in [Items -> Values]
        BY <3>1, TakenMessages, RouterFields DEF Applies, Types
      <4>2. /\ c.phase = "loop" /\ d.phase = "write" /\ d.mem = mem /\ d.msg = m
            /\ d.prev[1] = c.mem /\ stored' = stored
        BY <3>1 DEF Applies, Takes, Turns
      <4>3. mem["route"] = IF m.item = "route" THEN m.val ELSE c.mem["route"]
        BY <4>1, ConstantTypes
      <4> HIDE DEF m, mem
      <4> QED
        BY <2>3, <4>2, <4>3 DEF ServesStored
    <3>2. CASE Stores(r)
      BY <2>2, <2>3, <3>2 DEF Stores, WriteEnds, Turns, ServesStored
    <3>3. CASE Ignores(r) \/ PutsBack(r) \/ Keeps(r)
      BY <2>2, <2>3, <3>3 DEF Ignores, Takes, PutsBack, Keeps, WriteEnds, Turns, ServesStored
    <3>4. CASE Reads(r) \/ Loads(r)
      BY <2>2, <2>3, <3>4 DEF Reads, Loads, Turns, Still, ServesStored, ServedInv
    <3>5. CASE Stops(r) \/ Boots(r) \/ Syncs(r)
      <4>1. Empty["route"] = 0
        BY ConstantTypes DEF Empty
      <4> QED
        BY <2>2, <2>3, <3>5, <4>1 DEF Stops, Boots, Syncs, Turns, Still, ServesStored, ServedInv
    <3>6. CASE GoesOn(r)
      BY <2>2, <2>3, <3>6 DEF GoesOn, Turns, ServesStored, Undisturbed
    <3> QED
      BY <2>1, <3>1, <3>2, <3>3, <3>4, <3>5, <3>6 DEF RouterStep
  <2>4. ASSUME Undisturbed({"read"})', NEW s \in Routers PROVE ServesStored(router[s])'
    <3>1. ServesStored(router[s])
      BY <2>1, <2>4 DEF ServedInv, Undisturbed
    <3>2. CASE s = r
      BY <2>3, <2>4, <3>1, <3>2
    <3>3. CASE s # r
      BY <2>2, <3>1, <3>3 DEF ServesStored
    <3> QED
      BY <3>2, <3>3
  <2> QED
    BY <2>2, <2>4 DEF ServedInv
<1>2. ASSUME rare \subseteq rare', UNCHANGED <<db, stored, router>> PROVE ServedInv'
  BY <1>2 DEF ServedInv, ServesStored, Undisturbed
<1>3. CASE UNCHANGED vars
  BY <1>2, <1>3 DEF vars
<1> QED
  BY <1>1, <1>2, <1>3, ApiSteps, CertifySteps DEF Next, Done, Announces, Silent


(*----------------------- Values that are on their way --------------------*)
(* A step of a router leaves the others alone; one that takes no message keeps the messages, if   *)
(* none is lost, and does not begin to write.                                                     *)
LEMMA OthersStay ==
  ASSUME Types, NEW r \in Routers, RouterStep(r), NEW s \in Routers, s # r
  PROVE  router'[s] = router[s] /\ inbox'[s] = inbox[s]
<1>1. CASE Ignores(r) \/ Applies(r)
  BY <1>1, TakenMessages DEF Types, Ignores, Applies, Turns
<1>2. CASE Stops(r)
  BY <1>2, RouterTypes DEF Stops, Turns, Types
<1>3. CASE Stores(r) \/ PutsBack(r) \/ Keeps(r) \/ Reads(r) \/ Loads(r) \/ Boots(r) \/ Syncs(r)
           \/ GoesOn(r)
  BY <1>3 DEF Stores, PutsBack, Keeps, Reads, Loads, Boots, Syncs, GoesOn, WriteEnds, Still, Turns
<1> QED
  BY <1>1, <1>2, <1>3 DEF RouterStep

(* A router that neither applies nor ignores a message keeps its own and its versions. *)
LEMMA MessagesStay ==
  ASSUME Types, BaseInv, NEW r \in Routers, RouterStep(r), ~ Ignores(r), ~ Applies(r),
         "write" \notin rare', "missed" \notin rare'
  PROVE  /\ inbox' = inbox /\ router'[r].phase # "write"
         /\ Stores(r) \/ (router[r].phase # "write" /\ db' = db /\ stored' = stored)
         /\ \/ router'[r].ver = router[r].ver
            \/ router'[r].ver = NoVersions
            \/ inbox[r] = <<>>
<1>1. CASE Stops(r)
  BY <1>1, RouterTypes DEF Stops, Turns, Types, data
<1>2. CASE Stores(r)
  BY <1>2 DEF Stores, WriteEnds, Turns
<1>3. CASE Reads(r) \/ Loads(r) \/ Boots(r) \/ Syncs(r) \/ GoesOn(r)
  BY <1>3 DEF Reads, Loads, Boots, Syncs, GoesOn, Still, Turns, BaseInv, Asleep, Coherent,
     Subscribed
<1> QED
  BY <1>1, <1>2, <1>3 DEF RouterStep, PutsBack, Keeps

(* A step of a router keeps a value on its way. *)
LEMMA RouterTaken ==
  ASSUME Types, BaseInv, NEW r \in Routers, RouterStep(r),
         "write" \notin rare', "missed" \notin rare', NEW x \in Items, NEW W, Taken(x, W)
  PROVE  Taken(x, W)'
<1> SUFFICES ASSUME NEW s \in Routers, NEW j \in DOMAIN inbox'[s],
                    inbox'[s][j].item = x, inbox'[s][j].val \in W
             PROVE  /\ inbox'[s][j].at > router'[s].ver[x] /\ inbox'[s][j].at > 0
                    /\ \A i \in DOMAIN inbox'[s] : i < j /\ inbox'[s][i].item = x =>
                         inbox'[s][i].at < inbox'[s][j].at
  BY DEF Taken
<1>1. CASE s # r
  BY <1>1, OthersStay DEF Taken
<1>2. CASE s = r /\ (Ignores(r) \/ Applies(r))
  <2>1. /\ 1 \in DOMAIN inbox[r] /\ j + 1 \in DOMAIN inbox[r] /\ j \in Nat \ {0}
        /\ inbox'[r][j] = inbox[r][j + 1] /\ inbox[r][1] \in Message
        /\ \A i \in DOMAIN inbox'[r] :
             i \in Nat \ {0} /\ i + 1 \in DOMAIN inbox[r] /\ inbox'[r][i] = inbox[r][i + 1]
    BY <1>2, TakenMessages DEF Types, Ignores, Applies
  <2>2. /\ inbox[r][j + 1].at > router[r].ver[x] /\ inbox[r][j + 1].at > 0
        /\ \A i \in DOMAIN inbox[r] : i < j + 1 /\ inbox[r][i].item = x =>
             inbox[r][i].at < inbox[r][j + 1].at
    BY <1>2, <2>1 DEF Taken
  <2>3. inbox[r][j + 1].at > router'[r].ver[x]
    <3>1. CASE Ignores(r)
      BY <2>2, <3>1 DEF Ignores
    <3>2. CASE Applies(r)
      <4>1. /\ router'[r].ver = [router[r].ver EXCEPT ![inbox[r][1].item] = inbox[r][1].at]
            /\ router[r].ver \in [Items -> Nat]
        BY <3>2, RouterFields DEF Applies, Turns
      <4>2. inbox[r][1].item = x => inbox[r][1].at < inbox[r][j + 1].at
        BY <2>1, <2>2
      <4>3. inbox[r][1].at \in Nat /\ inbox[r][j + 1].at \in Nat
        BY <2>1, RouterFields DEF Message
      <4> QED
        BY <2>2, <4>1, <4>2, <4>3
    <3> QED
      BY <1>2, <3>1, <3>2
  <2>4. \A i \in DOMAIN inbox'[r] : i < j /\ inbox'[r][i].item = x =>
          inbox'[r][i].at < inbox'[r][j].at
    <3> TAKE i \in DOMAIN inbox'[r]
    <3>1. i \in Nat /\ i + 1 \in DOMAIN inbox[r] /\ inbox'[r][i] = inbox[r][i + 1]
      BY <2>1
    <3>2. i < j => i + 1 < j + 1
      BY <2>1, <3>1
    <3> QED
      BY <2>1, <2>2, <3>1, <3>2
  <2> QED
    BY <1>2, <2>1, <2>2, <2>3, <2>4
<1>3. CASE s = r /\ ~ (Ignores(r) \/ Applies(r))
  <2>1. /\ inbox' = inbox
        /\ router'[r].ver = router[r].ver \/ router'[r].ver = NoVersions \/ inbox[r] = <<>>
    BY <1>3, MessagesStay
  <2>2. NoVersions[x] = 0 /\ DOMAIN <<>> = {}
    BY DEF NoVersions
  <2>3. j \in DOMAIN inbox[r]
    BY <1>3, <2>1
  <2> QED
    BY <1>3, <2>1, <2>2, <2>3 DEF Taken
<1> QED
  BY <1>1, <1>2, <1>3

(* No step of a router makes a value other than the last word. *)
LEMMA RouterLasts ==
  ASSUME Types, BaseInv, NEW r \in Routers, RouterStep(r),
         "write" \notin rare', "missed" \notin rare',
         NEW x \in Items, NEW W, NEW w \in W, Taken(x, W), Lasts(x, w)
  PROVE  Lasts(x, w)'
<1>0. /\ router[r].msg \in Message /\ db \in [Items -> Values]
      /\ \A s \in Routers : \A i \in DOMAIN inbox[s] : i \in Nat \ {0} /\ inbox[s][i] \in Message
      /\ \A i \in DOMAIN inbox[r] : inbox[r][i].item = x /\ inbox[r][i].val = w =>
           inbox[r][i].at > router[r].ver[x]
  BY RouterFields, RouterTypes DEF Types, Taken
<1>1. CASE Ignores(r) \/ Applies(r)
  <2>1. /\ Takes(r) /\ router[r].phase = "loop" /\ db' = db
    BY <1>1 DEF Ignores, Applies, Takes
  <2>2. /\ 1 \in DOMAIN inbox[r] /\ inbox[r][1] \in Message
        /\ \A i \in DOMAIN inbox'[r] :
             i \in Nat \ {0} /\ i + 1 \in DOMAIN inbox[r] /\ inbox'[r][i] = inbox[r][i + 1]
        /\ \A i \in DOMAIN inbox[r] : i # 1 =>
             i - 1 \in DOMAIN inbox'[r] /\ inbox'[r][i - 1] = inbox[r][i]
    BY <2>1, TakenMessages DEF Types
  <2>3. \A j \in DOMAIN inbox[r] : j # 1 /\ Says(r, j, x, w) =>
          j - 1 \in DOMAIN inbox'[r] /\ Says(r, j - 1, x, w)'
    BY <2>2 DEF Says
  <2>4. Says(r, 1, x, w) => Writes(r, x)' /\ router'[r].msg.val = w
    <3>1. CASE Ignores(r)
      <4>1. inbox[r][1].at <= router[r].ver[inbox[r][1].item]
        BY <3>1 DEF Ignores
      <4>2. Says(r, 1, x, w) => inbox[r][1].at > router[r].ver[x] /\ inbox[r][1].item = x
        BY <1>0, <2>2 DEF Says
      <4>3. router[r].ver[x] \in Nat /\ inbox[r][1].at \in Nat
        BY <2>2, RouterFields DEF Message
      <4> QED
        BY <4>1, <4>2, <4>3
    <3>2. CASE Applies(r)
      BY <3>2 DEF Applies, Turns, Says, Writes
    <3> QED
      BY <1>1, <3>1, <3>2
  <2>5. Writes(r, x)' => /\ router'[r].msg = inbox[r][1] /\ inbox[r][1].item = x
    BY <1>1, <2>1 DEF Ignores, Applies, Turns, Writes
  <2>6. \A i \in DOMAIN inbox[r] : inbox[r][i].item = x /\ ~ Says(r, i, x, w) =>
          \E j \in DOMAIN inbox[r] : j > i /\ Says(r, j, x, w)
    BY DEF Lasts
  <2>7. db'[x] # w => \E s \in Routers : Arrives(s, x, w)'
    <3> SUFFICES ASSUME db'[x] # w PROVE \E s \in Routers : Arrives(s, x, w)'
      OBVIOUS
    <3>1. PICK s \in Routers : Arrives(s, x, w)
      BY <2>1 DEF Lasts
    <3>2. CASE s # r
      BY <3>1, <3>2, OthersStay DEF Arrives, Writes, Says
    <3>3. CASE s = r
      <4>1. PICK i \in DOMAIN inbox[r] : Says(r, i, x, w)
        BY <2>1, <3>1, <3>3 DEF Arrives, Writes
      <4> QED
        BY <2>3, <2>4, <4>1 DEF Arrives
    <3> QED
      BY <3>2, <3>3
  <2>8. ASSUME NEW s \in Routers, Writes(s, x)', router'[s].msg.val # w
        PROVE  \E j \in DOMAIN inbox'[s] : Says(s, j, x, w)'
    <3>1. CASE s # r
      BY <2>8, <3>1, OthersStay DEF Lasts, Writes, Says
    <3>2. CASE s = r
      <4>1. PICK j \in DOMAIN inbox[r] : j > 1 /\ Says(r, j, x, w)
        BY <2>2, <2>5, <2>6, <2>8, <3>2 DEF Says
      <4> QED
        BY <2>3, <3>2, <4>1
    <3> QED
      BY <3>1, <3>2
  <2>9. ASSUME NEW s \in Routers, NEW i \in DOMAIN inbox'[s],
               inbox'[s][i].item = x /\ ~ Says(s, i, x, w)'
        PROVE  \E j \in DOMAIN inbox'[s] : j > i /\ Says(s, j, x, w)'
    <3>1. CASE s # r
      BY <2>9, <3>1, OthersStay DEF Lasts, Says
    <3>2. CASE s = r
      <4>1. i \in Nat \ {0} /\ i + 1 \in DOMAIN inbox[r] /\ inbox'[r][i] = inbox[r][i + 1]
        BY <2>2, <2>9, <3>2
      <4>2. PICK j \in DOMAIN inbox[r] : j > i + 1 /\ Says(r, j, x, w)
        BY <2>6, <2>9, <3>2, <4>1 DEF Says
      <4>3. j \in Nat /\ j # 1 /\ j - 1 > i
        BY <1>0, <4>1, <4>2
      <4> QED
        BY <2>3, <3>2, <4>2, <4>3
    <3> QED
      BY <3>1, <3>2
  <2> QED
    BY <2>7, <2>8, <2>9 DEF Lasts
<1>2. CASE ~ (Ignores(r) \/ Applies(r))
  <2>1. /\ inbox' = inbox /\ ~ Writes(r, x)'
        /\ Stores(r) \/ (~ Writes(r, x) /\ db' = db)
    BY <1>2, MessagesStay DEF Writes
  <2>2. \A s \in Routers : s # r => router'[s] = router[s]
    BY OthersStay
  <2>3. db'[x] # w => \E s \in Routers : Arrives(s, x, w)'
    <3> SUFFICES ASSUME db'[x] # w PROVE \E s \in Routers : Arrives(s, x, w)'
      OBVIOUS
    <3>1. CASE Stores(r) /\ Writes(r, x)
      <4>1. router[r].msg.val # w
        BY <1>0, <3>1 DEF Stores, Writes
      <4>2. PICK j \in DOMAIN inbox[r] : Says(r, j, x, w)
        BY <3>1, <4>1 DEF Lasts
      <4> QED
        BY <2>1, <4>2 DEF Arrives, Says
    <3>2. CASE ~ Writes(r, x)
      <4>1. db[x] # w
        BY <1>0, <2>1, <3>2 DEF Stores, WriteEnds, Writes
      <4>2. PICK s \in Routers : Arrives(s, x, w)
        BY <4>1 DEF Lasts
      <4> QED
        BY <2>1, <2>2, <3>2, <4>2 DEF Arrives, Says, Writes
    <3> QED
      BY <2>1, <3>1, <3>2
  <2>4. \A s \in Routers : Writes(s, x)' /\ router'[s].msg.val # w =>
          \E j \in DOMAIN inbox'[s] : Says(s, j, x, w)'
    BY <2>1, <2>2 DEF Lasts, Writes, Says
  <2>5. \A s \in Routers : \A i \in DOMAIN inbox'[s] :
          inbox'[s][i].item = x /\ ~ Says(s, i, x, w)' =>
            \E j \in DOMAIN inbox'[s] : j > i /\ Says(s, j, x, w)'
    BY <2>1 DEF Lasts, Says
  <2> QED
    BY <2>3, <2>4, <2>5 DEF Lasts
<1> QED
  BY <1>1, <1>2

(* Steps of the API that announce nothing, or something else. *)
LEMMA SilentLasts ==
  ASSUME Silent, NEW x, NEW W, NEW w
  PROVE  (Taken(x, W) => Taken(x, W)') /\ (Lasts(x, w) => Lasts(x, w)')
BY DEF Silent, Taken, Lasts, Arrives, Says, Writes

(* A newer message will be taken by every router. *)
LEMMA AnnouncedTaken ==
  ASSUME Types, NEW m \in Message, Announces(m), NEW x, NEW W, Taken(x, W),
         m.item = x /\ m.val \in W =>
           /\ m.at > 0
           /\ \A r \in Routers :
                /\ m.at > router[r].ver[x]
                /\ \A i \in DOMAIN inbox[r] : inbox[r][i].item = x => inbox[r][i].at < m.at
  PROVE  Taken(x, W)'
<1> SUFFICES ASSUME NEW r \in Routers, NEW j \in DOMAIN inbox'[r],
                    inbox'[r][j].item = x, inbox'[r][j].val \in W
             PROVE  /\ inbox'[r][j].at > router'[r].ver[x] /\ inbox'[r][j].at > 0
                    /\ \A i \in DOMAIN inbox'[r] : i < j /\ inbox'[r][i].item = x =>
                         inbox'[r][i].at < inbox'[r][j].at
  BY DEF Taken
<1>1. router' = router
  BY DEF Announces
<1>2. /\ \A i \in DOMAIN inbox'[r] :
           \/ i \in DOMAIN inbox[r] /\ inbox'[r][i] = inbox[r][i]
           \/ inbox'[r][i] = m /\ \A k \in DOMAIN inbox[r] : k < i
      /\ \A i \in DOMAIN inbox[r] : i \in Nat /\ inbox[r][i] \in Message
      /\ \A i \in DOMAIN inbox'[r] : i \in Nat
  <2>1. inbox'[r] \in Seq(Message)
    BY AnnouncedMessages, BroadcastMessages DEF Announces, Types
  <2>2. DOMAIN inbox'[r] = 1 .. Len(inbox'[r])
    BY <2>1, LenProperties
  <2> QED
    BY <2>2, AnnouncedMessages, RouterFields
<1>3. CASE j \in DOMAIN inbox[r] /\ inbox'[r][j] = inbox[r][j]
  <2>1. \A i \in DOMAIN inbox'[r] : i < j => i \in DOMAIN inbox[r] /\ inbox'[r][i] = inbox[r][i]
    BY <1>2, <1>3
  <2> QED
    BY <1>1, <1>3, <2>1 DEF Taken
<1>4. CASE inbox'[r][j] = m /\ \A k \in DOMAIN inbox[r] : k < j
  <2>1. m.item = x /\ m.val \in W
    BY <1>4
  <2>3. ASSUME Subscribed(r)
        PROVE  \A i \in DOMAIN inbox'[r] :
                 i < j => i \in DOMAIN inbox[r] /\ inbox'[r][i] = inbox[r][i]
    <3>1. PICK n \in DOMAIN inbox'[r] :
            /\ inbox'[r][n] = m /\ n \in Nat
            /\ DOMAIN inbox'[r] = DOMAIN inbox[r] \cup {n}
            /\ \A i \in DOMAIN inbox[r] : i \in Nat /\ i < n /\ inbox'[r][i] = inbox[r][i]
      BY <2>3, BroadcastMessages DEF Announces, Types
    <3>2. j = n
      BY <1>2, <1>4, <3>1
    <3> QED
      BY <3>1, <3>2
  <2>4. ~ Subscribed(r) => inbox'[r] = inbox[r]
    BY AnnouncedMessages
  <2>5. Subscribed(r)
    BY <1>2, <1>4, <2>4
  <2> QED
    BY <1>1, <1>4, <2>1, <2>3, <2>5
<1> QED
  BY <1>2, <1>3, <1>4

(* A message about another item keeps a value on its way. *)
LEMMA AnnouncedElse ==
  ASSUME Types, NEW m \in Message, Announces(m), NEW x, NEW w, m.item # x, Lasts(x, w)
  PROVE  Lasts(x, w)'
<1>1. router' = router /\ db' = db
  BY DEF Announces
<1>2. \A r \in Routers :
        /\ \A i \in DOMAIN inbox[r] : i \in DOMAIN inbox'[r] /\ inbox'[r][i] = inbox[r][i]
        /\ \A i \in DOMAIN inbox'[r] : inbox'[r][i].item = x =>
             i \in DOMAIN inbox[r] /\ inbox'[r][i] = inbox[r][i]
  BY AnnouncedMessages
<1>3. db'[x] # w => \E r \in Routers : Arrives(r, x, w)'
  BY <1>1, <1>2 DEF Lasts, Arrives, Says, Writes
<1>4. \A r \in Routers : Writes(r, x)' /\ router'[r].msg.val # w =>
        \E j \in DOMAIN inbox'[r] : Says(r, j, x, w)'
  BY <1>1, <1>2 DEF Lasts, Says, Writes
<1>5. \A r \in Routers : \A i \in DOMAIN inbox'[r] : inbox'[r][i].item = x /\ ~ Says(r, i, x, w)' =>
        \E j \in DOMAIN inbox'[r] : j > i /\ Says(r, j, x, w)'
  BY <1>2 DEF Lasts, Says
<1> QED
  BY <1>3, <1>4, <1>5 DEF Lasts

(* A value that was just announced to all routers is on its way. *)
LEMMA AnnouncedLasts ==
  ASSUME Types, NEW m \in Message, Announces(m), "missed" \notin rare'
  PROVE  \A x, w : m.item = x /\ m.val = w => Lasts(x, w)'
<1> SUFFICES ASSUME NEW x, NEW w, m.item = x, m.val = w PROVE Lasts(x, w)'
  OBVIOUS
<1>1. \A r \in Routers : \E n \in DOMAIN inbox'[r] :
        Says(r, n, x, w)' /\ \A i \in DOMAIN inbox'[r] : Says(r, i, x, w)' \/ i < n
  <2> TAKE r \in Routers
  <2>1. Subscribed(r)
    BY DEF Announces
  <2>2. PICK n \in DOMAIN inbox'[r] :
          inbox'[r][n] = m /\ \A i \in DOMAIN inbox'[r] : inbox'[r][i] = m \/ i < n
    BY <2>1, AnnouncedMessages
  <2> QED
    BY <2>2 DEF Says
<1>2. \A r \in Routers : \A i \in DOMAIN inbox'[r] : i \in Nat
  <2> TAKE r \in Routers
  <2>1. inbox'[r] \in Seq(Message)
    BY BroadcastMessages DEF Announces, Types
  <2> QED
    BY <2>1, LenProperties
<1>3. \E r \in Routers : Arrives(r, x, w)'
  BY <1>1, RouterAssumption DEF Arrives
<1> QED
  BY <1>1, <1>2, <1>3 DEF Lasts


(*-------------------- Challenges and certificates ------------------------*)
(* Something a behaviour without certain failures has not seen before. *)
LEMMA StillUndisturbed ==
  ASSUME rare \subseteq rare', NEW events, Undisturbed(events)'
  PROVE  Undisturbed(events) /\ \A e \in events : e \notin rare'
BY DEF Undisturbed

(* The stamps of an item stay within a second while only messages up to it are sent. *)
LEMMA UntilGrows ==
  ASSUME Types, NEW x \in Items, NEW a \in Nat, NEW b \in Nat, a <= b, router' = router,
         \A r \in Routers : \A i \in DOMAIN inbox'[r] : inbox'[r][i].item = x =>
           \/ i \in DOMAIN inbox[r] /\ inbox'[r][i] = inbox[r][i]
           \/ inbox'[r][i].at <= b
  PROVE  \A r \in Routers : Until(r, x, a) => Until(r, x, b)'
<1> SUFFICES ASSUME NEW r \in Routers, Until(r, x, a) PROVE Until(r, x, b)'
  OBVIOUS
<1>1. router[r].ver[x] \in Nat /\ router[r].cache[2][x] \in Nat /\ router[r].prev[2][x] \in Nat
  BY RouterFields
<1>2. \A i \in DOMAIN inbox[r] : inbox[r][i].at \in Nat
  BY RouterFields DEF Message
<1>3. /\ router[r].ver[x] <= a /\ router[r].cache[2][x] <= a /\ router[r].prev[2][x] <= a
      /\ \A i \in DOMAIN inbox[r] : inbox[r][i].item = x => inbox[r][i].at <= a
  BY DEF Until
<1>4. ASSUME NEW i \in DOMAIN inbox'[r], inbox'[r][i].item = x PROVE inbox'[r][i].at <= b
  BY <1>2, <1>3, <1>4
<1> QED
  BY <1>1, <1>3, <1>4 DEF Until

(* So do they whatever a router does. *)
LEMMA RouterUntil ==
  ASSUME Types, BaseInv, NEW r \in Routers, RouterStep(r), NEW x \in Items, NEW a \in Nat
  PROVE  \A s \in Routers : Until(s, x, a) => Until(s, x, a)'
<1> SUFFICES ASSUME NEW s \in Routers, Until(s, x, a) PROVE Until(s, x, a)'
  OBVIOUS
<1>0. /\ router[s].ver[x] <= a /\ router[s].cache[2][x] <= a /\ router[s].prev[2][x] <= a
      /\ \A i \in DOMAIN inbox[s] : inbox[s][i].item = x => inbox[s][i].at <= a
  BY DEF Until
<1>1. CASE s # r
  BY <1>0, <1>1, OthersStay DEF Until
<1>2. CASE s = r
  <2>0. NoVersions[x] = 0
    BY DEF NoVersions
  <2>1. \A i \in DOMAIN inbox'[r] : inbox'[r][i].item = x => inbox'[r][i].at <= a
    BY <1>0, <1>2, RouterMessages
  <2>2. CASE Ignores(r)
    BY <1>0, <1>2, <2>1, <2>2 DEF Ignores, Until
  <2>3. CASE Applies(r)
    <3> DEFINE m == inbox[r][1]
               ver == [router[r].ver EXCEPT ![m.item] = m.at]
    <3>1. /\ router'[r].ver = ver /\ router'[r].cache[2] = ver
          /\ router'[r].prev[2] = router[r].ver
      BY <2>3 DEF Applies, Turns
    <3>2. m \in Message /\ (m.item = x => m.at <= a) /\ router[r].ver \in [Items -> Nat]
      BY <1>0, <1>2, <2>3, TakenMessages, RouterFields DEF Applies, Types
    <3>3. ver[x] <= a
      BY <1>0, <1>2, <3>2 DEF Message
    <3> QED
      BY <1>0, <1>2, <2>1, <3>1, <3>3 DEF Until
  <2>4. CASE Stores(r) \/ PutsBack(r) \/ Keeps(r)
    BY <1>0, <1>2, <2>0, <2>1, <2>4 DEF Stores, PutsBack, Keeps, Turns, Neither, Until
  <2>5. CASE Reads(r) \/ Loads(r) \/ Syncs(r)
    BY <1>0, <1>2, <2>0, <2>1, <2>5 DEF Reads, Loads, Syncs, Turns, Neither, Until
  <2>6. CASE Stops(r) \/ Boots(r) \/ GoesOn(r)
    BY <1>0, <1>2, <2>0, <2>1, <2>6 DEF Stops, Boots, GoesOn, Turns, Neither, Until
  <2> QED
    BY <2>2, <2>3, <2>4, <2>5, <2>6 DEF RouterStep
<1> QED
  BY <1>1, <1>2

(* Every step keeps the challenges on their way out. *)
LEMMA ChallengeKept == Types /\ BaseInv /\ ChallengeInv /\ [Next]_vars => ChallengeInv'
<1> DEFINE Calm == Undisturbed({"missed", "write"})
           Good(o) == TokenStamps(o)' /\ (Calm' => Withdrawn(o)')
<1> SUFFICES ASSUME Types, BaseInv, ChallengeInv, [Next]_vars, NEW o \in Orders PROVE Good(o)
  BY DEF ChallengeInv
<1>0. /\ o \in Items /\ o # "route" /\ o # "cert" /\ o # None /\ clock \in Nat
      /\ order[o].at \in Nat /\ order[o].at <= clock /\ order[o].adds \in Nat
      /\ order[o].undone \in SUBSET {"cleanup", "send"}
  <2>1. order[o].adds \in 0 .. MaxAdd /\ MaxAdd \in Nat
    BY OrderTypes, RouterAssumption
  <2> QED
    BY <2>1, OrderTypes, RouterTypes, RouterAssumption, ConstantTypes DEF Types, BaseInv, Clocked
<1>1. TokenStamps(o)
  BY DEF ChallengeInv
<1>2. ASSUME rare \subseteq rare', Calm'
      PROVE  "missed" \notin rare' /\ "write" \notin rare' /\ Withdrawn(o)
  BY <1>2 DEF Undisturbed, ChallengeInv
<1> HIDE DEF Calm
<1>3. ASSUME NEW r \in Routers, Loop(r) \/ Startup(r) \/ Crash(r) PROVE Good(o)
  <2>1. RouterStep(r) /\ order' = order /\ rare \subseteq rare'
    BY <1>3, RouterSteps DEF Types, api
  <2>2. TokenStamps(o)'
    <3>1. \A s \in Routers : Until(s, o, order[o].at) => Until(s, o, order[o].at)'
      <4>1. PICK a \in Nat : a = order[o].at
        BY <1>0
      <4>2. \A s \in Routers : Until(s, o, a) => Until(s, o, a)'
        BY <1>0, <2>1, RouterUntil
      <4> QED
        BY <2>1, <4>1, <4>2 DEF Until
    <3> QED
      BY <1>1, <2>1, <3>1 DEF TokenStamps, Open
  <2>3. ASSUME Calm' PROVE Withdrawn(o)'
    <3>1. Withdrawn(o) /\ "missed" \notin rare' /\ "write" \notin rare'
      BY <1>2, <2>1, <2>3
    <3>2. CASE "cleanup" \in order[o].undone
      BY <2>1, <3>2 DEF Withdrawn
    <3>3. CASE "cleanup" \notin order[o].undone
      <4>1. Taken(o, {None})
        BY <3>1, <3>3 DEF Withdrawn
      <4>2. Taken(o, {None})'
        BY <1>0, <2>1, <3>1, <4>1, RouterTaken
      <4>3. Lasts(o, None) => Lasts(o, None)'
        BY <1>0, <2>1, <3>1, <4>1, RouterLasts
      <4> QED
        BY <2>1, <3>1, <3>3, <4>2, <4>3 DEF Withdrawn
    <3> QED
      BY <3>2, <3>3
  <2> QED
    BY <2>2, <2>3
<1>4. ASSUME Silent, Open(o)' => Open(o) /\ order'[o].at \in Nat /\ order[o].at <= order'[o].at,
             order[o].undone \subseteq order'[o].undone,
             order'[o].adds = 0 => order[o].adds = 0 \/ "cleanup" \in order'[o].undone
      PROVE  Good(o)
  <2>1. router' = router /\ inbox' = inbox /\ rare \subseteq rare'
    BY <1>4 DEF Silent
  <2>2. TokenStamps(o)'
    <3> SUFFICES ASSUME Open(o)' PROVE \A r \in Routers : Until(r, o, order[o].at)'
      BY DEF TokenStamps
    <3>1. PICK a \in Nat, b \in Nat : a = order[o].at /\ b = order'[o].at /\ a <= b
      BY <1>0, <1>4
    <3>2. \A r \in Routers : Until(r, o, a) => Until(r, o, b)'
      BY <1>0, <2>1, <3>1, UntilGrows
    <3>3. \A r \in Routers : Until(r, o, a)
      BY <1>1, <1>4, <3>1 DEF TokenStamps
    <3> QED
      BY <3>1, <3>2, <3>3 DEF Until
  <2>3. ASSUME Calm' PROVE Withdrawn(o)'
    <3>1. Withdrawn(o)
      BY <1>2, <2>1, <2>3
    <3>2. (Taken(o, {None}) => Taken(o, {None})') /\ (Lasts(o, None) => Lasts(o, None)')
      BY <1>4, SilentLasts
    <3> QED
      BY <1>4, <3>1, <3>2 DEF Withdrawn
  <2> QED
    BY <2>2, <2>3
<1>5. ASSUME NEW m \in Message, Announces(m), m.item # o, order'[o].at = order[o].at,
             Open(o)' => Open(o), order'[o].adds = order[o].adds,
             order[o].undone \subseteq order'[o].undone
      PROVE  Good(o)
  <2>1. router' = router /\ rare \subseteq rare'
    BY <1>5 DEF Announces
  <2>2. TokenStamps(o)'
    <3> SUFFICES ASSUME Open(o)' PROVE \A r \in Routers : Until(r, o, order[o].at)'
      BY DEF TokenStamps
    <3>1. PICK a \in Nat : a = order[o].at
      BY <1>0
    <3>2. \A r \in Routers : \A i \in DOMAIN inbox'[r] : inbox'[r][i].item = o =>
            i \in DOMAIN inbox[r] /\ inbox'[r][i] = inbox[r][i]
      BY <1>5, AnnouncedMessages
    <3>3. \A r \in Routers : Until(r, o, a) => Until(r, o, a)'
      BY <1>0, <2>1, <3>1, <3>2, UntilGrows
    <3>4. \A r \in Routers : Until(r, o, a)
      BY <1>1, <1>5, <3>1 DEF TokenStamps
    <3> QED
      BY <1>5, <3>1, <3>3, <3>4 DEF Until
  <2>3. ASSUME Calm' PROVE Withdrawn(o)'
    <3>1. Withdrawn(o)
      BY <1>2, <2>1, <2>3
    <3>2. Taken(o, {None}) => Taken(o, {None})'
      BY <1>5, AnnouncedTaken
    <3>3. Lasts(o, None) => Lasts(o, None)'
      BY <1>5, AnnouncedElse
    <3> QED
      BY <1>5, <3>1, <3>2, <3>3 DEF Withdrawn
  <2> QED
    BY <2>2, <2>3
<1>6. ASSUME NEW second \in {clock, clock + 1}, NotifyRouter(second) PROVE Good(o)
  <2>1. Silent /\ order' = order
    BY <1>6, ApiSteps DEF NotifyRouter
  <2> QED
    BY <1>0, <1>4, <2>1 DEF Open
<1>7. ASSUME NEW m \in outbox, Publish(m) PROVE Good(o)
  <2>1. Announces(m) /\ m \in Message /\ m.item = "route" /\ order' = order
    BY <1>7, ApiSteps DEF Publish
  <2> QED
    BY <1>0, <1>5, <2>1 DEF Open
<1>8. ASSUME NEW p \in Orders, Certify(p), p # o PROVE Good(o)
  <2>1. order'[o] = order[o]
    BY <1>8, CertifySteps
  <2>2. CASE Silent
    BY <1>0, <1>4, <2>1, <2>2 DEF Open
  <2>3. CASE ~Silent
    <3>1. PICK m \in Message : Announces(m) /\ m.item \in {p, "cert"}
      BY <1>8, <2>3, CertifySteps
    <3> QED
      BY <1>0, <1>5, <1>8, <2>1, <3>1 DEF Open
  <2> QED
    BY <2>2, <2>3
<1>9. CASE NewOrder(o) \/ NewOrderBeside(o)
  <2>1. /\ Silent /\ clock' \in {clock, clock + 1} /\ order[o].phase = "new"
        /\ Goes(o, "add", clock', 0, order[o].undone)
    BY <1>9, OrderSteps, OrderMessages
  <2>2. order[o].adds = 0
    BY <2>1, OrderTypes DEF OrdersTyped, OrderOk
  <2> QED
    BY <1>0, <1>4, <2>1, <2>2 DEF Goes, Open
<1>10. CASE (\E r \in Routers : Look(r, o) \/ Validate(r, o)) \/ ValidBefore(o)
  <2>1. /\ Silent
        /\ \/ \E phase \in {"validate", "add", "cleanup"} :
                Goes(o, phase, order[o].at, order[o].adds, order[o].undone)
           \/ Goes(o, "done", 0, 0, order[o].undone \cup {"cleanup"})
    BY <1>10, OrderSteps, OrderMessages
  <2>2. Open(o)
    BY <1>10 DEF Look, Validate, ValidBefore, Open
  <2> QED
    BY <1>0, <1>4, <2>1, <2>2 DEF Goes, Open
<1>11. CASE CleanupFails(o)
  <2>1. PICK phase \in {"record", "done"} : Goes(o, phase, 0, 0, order[o].undone \cup {"cleanup"})
    BY <1>11, OrderSteps
  <2> QED
    BY <1>4, <1>11, <2>1, OrderMessages DEF Goes, Open
<1>12. CASE Record(o) \/ OrderFails(o) \/ ApiCrash
  <2>1. Silent
    BY <1>12, OrderMessages, ApiSteps
  <2>2. order[o].adds # 0 => Left(order[o]) = {"cleanup"} /\ order[o].phase # "record"
    BY <1>0, OrderTypes DEF Left, OrdersTyped, OrderOk
  <2>3. CASE Record(o)
    BY <1>4, <2>1, <2>2, <2>3, OrderSteps DEF Goes, Open, Record
  <2>4. CASE OrderFails(o)
    BY <1>4, <2>1, <2>2, <2>4, OrderSteps DEF Goes, Open
  <2>5. CASE ApiCrash /\ UnderWay(o)
    BY <1>4, <2>1, <2>2, <2>5, CrashSteps DEF Open
  <2>6. CASE ApiCrash /\ ~UnderWay(o)
    BY <1>0, <1>4, <2>1, <2>6, CrashSteps DEF Open
  <2> QED
    BY <1>12, <2>3, <2>4, <2>5, <2>6
<1>13. CASE SendCertificate(o)
  <2>1. /\ Announces(CertMessage(o)) /\ CertMessage(o) \in Message /\ CertMessage(o).item = "cert"
        /\ Goes(o, "done", order[o].at, 0, order[o].undone) /\ order[o].phase = "send"
    BY <1>13, OrderSteps, OrderMessages DEF CertMessage, SendCertificate
  <2>2. order[o].adds = 0
    BY <2>1, OrderTypes DEF OrdersTyped, OrderOk
  <2> QED
    BY <1>0, <1>5, <2>1, <2>2 DEF Goes, Open
<1>14. CASE PublishChallenge(o)
  <2> DEFINE m == Token(o, o, order[o].at)
  <2>1. /\ Announces(m) /\ m \in Message /\ order[o].phase = "add"
        /\ Goes(o, "look", order[o].at, order[o].adds + 1, order[o].undone)
    BY <1>14, OrderSteps, OrderMessages DEF PublishChallenge
  <2>2. m.item = o /\ m.val = o /\ m.at = order[o].at
    BY DEF Token
  <2> HIDE DEF m
  <2>3. router' = router /\ rare \subseteq rare'
    BY <2>1 DEF Announces
  <2>4. TokenStamps(o)'
    <3>1. PICK a \in Nat : a = order[o].at
      BY <1>0
    <3>2. \A r \in Routers : \A i \in DOMAIN inbox'[r] : inbox'[r][i].item = o =>
            \/ i \in DOMAIN inbox[r] /\ inbox'[r][i] = inbox[r][i]
            \/ inbox'[r][i].at <= a
      <4>1. \A r \in Routers : \A i \in DOMAIN inbox'[r] :
              (i \in DOMAIN inbox[r] /\ inbox'[r][i] = inbox[r][i]) \/ inbox'[r][i] = m
        BY <2>1, AnnouncedMessages
      <4>2. m.at <= a
        BY <2>2, <3>1
      <4> QED
        BY <4>1, <4>2
    <3>3. \A r \in Routers : Until(r, o, a) => Until(r, o, a)'
      BY <1>0, <2>3, <3>1, <3>2, UntilGrows
    <3>4. \A r \in Routers : Until(r, o, a)
      BY <1>1, <2>1, <3>1 DEF TokenStamps, Open
    <3> QED
      BY <2>1, <3>1, <3>3, <3>4 DEF Until, TokenStamps, Goes
  <2>5. ASSUME Calm' PROVE Withdrawn(o)'
    <3>1. Withdrawn(o)
      BY <1>2, <2>3, <2>5
    <3>2. Taken(o, {None}) => Taken(o, {None})'
      BY <1>0, <2>1, <2>2, AnnouncedTaken
    <3>3. order'[o].adds # 0 /\ order'[o].undone = order[o].undone
      BY <1>0, <2>1 DEF Goes
    <3> QED
      BY <3>1, <3>2, <3>3 DEF Withdrawn
  <2> QED
    BY <2>4, <2>5
<1>15. CASE Cleanup(o)
  <2> DEFINE m == Token(o, None, clock)
             left == IF order[o].at = clock THEN {"cleanup"} ELSE {}
  <2>1. PICK phase \in {"record", "done"} :
          /\ Announces(m) /\ m \in Message /\ order[o].phase = "cleanup"
          /\ Goes(o, phase, 0, 0, order[o].undone \cup left)
    BY <1>15, OrderSteps, OrderMessages DEF Cleanup
  <2>2. m.item = o /\ m.val = None /\ m.at = clock
    BY DEF Token
  <2> HIDE DEF m
  <2>3. router' = router /\ rare \subseteq rare'
    BY <2>1 DEF Announces
  <2>4. TokenStamps(o)'
    BY <2>1 DEF TokenStamps, Open, Goes
  <2>5. ASSUME Calm', "cleanup" \notin order'[o].undone PROVE Taken(o, {None})' /\ Lasts(o, None)'
    <3>1. Withdrawn(o) /\ "missed" \notin rare' /\ "cleanup" \notin order[o].undone
      BY <1>2, <2>1, <2>3, <2>5 DEF Goes
    <3>2. order[o].at < clock
      BY <1>0, <2>1, <2>5 DEF Goes
    <3>3. \A r \in Routers :
            /\ m.at > router[r].ver[o]
            /\ \A i \in DOMAIN inbox[r] : inbox[r][i].item = o => inbox[r][i].at < m.at
      <4> TAKE r \in Routers
      <4>1. Until(r, o, order[o].at)
        BY <1>1, <2>1 DEF TokenStamps, Open
      <4>2. router[r].ver[o] \in Nat /\ \A i \in DOMAIN inbox[r] : inbox[r][i].at \in Nat
        BY <1>0, RouterFields DEF Message
      <4> QED
        BY <1>0, <2>2, <3>2, <4>1, <4>2 DEF Until
    <3>4. m.at > 0
      BY <1>0, <2>2, <3>2
    <3>5. Taken(o, {None})'
      BY <2>1, <3>1, <3>3, <3>4, AnnouncedTaken DEF Withdrawn
    <3>6. Lasts(o, None)'
      BY <2>1, <2>2, <3>1, AnnouncedLasts
    <3> QED
      BY <3>5, <3>6
  <2> QED
    BY <2>4, <2>5 DEF Withdrawn
<1>16. CASE UNCHANGED vars
  <2>1. Silent /\ order' = order
    BY <1>16 DEF vars, Silent
  <2> QED
    BY <1>0, <1>4, <2>1 DEF Open
<1> HIDE DEF Good
<1>17. ASSUME NEW p \in Orders, Certify(p) PROVE Good(o)
  <2>1. CASE p = o
    BY <1>9, <1>10, <1>11, <1>12, <1>13, <1>14, <1>15, <1>17, <2>1 DEF Certify
  <2> QED
    BY <1>8, <1>17, <2>1
<1> QED
  BY <1>3, <1>6, <1>7, <1>12, <1>16, <1>17 DEF Next, Done

(* A router keeps a certificate on its way in, and what its version of one says. *)
LEMMA RouterCert ==
  ASSUME Types, BaseInv, NEW r \in Routers, RouterStep(r), "missed" \notin rare', "write" \notin rare',
         \A s \in Routers : CertIn(s)
  PROVE  (\A s \in Routers : CertIn(s)') /\ (CertComes => CertComes')
<1> DEFINE c == router[r]
           d == router'[r]
<1>0. /\ "cert" \in Items /\ NoVersions["cert"] = 0 /\ None \notin Orders
      /\ db \in [Items -> Values] /\ c.msg \in Message
      /\ c.ver["cert"] \in Nat /\ c.cache[2]["cert"] \in Nat /\ c.prev[2]["cert"] \in Nat
  BY ConstantTypes, RouterTypes, RouterFields, RouterAssumption DEF Types, NoVersions
<1>1. /\ Writes(r, "cert") => c.msg.val \in Orders
      /\ \A i \in DOMAIN inbox[r] : inbox[r][i].item = "cert" =>
           inbox[r][i].val \in Orders /\ inbox[r][i].at > 0
      /\ c.ver["cert"] > 0 \/ c.cache[2]["cert"] > 0 \/ c.prev[2]["cert"] > 0
           => db["cert"] # None \/ Writes(r, "cert")
  BY DEF CertIn
<1>2. CASE Ignores(r) \/ Applies(r)
  <2> DEFINE m == inbox[r][1]
  <2>1. /\ c.phase = "loop" /\ db' = db /\ 1 \in DOMAIN inbox[r] /\ m \in Message
        /\ \A s \in Routers : s # r => inbox'[s] = inbox[s] /\ router'[s] = router[s]
        /\ \A i \in DOMAIN inbox'[r] : i + 1 \in DOMAIN inbox[r] /\ inbox'[r][i] = inbox[r][i + 1]
        /\ \A i \in DOMAIN inbox[r] : i # 1 =>
             i - 1 \in DOMAIN inbox'[r] /\ inbox'[r][i - 1] = inbox[r][i]
    BY <1>2, TakenMessages, OthersStay DEF Types, Ignores, Applies, Takes
  <2>2. /\ Writes(r, "cert")' => d.msg.val \in Orders
        /\ d.ver["cert"] > 0 \/ d.cache[2]["cert"] > 0 \/ d.prev[2]["cert"] > 0
             => db["cert"] # None \/ Writes(r, "cert")'
        /\ m.item = "cert" => db["cert"] # None \/ Writes(r, "cert")'
    <3>0. ~Writes(r, "cert")
      BY <2>1 DEF Writes
    <3>1. CASE Ignores(r)
      <4>1. d = c /\ m.at <= c.ver[m.item]
        BY <3>1 DEF Ignores
      <4>2. m.item = "cert" => c.ver["cert"] > 0
        BY <1>0, <1>1, <2>1, <4>1 DEF Message
      <4> QED
        BY <1>1, <3>0, <4>1, <4>2 DEF Writes
    <3>2. CASE Applies(r)
      <4> DEFINE ver == [c.ver EXCEPT ![m.item] = m.at]
      <4>1. /\ d.ver = ver /\ d.cache[2] = ver /\ d.prev[2] = c.ver /\ d.msg = m
            /\ d.phase = "write"
        BY <3>2 DEF Applies, Turns
      <4>2. m.item # "cert" => ver["cert"] = c.ver["cert"]
        OBVIOUS
      <4>3. Writes(r, "cert")' <=> m.item = "cert"
        BY <4>1 DEF Writes
      <4>4. m.item = "cert" => m.val \in Orders
        BY <1>1, <2>1
      <4> HIDE DEF ver, m, c, d
      <4>5. CASE m.item = "cert"
        BY <4>1, <4>3, <4>4, <4>5
      <4>6. CASE m.item # "cert"
        BY <1>1, <3>0, <4>1, <4>2, <4>3, <4>6
      <4> QED
        BY <4>5, <4>6
    <3> QED
      BY <1>2, <3>1, <3>2
  <2>3. CertIn(r)'
    BY <1>1, <2>1, <2>2 DEF CertIn
  <2>4. ASSUME NEW s \in Routers, s # r PROVE CertIn(s)'
    BY <2>1, <2>4 DEF CertIn, Writes
  <2>5. ASSUME CertComes PROVE CertComes'
    <3>1. CASE db["cert"] # None
      BY <2>1, <3>1 DEF CertComes
    <3>2. CASE \E s \in Routers : Writes(s, "cert")
      BY <2>1, <3>2 DEF CertComes, Writes
    <3>3. ASSUME NEW s \in Routers, NEW i \in DOMAIN inbox[s], inbox[s][i].item = "cert"
          PROVE  CertComes'
      <4>1. CASE s # r
        BY <2>1, <3>3, <4>1 DEF CertComes
      <4>2. CASE s = r /\ i # 1
        BY <2>1, <3>3, <4>2 DEF CertComes
      <4>3. CASE s = r /\ i = 1
        BY <2>1, <2>2, <3>3, <4>3 DEF CertComes
      <4> QED
        BY <4>1, <4>2, <4>3
    <3> QED
      BY <2>5, <3>1, <3>2, <3>3 DEF CertComes
  <2> QED
    BY <2>3, <2>4, <2>5
<1>3. CASE ~(Ignores(r) \/ Applies(r))
  <2>1. /\ inbox' = inbox /\ ~Writes(r, "cert")' /\ (Stores(r) \/ (~Writes(r, "cert") /\ db' = db))
        /\ \A s \in Routers : s # r => router'[s] = router[s]
    BY <1>0, <1>3, MessagesStay, OthersStay DEF Writes
  <2>2. db["cert"] # None \/ Writes(r, "cert") => db'["cert"] # None
    BY <1>0, <1>1, <2>1 DEF Stores, WriteEnds, Writes
  <2>3. d.ver["cert"] > 0 \/ d.cache[2]["cert"] > 0 \/ d.prev[2]["cert"] > 0
          => c.ver["cert"] > 0 \/ c.cache[2]["cert"] > 0 \/ c.prev[2]["cert"] > 0
    <3>1. CASE Stores(r)
      BY <1>0, <3>1 DEF Stores, Turns, Neither
    <3>2. CASE Reads(r) \/ Loads(r) \/ Syncs(r)
      BY <1>0, <3>2 DEF Reads, Loads, Syncs, Turns, Neither
    <3>3. CASE Stops(r) \/ Boots(r) \/ GoesOn(r)
      BY <1>0, <3>3 DEF Stops, Boots, GoesOn, Turns, Neither
    <3>4. CASE PutsBack(r) \/ Keeps(r)
      BY <3>4 DEF PutsBack, Keeps
    <3> QED
      BY <1>3, <3>1, <3>2, <3>3, <3>4 DEF RouterStep
  <2>4. CertIn(r)'
    BY <1>1, <2>1, <2>2, <2>3 DEF CertIn
  <2>5. ASSUME NEW s \in Routers, s # r PROVE CertIn(s)'
    BY <2>1, <2>2, <2>5 DEF CertIn, Writes
  <2>6. CertComes => CertComes'
    BY <2>1, <2>2 DEF CertComes, Writes
  <2> QED
    BY <2>4, <2>5, <2>6
<1> QED
  BY <1>2, <1>3

(* Steps that send no certificate. *)
LEMMA ApartCert ==
  ASSUME Types, UNCHANGED <<db, router>>,
         \A r \in Routers :
           /\ \A i \in DOMAIN inbox[r] : i \in DOMAIN inbox'[r] /\ inbox'[r][i] = inbox[r][i]
           /\ \A i \in DOMAIN inbox'[r] : inbox'[r][i].item = "cert" =>
                i \in DOMAIN inbox[r] /\ inbox'[r][i] = inbox[r][i]
  PROVE  /\ \A r \in Routers : CertIn(r) => CertIn(r)'
         /\ CertComes => CertComes'
         /\ CertStamps /\ clock \in Nat \ {0} /\ clock' \in {clock, clock + 1} => CertStamps'
<1>1. \A r \in Routers : CertIn(r) => CertIn(r)'
  BY DEF CertIn, Writes
<1>2. CertComes => CertComes'
  BY DEF CertComes, Writes
<1>3. ASSUME CertStamps, clock \in Nat \ {0}, clock' \in {clock, clock + 1} PROVE CertStamps'
  <2>1. PICK a \in Nat, b \in Nat : a = clock - 1 /\ b = clock' - 1 /\ a <= b
    <3> DEFINE u == clock - 1
               v == clock' - 1
    <3>1. u \in Nat /\ v \in Nat /\ u <= v
      <4>1. clock \in Nat /\ clock > 0
        BY <1>3
      <4>2. CASE clock' = clock
        BY <4>1, <4>2
      <4>3. CASE clock' = clock + 1
        BY <4>1, <4>3
      <4> QED
        BY <1>3, <4>2, <4>3
    <3> HIDE DEF u, v
    <3>2. \E a \in Nat, b \in Nat : a = u /\ b = v /\ a <= b
      BY <3>1
    <3>3. u = clock - 1 /\ v = clock' - 1
      BY DEF u, v
    <3> QED
      BY <3>2, <3>3
  <2>2. \A r \in Routers : Until(r, "cert", a) => Until(r, "cert", b)'
    BY <2>1, UntilGrows, ConstantTypes
  <2> QED
    BY <1>3, <2>1, <2>2 DEF CertStamps, Until
<1> QED
  BY <1>1, <1>2, <1>3

(* Every step keeps the recorded certificate, or another one, on its way. *)
LEMMA CertKept == Types /\ BaseInv /\ CertInv /\ [Next]_vars => CertInv'
<1> DEFINE Alone == "together" \notin rare
           Good == SomeCert' /\ (Alone' => LastCert')
<1> SUFFICES ASSUME Types, BaseInv, CertInv, [Next]_vars, Undisturbed({"missed", "write"})'
             PROVE  Good
  BY DEF CertInv
<1>0. /\ clock \in Nat \ {0} /\ "cert" \in Items /\ "cert" \notin Orders /\ None \notin Orders
      /\ recorded \in Orders \cup {None} /\ Orders \subseteq Values /\ clock - 1 \in Nat
      /\ Orders \subseteq Items
  <2>1. clock \in Nat \ {0}
    BY DEF BaseInv, Clocked
  <2>2. recorded \in Orders \cup {None}
    BY DEF Types, TypeOK
  <2>3. clock - 1 \in Nat
    BY <2>1
  <2> QED
    BY <2>1, <2>2, <2>3, RouterAssumption, ConstantTypes
<1>1. ASSUME rare \subseteq rare'
      PROVE  /\ "missed" \notin rare' /\ "write" \notin rare' /\ SomeCert
             /\ Alone' => Alone /\ LastCert
  BY <1>1 DEF Undisturbed, CertInv
<1>2. ASSUME NEW r \in Routers, Loop(r) \/ Startup(r) \/ Crash(r) PROVE Good
  <2>1. /\ RouterStep(r) /\ rare \subseteq rare'
        /\ order' = order /\ recorded' = recorded /\ clock' = clock
    BY <1>2, RouterSteps DEF Types, api
  <2>2. SomeCert'
    BY <1>1, <2>1, RouterCert DEF SomeCert, Published
  <2>3. ASSUME Alone' PROVE LastCert'
    <3>1. LastCert
      BY <1>1, <2>1, <2>3
    <3>2. Taken("cert", Values)'
      BY <1>0, <1>1, <2>1, <3>1, RouterTaken DEF LastCert
    <3>3. ASSUME NEW o \in Orders, Published(o)' PROVE Lasts("cert", o)'
      <4>1. Published(o) /\ o \in Values
        BY <1>0, <2>1, <3>3 DEF Published
      <4> QED
        BY <1>0, <1>1, <2>1, <3>1, <4>1, RouterLasts DEF LastCert
    <3>4. CertStamps => CertStamps'
      <4>1. PICK a \in Nat : a = clock - 1
        BY <1>0
      <4>2. \A s \in Routers : Until(s, "cert", a) => Until(s, "cert", a)'
        BY <1>0, <2>1, RouterUntil
      <4> QED
        BY <2>1, <4>1, <4>2 DEF CertStamps, Until
    <3> QED
      BY <2>1, <3>1, <3>2, <3>3, <3>4 DEF LastCert, UnderWay
  <2> QED
    BY <2>2, <2>3
<1>3. ASSUME rare \subseteq rare', UNCHANGED <<db, router>>, clock' \in {clock, clock + 1},
             \A r \in Routers :
               /\ \A i \in DOMAIN inbox[r] : i \in DOMAIN inbox'[r] /\ inbox'[r][i] = inbox[r][i]
               /\ \A i \in DOMAIN inbox'[r] : inbox'[r][i].item = "cert" =>
                    i \in DOMAIN inbox[r] /\ inbox'[r][i] = inbox[r][i],
             Taken("cert", Values) => Taken("cert", Values)',
             \A o \in Orders : Lasts("cert", o) => Lasts("cert", o)',
             \A o \in Orders : Published(o)' => Published(o)
      PROVE  /\ SomeCert' /\ (CertStamps => CertStamps')
             /\ Alone' => LastCert /\ Taken("cert", Values)'
                          /\ \A o \in Orders : Published(o)' => Lasts("cert", o)'
  <2>1. /\ \A r \in Routers : CertIn(r) => CertIn(r)'
        /\ CertComes => CertComes'
        /\ CertStamps => CertStamps'
    BY <1>0, <1>3, ApartCert
  <2>2. SomeCert'
    BY <1>1, <1>3, <2>1 DEF SomeCert
  <2> QED
    BY <1>1, <1>3, <2>1, <2>2 DEF LastCert
<1>4. ASSUME Silent, clock' \in {clock, clock + 1}, \A o \in Orders : Published(o)' => Published(o)
      PROVE  /\ SomeCert' /\ (CertStamps => CertStamps')
             /\ Alone' => LastCert /\ Taken("cert", Values)'
                          /\ \A o \in Orders : Published(o)' => Lasts("cert", o)'
  <2>1. /\ Taken("cert", Values) => Taken("cert", Values)'
        /\ \A o \in Orders : Lasts("cert", o) => Lasts("cert", o)'
    BY <1>4, SilentLasts
  <2> QED
    BY <1>3, <1>4, <2>1 DEF Silent
<1>5. ASSUME NEW m \in Message, Announces(m), m.item # "cert", clock' \in {clock, clock + 1},
             \A o \in Orders : Published(o)' => Published(o)
      PROVE  /\ SomeCert' /\ (CertStamps => CertStamps')
             /\ Alone' => LastCert /\ Taken("cert", Values)'
                          /\ \A o \in Orders : Published(o)' => Lasts("cert", o)'
  <2>1. /\ Taken("cert", Values) => Taken("cert", Values)'
        /\ \A o \in Orders : Lasts("cert", o) => Lasts("cert", o)'
    BY <1>5, AnnouncedTaken, AnnouncedElse
  <2>2. \A r \in Routers :
          /\ \A i \in DOMAIN inbox[r] : i \in DOMAIN inbox'[r] /\ inbox'[r][i] = inbox[r][i]
          /\ \A i \in DOMAIN inbox'[r] : inbox'[r][i].item = "cert" =>
               i \in DOMAIN inbox[r] /\ inbox'[r][i] = inbox[r][i]
    BY <1>5, AnnouncedMessages
  <2> QED
    BY <1>3, <1>5, <2>1, <2>2 DEF Announces
<1> DEFINE Rest == /\ SomeCert' /\ (CertStamps => CertStamps')
                   /\ Alone' => LastCert /\ Taken("cert", Values)'
                                /\ \A o \in Orders : Published(o)' => Lasts("cert", o)'
<1> HIDE DEF Alone
<1>6. ASSUME Rest, recorded' = recorded,
             \A o \in Orders : UnderWay(o)' => UnderWay(o),
             \A o \in Orders : order'[o].phase = "send" => order[o].phase = "send",
             \A o \in Orders : order[o].phase \in {"send", "done"} => order'[o].phase \in {"send", "done"}
      PROVE  Good
  <2>1. ASSUME Alone' PROVE LastCert'
    <3>1. /\ LastCert /\ Taken("cert", Values)' /\ (CertStamps => CertStamps')
          /\ \A o \in Orders : Published(o)' => Lasts("cert", o)'
      BY <1>6, <2>1
    <3>2. \A o, p \in Orders : UnderWay(o)' /\ UnderWay(p)' => o = p
      BY <1>6, <3>1 DEF LastCert
    <3>3. \A o \in Orders : UnderWay(o)' => CertStamps'
      BY <1>6, <3>1 DEF LastCert
    <3>4. /\ \A o \in Orders : order'[o].phase = "send" => o = recorded'
          /\ \A o \in Orders : o = recorded' => order'[o].phase \in {"send", "done"}
          /\ recorded' = None => CertStamps'
      BY <1>6, <3>1 DEF LastCert
    <3> QED
      BY <3>1, <3>2, <3>3, <3>4 DEF LastCert
  <2> QED
    BY <1>6, <2>1
<1>7. ASSUME NEW second \in {clock, clock + 1}, NotifyRouter(second) PROVE Good
  <2>1. Silent /\ order' = order /\ recorded' = recorded /\ clock' \in {clock, clock + 1}
    BY <1>7, ApiSteps DEF NotifyRouter
  <2>2. \A o \in Orders : Published(o)' = Published(o) /\ UnderWay(o)' = UnderWay(o)
    BY <2>1 DEF Published, UnderWay
  <2>3. Rest
    BY <1>4, <2>1, <2>2
  <2> QED
    BY <1>6, <2>1, <2>2, <2>3
<1>8. ASSUME NEW m \in outbox, Publish(m) PROVE Good
  <2>1. /\ Announces(m) /\ m \in Message /\ m.item = "route" /\ order' = order
        /\ recorded' = recorded /\ clock' = clock
    BY <1>8, ApiSteps DEF Publish
  <2>2. \A o \in Orders : Published(o)' = Published(o) /\ UnderWay(o)' = UnderWay(o)
    BY <2>1 DEF Published, UnderWay
  <2>3. Rest
    BY <1>5, <2>1, <2>2
  <2> QED
    BY <1>6, <2>1, <2>2, <2>3
<1>9. CASE ApiCrash
  <2>1. Silent /\ recorded' = recorded /\ clock' \in {clock, clock + 1}
    BY <1>9, ApiSteps DEF ApiCrash
  <2>2. ASSUME NEW o \in Orders
        PROVE  /\ Published(o)' => Published(o)
               /\ UnderWay(o)' => UnderWay(o)
               /\ order'[o].phase = "send" => order[o].phase = "send"
               /\ order[o].phase \in {"send", "done"} => order'[o].phase \in {"send", "done"}
    <3>1. CASE UnderWay(o)
      BY <1>9, <2>1, <3>1, CrashSteps DEF Published, UnderWay, Left
    <3>2. CASE ~UnderWay(o)
      BY <1>9, <2>1, <3>2, CrashSteps DEF Published, UnderWay
    <3> QED
      BY <3>1, <3>2
  <2>3. Rest
    BY <1>4, <2>1, <2>2
  <2> QED
    BY <1>6, <2>1, <2>2, <2>3
<1>10. ASSUME NEW o \in Orders, NEW phase \in OrderPhases, NEW at, NEW adds, NEW undone,
              Goes(o, phase, at, adds, undone), recorded' = recorded,
              order[o].undone \subseteq undone, UnderWay(o),
              phase \notin {"new", "send"},
              order[o].phase = "send" => "send" \in undone /\ phase = "done"
       PROVE  \A p \in Orders :
                /\ Published(p)' => Published(p)
                /\ UnderWay(p)' => UnderWay(p)
                /\ order'[p].phase = "send" => order[p].phase = "send"
                /\ order[p].phase \in {"send", "done"} => order'[p].phase \in {"send", "done"}
  <2> TAKE p \in Orders
  <2>1. CASE p # o
    BY <1>10, <2>1 DEF Goes, Published, UnderWay
  <2>2. CASE p = o
    BY <1>10, <2>2 DEF Goes, Published, UnderWay
  <2> QED
    BY <2>1, <2>2
<1>11. ASSUME NEW o \in Orders, NewOrder(o) \/ NewOrderBeside(o) PROVE Good
  <2>1. /\ Silent /\ clock' \in {clock, clock + 1} /\ order[o].phase = "new"
        /\ Goes(o, "add", clock', 0, order[o].undone) /\ recorded' = recorded
    BY <1>11, OrderSteps, OrderMessages DEF NewOrder, NewOrderBeside, Start
  <2>2. Published(o)' => Published(o)
    BY <2>1 DEF Published, Goes
  <2>3. \A p \in Orders : p # o => order'[p] = order[p]
    BY <2>1 DEF Goes
  <2>4. \A p \in Orders : Published(p)' => Published(p)
    BY <2>1, <2>2, <2>3 DEF Published
  <2>5. Rest
    BY <1>4, <2>1, <2>4
  <2>6. CASE NewOrderBeside(o)
    BY <2>5, <2>6 DEF NewOrderBeside, Rare, Alone
  <2>7. CASE NewOrder(o)
    <3> SUFFICES ASSUME Alone' PROVE LastCert'
      BY <2>5
    <3>1. /\ LastCert /\ Taken("cert", Values)'
          /\ \A p \in Orders : Published(p)' => Lasts("cert", p)'
      BY <2>5
    <3>2. \A p \in Orders : ~UnderWay(p)
      BY <2>7 DEF NewOrder
    <3>3. order'[o].phase = "add" /\ \A p \in Orders : UnderWay(p)' => p = o
      BY <2>1, <2>3, <3>2 DEF Goes, UnderWay
    <3>4. CertStamps'
      <4>1. CASE recorded = None
        BY <2>5, <3>1, <4>1 DEF LastCert
      <4>2. CASE recorded # None
        <5>1. clock' = clock + 1 /\ router' = router /\ inbox' = inbox
          BY <2>1, <2>7, <4>2 DEF NewOrder, Start, Silent
        <5>2. \A r \in Routers : Until(r, "cert", clock)
          BY <1>0 DEF BaseInv, Clocked, Until
        <5>3. clock' - 1 = clock
          BY <1>0, <5>1
        <5> QED
          BY <5>1, <5>2, <5>3 DEF CertStamps, Until
      <4> QED
        BY <4>1, <4>2
    <3>5. /\ \A p \in Orders : order'[p].phase = "send" => p = recorded'
          /\ \A p \in Orders : p = recorded' => order'[p].phase \in {"send", "done"}
      BY <2>1, <2>3, <3>1, <3>3 DEF LastCert
    <3> QED
      BY <3>1, <3>3, <3>4, <3>5 DEF LastCert
  <2> QED
    BY <1>11, <2>6, <2>7
<1>12. ASSUME NEW o \in Orders,
              (\E r \in Routers : Look(r, o) \/ Validate(r, o)) \/ ValidBefore(o)
       PROVE  Good
  <2>1. /\ Silent /\ clock' \in {clock, clock + 1} /\ recorded' = recorded
        /\ UnderWay(o) /\ order[o].phase # "send"
    BY <1>12, OrderMessages DEF Look, Validate, ValidBefore, UnderWay
  <2>2. PICK phase \in {"validate", "add", "cleanup", "done"} : \E at, adds, undone :
          Goes(o, phase, at, adds, undone) /\ order[o].undone \subseteq undone
    <3>1. \/ \E phase \in {"validate", "add", "cleanup"} :
               Goes(o, phase, order[o].at, order[o].adds, order[o].undone)
          \/ Goes(o, "done", 0, 0, order[o].undone \cup {"cleanup"})
      BY <1>12, OrderSteps
    <3>2. order[o].undone \subseteq order[o].undone \cup {"cleanup"}
      OBVIOUS
    <3> QED
      BY <3>1, <3>2
  <2>3. PICK at, adds, undone :
          Goes(o, phase, at, adds, undone) /\ order[o].undone \subseteq undone
    BY <2>2
  <2>4. phase \in OrderPhases /\ phase \notin {"new", "send"}
    BY DEF OrderPhases
  <2>5. \A p \in Orders :
          /\ Published(p)' => Published(p)
          /\ UnderWay(p)' => UnderWay(p)
          /\ order'[p].phase = "send" => order[p].phase = "send"
          /\ order[p].phase \in {"send", "done"} => order'[p].phase \in {"send", "done"}
    BY <1>10, <2>1, <2>3, <2>4
  <2>6. Rest
    BY <1>4, <2>1, <2>5
  <2> QED
    BY <1>6, <2>1, <2>5, <2>6
<1>13. ASSUME NEW o \in Orders, CleanupFails(o) \/ OrderFails(o) PROVE Good
  <2>1. /\ Silent /\ clock' \in {clock, clock + 1} /\ recorded' = recorded /\ UnderWay(o)
    BY <1>13, OrderMessages DEF CleanupFails, OrderFails, UnderWay
  <2>2. PICK phase \in {"record", "done"} : \E at, adds, undone :
          /\ Goes(o, phase, at, adds, undone) /\ order[o].undone \subseteq undone
          /\ order[o].phase = "send" => "send" \in undone /\ phase = "done"
    <3>1. CASE CleanupFails(o)
      <4>1. PICK phase \in {"record", "done"} :
              Goes(o, phase, 0, 0, order[o].undone \cup {"cleanup"})
        BY <3>1, OrderSteps
      <4>2. order[o].phase # "send"
        BY <3>1 DEF CleanupFails
      <4>3. order[o].undone \subseteq order[o].undone \cup {"cleanup"}
        OBVIOUS
      <4> QED
        BY <4>1, <4>2, <4>3
    <3>2. CASE OrderFails(o)
      <4>1. Goes(o, "done", 0, 0, order[o].undone \cup Left(order[o]))
        BY <3>2, OrderSteps
      <4>2. /\ order[o].undone \subseteq order[o].undone \cup Left(order[o])
            /\ order[o].phase = "send" => "send" \in order[o].undone \cup Left(order[o])
        BY DEF Left
      <4> QED
        BY <4>1, <4>2
    <3> QED
      BY <1>13, <3>1, <3>2
  <2>3. PICK at, adds, undone :
          /\ Goes(o, phase, at, adds, undone) /\ order[o].undone \subseteq undone
          /\ order[o].phase = "send" => "send" \in undone /\ phase = "done"
    BY <2>2
  <2>4. phase \in OrderPhases /\ phase \notin {"new", "send"}
    BY DEF OrderPhases
  <2>5. \A p \in Orders :
          /\ Published(p)' => Published(p)
          /\ UnderWay(p)' => UnderWay(p)
          /\ order'[p].phase = "send" => order[p].phase = "send"
          /\ order[p].phase \in {"send", "done"} => order'[p].phase \in {"send", "done"}
    BY <1>10, <2>1, <2>3, <2>4
  <2>6. Rest
    BY <1>4, <2>1, <2>5
  <2> QED
    BY <1>6, <2>1, <2>5, <2>6
<1>14. ASSUME NEW o \in Orders, PublishChallenge(o) \/ Cleanup(o) PROVE Good
  <2>1. PICK m \in Message : Announces(m) /\ m.item = o
    BY <1>14, OrderMessages DEF Token
  <2>2. /\ clock' \in {clock, clock + 1} /\ recorded' = recorded
        /\ UnderWay(o) /\ order[o].phase # "send"
    BY <1>14, OrderMessages DEF PublishChallenge, Cleanup, UnderWay
  <2>3. PICK phase \in {"look", "record", "done"} : \E at, adds, undone :
          Goes(o, phase, at, adds, undone) /\ order[o].undone \subseteq undone
    <3> DEFINE left == IF order[o].at = clock THEN {"cleanup"} ELSE {}
    <3>1. \/ Goes(o, "look", order[o].at, order[o].adds + 1, order[o].undone)
          \/ \E phase \in {"record", "done"} : Goes(o, phase, 0, 0, order[o].undone \cup left)
      BY <1>14, OrderSteps
    <3>2. order[o].undone \subseteq order[o].undone \cup left
      OBVIOUS
    <3> HIDE DEF left
    <3> QED
      BY <3>1, <3>2
  <2>4. PICK at, adds, undone :
          Goes(o, phase, at, adds, undone) /\ order[o].undone \subseteq undone
    BY <2>3
  <2>5. phase \in OrderPhases /\ phase \notin {"new", "send"}
    BY DEF OrderPhases
  <2>6. \A p \in Orders :
          /\ Published(p)' => Published(p)
          /\ UnderWay(p)' => UnderWay(p)
          /\ order'[p].phase = "send" => order[p].phase = "send"
          /\ order[p].phase \in {"send", "done"} => order'[p].phase \in {"send", "done"}
    BY <1>10, <2>2, <2>4, <2>5
  <2>7. m.item # "cert"
    BY <1>0, <2>1
  <2>8. Rest
    BY <1>5, <2>1, <2>2, <2>6, <2>7
  <2> QED
    BY <1>6, <2>2, <2>6, <2>8
<1>15. ASSUME NEW o \in Orders, Record(o) PROVE Good
  <2>1. /\ Silent /\ clock' \in {clock, clock + 1} /\ recorded' = o /\ order[o].phase = "record"
        /\ Goes(o, "send", order[o].at, 0, order[o].undone)
    BY <1>15, OrderSteps, OrderMessages DEF Record
  <2>2. \A p \in Orders : ~Published(p)'
    BY <2>1 DEF Published, Goes
  <2>3. Rest
    BY <1>4, <2>1, <2>2
  <2> SUFFICES ASSUME Alone' PROVE LastCert'
    BY <2>3
  <2>4. LastCert /\ Taken("cert", Values)' /\ (CertStamps => CertStamps')
    BY <2>3
  <2>5. UnderWay(o) /\ \A p \in Orders : UnderWay(p) => p = o
    BY <2>1, <2>4 DEF LastCert, UnderWay
  <2>6. \A p \in Orders : UnderWay(p)' => p = o
    BY <2>1, <2>5 DEF Goes, UnderWay
  <2>7. CertStamps'
    BY <2>4, <2>5 DEF LastCert
  <2>8. \A p \in Orders : order'[p].phase = "send" => p = o
    BY <2>6 DEF UnderWay
  <2>9. order'[o].phase = "send" /\ recorded' # None
    BY <1>0, <2>1 DEF Goes
  <2> QED
    BY <2>1, <2>2, <2>4, <2>6, <2>7, <2>8, <2>9 DEF LastCert
<1>16. ASSUME NEW o \in Orders, SendCertificate(o) PROVE Good
  <2> DEFINE m == CertMessage(o)
  <2>1. /\ Announces(m) /\ m \in Message /\ clock' = clock /\ recorded' = recorded
        /\ Goes(o, "done", order[o].at, 0, order[o].undone) /\ order[o].phase = "send"
    BY <1>16, OrderSteps, OrderMessages DEF SendCertificate
  <2>2. m.item = "cert" /\ m.val = o /\ m.at = clock
    BY DEF CertMessage
  <2> HIDE DEF m
  <2>3. /\ rare \subseteq rare' /\ router' = router /\ db' = db /\ "missed" \notin rare'
        /\ SomeCert
    BY <1>1, <2>1 DEF Announces
  <2>4. \A r \in Routers : \A i \in DOMAIN inbox'[r] :
          \/ i \in DOMAIN inbox[r] /\ inbox'[r][i] = inbox[r][i]
          \/ inbox'[r][i] = m
    BY <2>1, AnnouncedMessages
  <2>5. \A r \in Routers : CertIn(r)'
    BY <1>0, <2>2, <2>3, <2>4 DEF SomeCert, CertIn, Writes
  <2>6. CertComes'
    <3>1. PICK r \in Routers : Subscribed(r)
      BY <2>1, <2>3, RouterAssumption DEF Announces
    <3>2. \E n \in DOMAIN inbox'[r] : inbox'[r][n] = m
      BY <2>1, <3>1, AnnouncedMessages
    <3> QED
      BY <2>2, <3>2 DEF CertComes
  <2>7. ASSUME Alone' PROVE LastCert'
    <3>1. LastCert
      BY <1>1, <2>3, <2>7
    <3>2. CertStamps /\ o = recorded /\ \A p \in Orders : UnderWay(p) => p = o
      BY <2>1, <3>1 DEF LastCert, UnderWay
    <3>3. Taken("cert", Values)'
      <4>1. /\ m.at > 0
            /\ \A r \in Routers :
                 /\ m.at > router[r].ver["cert"]
                 /\ \A i \in DOMAIN inbox[r] : inbox[r][i].item = "cert" => inbox[r][i].at < m.at
        <5>1. \A r \in Routers : router[r].ver["cert"] \in Nat
                                 /\ \A i \in DOMAIN inbox[r] : inbox[r][i].at \in Nat
          BY <1>0, RouterFields DEF Message
        <5> QED
          BY <1>0, <2>2, <3>2, <5>1 DEF CertStamps, Until
      <4> QED
        BY <2>1, <3>1, <4>1, AnnouncedTaken DEF LastCert
    <3>4. Lasts("cert", o)'
      BY <2>1, <2>2, <2>3, AnnouncedLasts
    <3>5. \A p \in Orders : ~UnderWay(p)' /\ order'[p].phase # "send"
      BY <2>1, <3>2 DEF Goes, UnderWay
    <3>6. \A p \in Orders : Published(p)' => p = o
      BY <2>1, <3>2 DEF Published
    <3>7. order'[o].phase = "done" /\ recorded' # None /\ recorded' = o
      BY <1>0, <2>1, <3>2 DEF Goes
    <3> QED
      BY <3>3, <3>4, <3>5, <3>6, <3>7 DEF LastCert
  <2> QED
    BY <2>5, <2>6, <2>7 DEF SomeCert
<1>17. CASE UNCHANGED vars
  <2>1. Silent /\ order' = order /\ recorded' = recorded /\ clock' \in {clock, clock + 1}
    BY <1>17 DEF vars, Silent
  <2>2. \A o \in Orders : Published(o)' = Published(o) /\ UnderWay(o)' = UnderWay(o)
    BY <2>1 DEF Published, UnderWay
  <2>3. Rest
    BY <1>4, <2>1, <2>2
  <2> QED
    BY <1>6, <2>1, <2>2, <2>3
<1> HIDE DEF Good
<1>18. ASSUME NEW o \in Orders, Certify(o) PROVE Good
  BY <1>11, <1>12, <1>13, <1>14, <1>15, <1>16, <1>18 DEF Certify
<1> QED
  BY <1>2, <1>7, <1>8, <1>9, <1>17, <1>18 DEF Next, Done


(*------------------------- The last list of targets ----------------------*)
(* The types of the updates, and where they are found. *)
LEMMA MadeTyped ==
  ASSUME Types
  PROVE  made \in Nat /\ outbox \subseteq Message /\ \A m \in outbox : m.item = "route"
<1>1. made \in 0 .. MaxRoute /\ outbox \subseteq [item : {"route"}, val : Routes, at : Nat]
  BY DEF Types, TypeOK
<1> QED
  BY <1>1, ConstantTypes DEF Message

(* All there is of routes are updates that were made. *)
LEMMA UpdatesTyped ==
  ASSUME Types
  PROVE  /\ outbox \subseteq Updates /\ Updates \subseteq Message
         /\ \A m \in outbox : m = RouteMsg(m.val, m.at)
         /\ \A r \in Routers : Mail(r) \cup Served(r) \cup Cached(r) \subseteq Updates
         /\ \A r \in Routers : \A i \in DOMAIN inbox[r] :
              inbox[r][i].item = "route" =>
                inbox[r][i] \in Mail(r) /\ inbox[r][i] = RouteMsg(inbox[r][i].val, inbox[r][i].at)
<1>1. outbox \subseteq Message /\ \A m \in outbox : m = RouteMsg(m.val, m.at)
  BY ConstantTypes DEF Types, TypeOK, Message, RouteMsg
<1>2. ASSUME NEW r \in Routers
      PROVE  Mail(r) \subseteq Message /\ Served(r) \subseteq Message /\ Cached(r) \subseteq Message
  <2>1. Mail(r) \subseteq Message
    BY RouterFields DEF Mail
  <2>2. Served(r) \subseteq Message
    BY RouterFields, ConstantTypes DEF Served, RouteMsg, Message
  <2>3. Cached(r) \subseteq Message
    BY RouterFields, ConstantTypes DEF Cached, RouteMsg, Message
  <2> QED
    BY <2>1, <2>2, <2>3
<1>3. Updates \subseteq Message
  BY <1>1, <1>2 DEF Updates
<1>4. ASSUME NEW r \in Routers, NEW i \in DOMAIN inbox[r], inbox[r][i].item = "route"
      PROVE  inbox[r][i] \in Mail(r) /\ inbox[r][i] = RouteMsg(inbox[r][i].val, inbox[r][i].at)
  BY <1>4, RouterFields DEF Mail, Message, RouteMsg
<1> QED
  BY <1>1, <1>3, <1>4 DEF Updates

(* A router makes no update of its own. *)
LEMMA RouterUpdates ==
  ASSUME Types, BaseInv, NEW r \in Routers, RouterStep(r), outbox' = outbox,
         "write" \notin rare', "missed" \notin rare'
  PROVE  Updates' \subseteq Updates
<1>0. /\ "route" \in Items /\ NoVersions["route"] = 0
      /\ router[r].mem \in [Items -> Values] /\ router[r].ver \in [Items -> Nat]
  BY ConstantTypes, RouterFields DEF NoVersions
<1>1. ASSUME NEW s \in Routers PROVE Mail(s)' \subseteq Mail(s)
  BY <1>1, RouterMessages DEF Mail
<1>2. ASSUME NEW s \in Routers, s # r PROVE Served(s)' = Served(s) /\ Cached(s)' = Cached(s)
  BY <1>2, OthersStay DEF Served, Cached
<1>3. Served(r)' \cup Cached(r)' \subseteq Mail(r) \cup Served(r) \cup Cached(r)
  <2>1. CASE Ignores(r)
    BY <2>1 DEF Ignores, Served, Cached
  <2>2. CASE Applies(r)
    <3> DEFINE m == inbox[r][1]
               mem == [router[r].mem EXCEPT ![m.item] = m.val]
               ver == [router[r].ver EXCEPT ![m.item] = m.at]
    <3>1. /\ router'[r].mem = mem /\ router'[r].ver = ver
          /\ router'[r].cache[1] = mem /\ router'[r].cache[2] = ver
      BY <2>2 DEF Applies, Turns
    <3>2. 1 \in DOMAIN inbox[r] /\ m \in Message
      BY <2>2, TakenMessages DEF Applies, Types
    <3>3. CASE m.item = "route"
      <4>1. m \in Mail(r) /\ m = RouteMsg(m.val, m.at)
        BY <3>2, <3>3, UpdatesTyped
      <4>2. mem["route"] = m.val /\ ver["route"] = m.at
        BY <1>0, <3>3
      <4> HIDE DEF m, mem, ver
      <4> QED
        BY <3>1, <4>1, <4>2 DEF Served, Cached
    <3>4. CASE m.item # "route"
      <4>1. mem["route"] = router[r].mem["route"] /\ ver["route"] = router[r].ver["route"]
        BY <1>0, <3>4
      <4> HIDE DEF m, mem, ver
      <4> QED
        BY <3>1, <4>1 DEF Served, Cached
    <3> QED
      BY <3>3, <3>4
  <2>3. CASE Stores(r) \/ Stops(r) \/ Boots(r) \/ GoesOn(r)
    BY <1>0, <2>3 DEF Stores, Stops, Boots, GoesOn, Turns, Served, Cached
  <2>4. CASE Reads(r) \/ Loads(r) \/ Syncs(r)
    BY <1>0, <2>4 DEF Reads, Loads, Syncs, Turns, Served, Cached, BaseInv, Coherent
  <2> QED
    BY <2>1, <2>2, <2>3, <2>4 DEF RouterStep, PutsBack, Keeps
<1> QED
  BY <1>1, <1>2, <1>3 DEF Updates

(* The order of the updates stays as long as no new one is made. *)
LEMMA OrderedKept ==
  ASSUME Types, Ordered, Updates' \subseteq Updates, made' = made, clock \in Nat,
         clock' \in {clock, clock + 1}
  PROVE  Ordered'
<1>1. \A m \in Updates : m.at \in Nat /\ m.at <= clock
  BY UpdatesTyped DEF Message, Ordered
<1>2. \A m \in Updates : m.at <= clock'
  BY <1>1
<1> QED
  BY <1>2 DEF Ordered

(* What a router does to its place in the order. *)
LEMMA RouterBehind ==
  ASSUME Types, BaseInv, NEW r \in Routers, RouterStep(r), made' = made,
         "write" \notin rare', "missed" \notin rare', "rewound" \notin rare',
         db["route"] \in 0 .. made, Ordered, \A s \in Routers : Behind(router[s])
  PROVE  /\ db'["route"] \in 0 .. made /\ db["route"] <= db'["route"]
         /\ \A s \in Routers : Behind(router[s])'
<1> DEFINE c == router[r]
<1>0. /\ "route" \in Items /\ made \in Nat /\ db \in [Items -> Values] /\ Empty["route"] = 0
      /\ c.mem \in [Items -> Values] /\ Behind(c) /\ c.msg \in Message
      /\ c.cache = <<c.cache[1], c.cache[2]>>
  <2>1. /\ c \in RouterRecord /\ c.mem \in [Items -> Values] /\ c.msg \in Message
        /\ db \in [Items -> Values]
    BY RouterFields, RouterTypes DEF Types
  <2>2. c.cache = <<c.cache[1], c.cache[2]>>
    BY <2>1 DEF RouterRecord
  <2>3. "route" \in Items /\ made \in Nat /\ Empty["route"] = 0
    BY ConstantTypes, MadeTyped DEF Empty
  <2> QED
    BY <2>1, <2>2, <2>3
<1>1. /\ db'["route"] \in 0 .. made /\ db["route"] <= db'["route"]
      /\ db'["route"] = IF Stores(r) /\ c.msg.item = "route" THEN c.msg.val ELSE db["route"]
  <2>1. CASE Stores(r)
    <3>1. c.phase = "write" /\ db' = [db EXCEPT ![c.msg.item] = c.msg.val]
      BY <2>1 DEF Stores, WriteEnds
    <3>2. CASE c.msg.item = "route"
      <4>1. c.msg.val \in 1 .. made /\ ~ (c.msg.val < db["route"])
        BY <1>0, <2>1, <3>1, <3>2 DEF Stores, Behind
      <4>2. db'["route"] = c.msg.val
        BY <1>0, <3>1, <3>2
      <4> QED
        BY <1>0, <2>1, <3>2, <4>1, <4>2
    <3>3. CASE c.msg.item # "route"
      BY <1>0, <3>1, <3>3
    <3> QED
      BY <3>2, <3>3
  <2>2. CASE ~ Stores(r)
    <3>1. db' = db
      BY <2>2 DEF RouterStep, Ignores, Applies, Takes, PutsBack, Keeps, Reads, Loads, Stops,
         Boots, Syncs, GoesOn, Still, data
    <3> QED
      BY <1>0, <2>2, <3>1
  <2> QED
    BY <2>1, <2>2
<1>2. \A k \in 0 .. db["route"] : k \in 0 .. db'["route"]
  BY <1>0, <1>1
<1>3. ASSUME NEW s \in Routers, s # r PROVE Behind(router[s])'
  <2>1. router'[s] = router[s] /\ Behind(router[s])
    BY <1>3, OthersStay
  <2> QED
    BY <1>2, <2>1 DEF Behind
<1>4. Behind(router[r])'
  <2>1. CASE Ignores(r)
    BY <1>0, <1>2, <2>1 DEF Ignores, Takes, Behind
  <2>2. CASE Applies(r)
    <3> DEFINE m == inbox[r][1]
               mem == [c.mem EXCEPT ![m.item] = m.val]
    <3>1. /\ router'[r].phase = "write" /\ router'[r].mem = mem /\ router'[r].cache[1] = mem
          /\ router'[r].msg = m /\ c.phase = "loop"
      BY <2>2 DEF Applies, Takes, Turns
    <3>2. 1 \in DOMAIN inbox[r]
      BY <2>2, TakenMessages DEF Applies, Types
    <3>3. m.item = "route" => m.val \in 1 .. made
      BY <3>2, UpdatesTyped DEF Ordered
    <3>4. mem["route"] = IF m.item = "route" THEN m.val ELSE c.mem["route"]
      BY <1>0
    <3> HIDE DEF m, mem
    <3> QED
      BY <1>0, <1>2, <3>1, <3>3, <3>4 DEF Behind
  <2>3. CASE Stores(r)
    <3>1. /\ router'[r].phase = "loop" /\ router'[r].mem = c.mem /\ router'[r].cache = c.cache
          /\ c.phase = "write"
      BY <2>3 DEF Stores, WriteEnds, Turns
    <3>2. c.cache = <<c.mem, c.ver>>
      BY <3>1 DEF BaseInv, Coherent
    <3>3. c.mem["route"] \in 0 .. db'["route"]
      <4>1. CASE c.msg.item = "route"
        BY <1>0, <1>1, <2>3, <3>1, <4>1 DEF Behind
      <4>2. CASE c.msg.item # "route"
        BY <1>0, <1>2, <3>1, <4>2 DEF Behind
      <4> QED
        BY <4>1, <4>2
    <3> QED
      BY <3>1, <3>2, <3>3 DEF Behind
  <2>4. CASE Reads(r) \/ Loads(r) \/ Boots(r) \/ Syncs(r) \/ GoesOn(r)
    <3>1. /\ db' = db /\ c.phase # "write" /\ router'[r].phase # "write"
          /\ db["route"] \in 0 .. db["route"]
      BY <1>0, <2>4 DEF Reads, Loads, Boots, Syncs, GoesOn, Still, Turns
    <3> QED
      BY <1>0, <2>4, <3>1 DEF Reads, Loads, Boots, Syncs, GoesOn, Turns, Behind
  <2>5. CASE Stops(r)
    <3>1. /\ db' = db /\ c.phase # "write" /\ router'[r].phase = "down"
          /\ router'[r].mem = Empty /\ router'[r].cache = c.cache
      BY <2>5 DEF Stops, Turns, data
    <3>2. 0 \in 0 .. db["route"]
      BY <1>0
    <3> QED
      BY <1>0, <3>1, <3>2 DEF Behind
  <2> QED
    BY <2>1, <2>2, <2>3, <2>4, <2>5 DEF RouterStep, PutsBack, Keeps
<1> QED
  BY <1>1, <1>3, <1>4

(* The last update stays under way to a router until the router has it. *)
LEMMA RouterAwaits ==
  ASSUME Types, BaseInv, NEW r \in Routers, RouterStep(r), outbox' = outbox, made' = made,
         "write" \notin rare', "missed" \notin rare', "rewound" \notin rare',
         db["route"] \in 0 .. made, Ordered, \A s \in Routers : Behind(router[s]),
         \A s \in Routers : Awaits(s) \/ HasLast(router[s])
  PROVE  \A s \in Routers : Awaits(s)' \/ HasLast(router[s])'
<1> DEFINE c == router[r]
<1>0. /\ "route" \in Items /\ made \in Nat /\ db \in [Items -> Values]
      /\ c.mem \in [Items -> Values] /\ Behind(c) /\ c.msg \in Message
      /\ c.cache = <<c.cache[1], c.cache[2]>>
  <2>1. /\ c \in RouterRecord /\ c.mem \in [Items -> Values] /\ c.msg \in Message
        /\ db \in [Items -> Values]
    BY RouterFields, RouterTypes DEF Types
  <2>2. c.cache = <<c.cache[1], c.cache[2]>>
    BY <2>1 DEF RouterRecord
  <2> QED
    BY <2>1, <2>2, ConstantTypes, MadeTyped
<1>1. ASSUME \E m \in outbox : m.val = made, NEW s \in Routers PROVE Awaits(s)'
  BY <1>1 DEF Awaits
<1>2. \A s \in Routers : db["route"] = made /\ db'["route"] # made => FALSE
  <2>1. db'["route"] \in 0 .. made /\ db["route"] <= db'["route"]
    BY RouterBehind
  <2> QED
    BY <1>0, <2>1
<1>3. ASSUME NEW s \in Routers, s # r, Arrives(s, "route", made) \/ HasLast(router[s])
      PROVE  Awaits(s)' \/ HasLast(router[s])'
  <2>1. router'[s] = router[s] /\ inbox'[s] = inbox[s]
    BY <1>3, OthersStay
  <2>2. CASE Arrives(s, "route", made)
    BY <2>1, <2>2 DEF Awaits, Arrives, Writes, Says
  <2>3. CASE HasLast(router[s])
    BY <1>2, <2>1, <2>3 DEF HasLast
  <2> QED
    BY <1>3, <2>2, <2>3
<1>4. ASSUME HasLast(c) PROVE HasLast(router[r])' \/ Awaits(r)'
  <2>1. db["route"] = made /\ db'["route"] = made
    BY <1>2, <1>4 DEF HasLast
  <2>2. CASE Ignores(r)
    BY <1>4, <2>1, <2>2 DEF Ignores, HasLast
  <2>3. CASE Applies(r)
    <3> DEFINE m == inbox[r][1]
               mem == [c.mem EXCEPT ![m.item] = m.val]
    <3>1. /\ router'[r].phase = "write" /\ router'[r].mem = mem /\ router'[r].cache[1] = mem
          /\ router'[r].msg = m /\ c.phase = "loop"
      BY <2>3 DEF Applies, Takes, Turns
    <3>2. m.item # "route" => mem["route"] = c.mem["route"]
      BY <1>0
    <3> HIDE DEF m, mem
    <3> QED
      BY <1>4, <2>1, <3>1, <3>2 DEF HasLast
  <2>4. CASE Stores(r)
    <3>1. /\ router'[r].phase = "loop" /\ router'[r].mem = c.mem /\ router'[r].cache = c.cache
          /\ c.phase = "write" /\ db' = [db EXCEPT ![c.msg.item] = c.msg.val]
      BY <2>4 DEF Stores, WriteEnds, Turns
    <3>2. c.cache = <<c.mem, c.ver>>
      BY <3>1 DEF BaseInv, Coherent
    <3>3. c.mem["route"] = made
      <4>1. CASE c.msg.item = "route"
        BY <1>0, <2>1, <3>1, <4>1 DEF Behind
      <4>2. CASE c.msg.item # "route"
        BY <1>4, <3>1, <4>2 DEF HasLast
      <4> QED
        BY <4>1, <4>2
    <3> QED
      BY <2>1, <3>1, <3>2, <3>3 DEF HasLast
  <2>5. CASE Reads(r) \/ Loads(r) \/ Boots(r) \/ Syncs(r) \/ GoesOn(r)
    BY <1>4, <2>1, <2>5 DEF Reads, Loads, Boots, Syncs, GoesOn, Turns, HasLast
  <2>6. CASE Stops(r)
    BY <1>4, <2>1, <2>6 DEF Stops, Turns, HasLast
  <2> QED
    BY <2>2, <2>3, <2>4, <2>5, <2>6 DEF RouterStep, PutsBack, Keeps
<1>5. ASSUME Arrives(r, "route", made) PROVE Awaits(r)' \/ HasLast(router[r])'
  <2>1. CASE Ignores(r) \/ Applies(r)
    <3>1. c.phase = "loop" /\ db' = db
      BY <2>1 DEF Ignores, Applies, Takes
    <3>2. PICK i \in DOMAIN inbox[r] : Says(r, i, "route", made)
      BY <1>5, <3>1 DEF Arrives, Writes
    <3>3. /\ i # 1 => i - 1 \in DOMAIN inbox'[r] /\ inbox'[r][i - 1] = inbox[r][i]
          /\ 1 \in DOMAIN inbox[r]
      BY <2>1, TakenMessages DEF Types, Ignores, Applies
    <3>4. CASE i # 1
      BY <3>2, <3>3, <3>4 DEF Says, Arrives, Awaits
    <3>5. CASE i = 1 /\ Applies(r)
      BY <3>2, <3>5 DEF Applies, Turns, Says, Writes, Arrives, Awaits
    <3>6. CASE i = 1 /\ Ignores(r)
      <4> DEFINE m == inbox[r][1]
                 n == RouteMsg(c.mem["route"], c.ver["route"])
      <4>1. m.item = "route" /\ m.val = made /\ m.at <= c.ver["route"] /\ m \in Updates
        BY <3>2, <3>3, <3>6, UpdatesTyped DEF Says, Ignores
      <4>2. m.at \in Nat /\ m.at > 0 /\ c.ver["route"] \in Nat
        BY <1>0, <4>1, UpdatesTyped, RouterFields DEF Ordered, Message
      <4>3. n \in Served(r)
        BY <4>1, <4>2 DEF Served
      <4>4. n \in Updates /\ n.val = c.mem["route"] /\ n.at = c.ver["route"]
        BY <4>3, UpdatesTyped DEF RouteMsg
      <4> HIDE DEF m, n
      <4>5. n.val \in 1 .. made /\ (n.val < m.val => n.at < m.at)
        BY <4>1, <4>4 DEF Ordered
      <4>6. c.mem["route"] = made
        BY <1>0, <4>1, <4>2, <4>4, <4>5
      <4>7. db["route"] = made
        BY <1>0, <3>1, <4>6 DEF Behind
      <4>8. c.cache = <<c.mem, c.ver>>
        BY <3>1 DEF BaseInv, Coherent
      <4>9. router' = router
        BY <3>6 DEF Ignores
      <4> QED
        BY <3>1, <4>6, <4>7, <4>8, <4>9 DEF HasLast
    <3> QED
      BY <2>1, <3>4, <3>5, <3>6
  <2>2. CASE Stores(r) /\ Writes(r, "route") /\ c.msg.val = made
    <3>1. /\ router'[r].phase = "loop" /\ router'[r].mem = c.mem /\ router'[r].cache = c.cache
          /\ c.phase = "write" /\ db' = [db EXCEPT ![c.msg.item] = c.msg.val]
          /\ c.msg.item = "route"
      BY <2>2 DEF Stores, WriteEnds, Turns, Writes
    <3>2. c.cache = <<c.mem, c.ver>>
      BY <3>1 DEF BaseInv, Coherent
    <3>3. c.mem["route"] = made /\ db'["route"] = made
      BY <1>0, <2>2, <3>1 DEF Behind
    <3> QED
      BY <3>1, <3>2, <3>3 DEF HasLast
  <2>3. CASE ~ (Ignores(r) \/ Applies(r)) /\ ~ (Stores(r) /\ Writes(r, "route") /\ c.msg.val = made)
    <3>1. /\ inbox' = inbox /\ (Stores(r) \/ c.phase # "write")
      BY <2>3, MessagesStay
    <3>2. PICK i \in DOMAIN inbox[r] : Says(r, i, "route", made)
      BY <1>5, <2>3, <3>1 DEF Arrives, Writes
    <3> QED
      BY <3>1, <3>2 DEF Says, Arrives, Awaits
  <2> QED
    BY <2>1, <2>2, <2>3
<1> QED
  BY <1>1, <1>3, <1>4, <1>5 DEF Awaits

(* Without a step of a router its memory stays. *)
LEMMA SameMemory ==
  ASSUME router' = router
  PROVE  \A r \in Routers : Served(r)' = Served(r) /\ Cached(r)' = Cached(r)
BY DEF Served, Cached

(* Messages about something else do not matter to the route. *)
LEMMA RouteApart ==
  ASSUME Types, UNCHANGED <<db, router, made, outbox>>, rare \subseteq rare',
         clock \in Nat, clock' \in {clock, clock + 1},
         \A r \in Routers :
           /\ \A i \in DOMAIN inbox[r] : i \in DOMAIN inbox'[r] /\ inbox'[r][i] = inbox[r][i]
           /\ \A i \in DOMAIN inbox'[r] : inbox'[r][i].item = "route" =>
                i \in DOMAIN inbox[r] /\ inbox'[r][i] = inbox[r][i],
         RouteInv
  PROVE  RouteInv'
<1> DEFINE events == {"missed", "same second", "rewound", "write", "api crash"}
<1> SUFFICES ASSUME Undisturbed(events)' PROVE RouteInv'
  BY DEF RouteInv
<1>1. /\ db["route"] \in 0 .. made /\ Ordered
      /\ \A r \in Routers : Behind(router[r]) /\ (Awaits(r) \/ HasLast(router[r]))
  BY DEF RouteInv, Undisturbed
<1> HIDE DEF events
<1>2. \A r \in Routers : Mail(r)' \subseteq Mail(r)
  BY DEF Mail
<1>3. Updates' \subseteq Updates
  <2>1. \A r \in Routers : Served(r)' = Served(r) /\ Cached(r)' = Cached(r)
    BY SameMemory
  <2> QED
    BY <1>2, <2>1 DEF Updates
<1>4. Ordered'
  BY <1>1, <1>3, OrderedKept
<1>5. \A r \in Routers : Behind(router[r])' /\ (HasLast(router[r]) => HasLast(router[r])')
  BY <1>1 DEF Behind, HasLast
<1>6. \A r \in Routers : Awaits(r) => Awaits(r)'
  BY DEF Awaits, Arrives, Writes, Says
<1> QED
  BY <1>1, <1>4, <1>5, <1>6 DEF RouteInv

(* Every step keeps the updates of the route in order and the last one on its way. *)
LEMMA RouteKept == Types /\ BaseInv /\ RouteInv /\ [Next]_vars => RouteInv'
<1> DEFINE events == {"missed", "same second", "rewound", "write", "api crash"}
<1> SUFFICES ASSUME Types, BaseInv, RouteInv, [Next]_vars, Undisturbed(events)' PROVE RouteInv'
  BY DEF RouteInv
<1>0. /\ clock \in Nat \ {0} /\ made \in Nat /\ \A o \in Orders : o # "route"
  BY RouterAssumption, MadeTyped DEF Types, BaseInv, Clocked
<1>1. ASSUME rare \subseteq rare'
      PROVE  /\ "missed" \notin rare' /\ "same second" \notin rare' /\ "rewound" \notin rare'
             /\ "write" \notin rare' /\ "api crash" \notin rare'
             /\ db["route"] \in 0 .. made /\ Ordered
             /\ \A r \in Routers : Behind(router[r]) /\ (Awaits(r) \/ HasLast(router[r]))
  BY <1>1 DEF Undisturbed, RouteInv
<1> HIDE DEF events
<1>2. ASSUME NEW r \in Routers, Loop(r) \/ Startup(r) \/ Crash(r) PROVE RouteInv'
  <2>1. RouterStep(r) /\ rare \subseteq rare' /\ UNCHANGED <<outbox, made, clock>>
    BY <1>2, RouterSteps DEF Types, api
  <2>2. Ordered'
    BY <1>0, <1>1, <2>1, RouterUpdates, OrderedKept
  <2>3. db'["route"] \in 0 .. made /\ \A s \in Routers : Behind(router[s])'
    BY <1>1, <2>1, RouterBehind
  <2>4. \A s \in Routers : Awaits(s)' \/ HasLast(router[s])'
    BY <1>1, <2>1, RouterAwaits
  <2> QED
    BY <2>1, <2>2, <2>3, <2>4 DEF RouteInv
<1>3. ASSUME Silent, UNCHANGED <<made, outbox>>, clock' \in {clock, clock + 1} PROVE RouteInv'
  BY <1>0, <1>3, RouteApart DEF Silent
<1>4. ASSUME NEW m \in Message, Announces(m), m.item # "route", UNCHANGED <<made, outbox>>,
             clock' \in {clock, clock + 1}
      PROVE  RouteInv'
  <2>1. \A r \in Routers :
          /\ \A i \in DOMAIN inbox[r] : i \in DOMAIN inbox'[r] /\ inbox'[r][i] = inbox[r][i]
          /\ \A i \in DOMAIN inbox'[r] : inbox'[r][i].item = "route" =>
               i \in DOMAIN inbox[r] /\ inbox'[r][i] = inbox[r][i]
    <3> TAKE r \in Routers
    <3>1. /\ \A i \in DOMAIN inbox[r] : i \in DOMAIN inbox'[r] /\ inbox'[r][i] = inbox[r][i]
          /\ \A i \in DOMAIN inbox'[r] :
               \/ i \in DOMAIN inbox[r] /\ inbox'[r][i] = inbox[r][i]
               \/ inbox'[r][i] = m
      BY <1>4, AnnouncedMessages
    <3> QED
      BY <1>4, <3>1
  <2> QED
    BY <1>0, <1>4, <2>1, RouteApart DEF Announces
<1>5. ASSUME NEW second \in {clock, clock + 1}, NotifyRouter(second) PROVE RouteInv'
  <2>1. /\ Silent /\ made' = made + 1 /\ clock' = second
        /\ outbox' = outbox \cup {RouteMsg(made + 1, second)}
        /\ second = clock /\ made > 0 => "same second" \in rare'
    BY <1>5, ApiSteps DEF NotifyRouter, RouteMsg, Note
  <2>2. rare \subseteq rare' /\ UNCHANGED <<db, router, inbox>>
    BY <2>1 DEF Silent
  <2>3. "same second" \notin rare' /\ db["route"] \in 0 .. made /\ Ordered
        /\ \A r \in Routers : Behind(router[r])
    BY <1>1, <2>2
  <2>4. PICK m : m = RouteMsg(made + 1, second)
    OBVIOUS
  <2>5. m.val = made + 1 /\ m.at = second
    BY <2>4 DEF RouteMsg
  <2>6. Updates' = Updates \cup {m}
    <3>1. \A r \in Routers : Mail(r)' = Mail(r)
      BY <2>2 DEF Mail
    <3>2. \A r \in Routers : Served(r)' = Served(r) /\ Cached(r)' = Cached(r)
      BY <2>2, SameMemory
    <3>3. outbox' = outbox \cup {m}
      BY <2>1, <2>4
    <3> QED
      BY <3>1, <3>2, <3>3 DEF Updates
  <2>7. \A n \in Updates : n.val \in 1 .. made /\ n.at \in Nat /\ n.at <= clock /\ n.at > 0
    BY <2>3, UpdatesTyped DEF Ordered, Message
  <2>8. made' = made + 1 /\ clock' = second /\ made \in Nat
        /\ (second = clock => made = 0)
    <3>1. ~ (made > 0) => made = 0
      BY <1>0
    <3> QED
      BY <1>0, <2>1, <2>3, <3>1
  <2>9. second \in Nat /\ second > 0 /\ clock <= second /\ (second = clock \/ clock < second)
    BY <1>0
  <2>10. Ordered'
    <3>1. \A n \in Updates' : n.val \in 1 .. made' /\ n.at <= clock' /\ n.at > 0
      BY <1>0, <2>5, <2>6, <2>7, <2>8, <2>9
    <3>2. \A n \in Updates : n.at < second
      BY <1>0, <2>7, <2>8, <2>9
    <3>3. \A n, p \in Updates' : n.val < p.val => n.at < p.at
      <4>1. \A n, p \in Updates : n.val < p.val => n.at < p.at
        BY <2>3 DEF Ordered
      <4>2. \A n \in Updates : ~ (m.val < n.val)
        BY <2>5, <2>7, <2>8
      <4>3. ~ (m.val < m.val)
        BY <2>5, <2>8
      <4> QED
        BY <2>5, <2>6, <3>2, <4>1, <4>2, <4>3
    <3> QED
      BY <3>1, <3>3 DEF Ordered
  <2>11. (\A k \in 1 .. made : k \in 1 .. made') /\ db'["route"] \in 0 .. made'
    <3>1. \A k \in 1 .. made : k \in 1 .. made'
      BY <2>8
    <3>2. \A k \in 0 .. made : k \in 0 .. made'
      BY <2>8
    <3> QED
      BY <2>2, <2>3, <3>1, <3>2
  <2>12. \A r \in Routers : Behind(router[r])'
    BY <2>2, <2>3, <2>11 DEF Behind
  <2>13. \A r \in Routers : Awaits(r)'
    BY <2>4, <2>1, <2>5, <2>8 DEF Awaits
  <2> QED
    BY <2>10, <2>11, <2>12, <2>13 DEF RouteInv
<1>6. ASSUME NEW m \in outbox, Publish(m) PROVE RouteInv'
  <2>1. /\ Announces(m) /\ m \in Message /\ m.item = "route" /\ outbox' = outbox \ {m}
        /\ UNCHANGED <<made, clock>>
    BY <1>6, ApiSteps DEF Publish
  <2>2. rare \subseteq rare' /\ UNCHANGED <<db, router>>
    BY <2>1 DEF Announces
  <2>3. \A r \in Routers : Subscribed(r)
    BY <1>1, <2>1, <2>2 DEF Announces
  <2>4. \A r \in Routers :
          /\ \A i \in DOMAIN inbox[r] : i \in DOMAIN inbox'[r] /\ inbox'[r][i] = inbox[r][i]
          /\ \A i \in DOMAIN inbox'[r] :
               inbox'[r][i] = m \/ (i \in DOMAIN inbox[r] /\ inbox'[r][i] = inbox[r][i])
          /\ \E n \in DOMAIN inbox'[r] : inbox'[r][n] = m
    <3> TAKE r \in Routers
    <3>1. Subscribed(r)
      BY <2>3
    <3>2. /\ \A i \in DOMAIN inbox[r] : i \in DOMAIN inbox'[r] /\ inbox'[r][i] = inbox[r][i]
          /\ \A i \in DOMAIN inbox'[r] :
               \/ i \in DOMAIN inbox[r] /\ inbox'[r][i] = inbox[r][i]
               \/ inbox'[r][i] = m
      BY <2>1, AnnouncedMessages
    <3>3. \E n \in DOMAIN inbox'[r] : inbox'[r][n] = m
      BY <2>1, <3>1, AnnouncedMessages
    <3> QED
      BY <3>2, <3>3
  <2>5. \A r \in Routers : Mail(r)' \subseteq Mail(r) \cup {m}
    BY <2>4 DEF Mail
  <2>6. Updates' \subseteq Updates
    <3>1. \A r \in Routers : Served(r)' = Served(r) /\ Cached(r)' = Cached(r)
      BY <2>2, SameMemory
    <3>2. m \in Updates /\ outbox' \subseteq Updates
      BY <2>1 DEF Updates
    <3>3. \A r \in Routers : (Mail(r) \cup Served(r) \cup Cached(r))' \subseteq Updates
      BY <2>5, <3>1, <3>2, UpdatesTyped
    <3> QED
      BY <3>2, <3>3 DEF Updates
  <2>7. Ordered'
    BY <1>0, <1>1, <2>1, <2>2, <2>6, OrderedKept
  <2>8. \A r \in Routers : Behind(router[r])' /\ (HasLast(router[r]) => HasLast(router[r])')
    BY <1>1, <2>1, <2>2 DEF Behind, HasLast
  <2>9. \A r \in Routers : Awaits(r) => Awaits(r)'
    <3> SUFFICES ASSUME NEW r \in Routers, Awaits(r) PROVE Awaits(r)'
      OBVIOUS
    <3>1. CASE m.val = made
      BY <2>1, <2>4, <3>1 DEF Awaits, Arrives, Says
    <3>2. CASE m.val # made
      BY <2>1, <2>2, <2>4, <3>2 DEF Awaits, Arrives, Writes, Says
    <3> QED
      BY <3>1, <3>2
  <2> QED
    BY <1>1, <2>1, <2>2, <2>7, <2>8, <2>9 DEF RouteInv
<1>7. ASSUME NEW o \in Orders, Certify(o) PROVE RouteInv'
  <2>1. UNCHANGED <<made, outbox>> /\ clock' \in {clock, clock + 1}
    BY <1>7, CertifySteps
  <2>2. CASE Silent
    BY <1>3, <2>1, <2>2
  <2>3. CASE ~Silent
    <3>1. PICK m \in Message : Announces(m) /\ m.item \in {o, "cert"}
      BY <1>7, <2>3, CertifySteps
    <3> QED
      BY <1>0, <1>4, <2>1, <3>1
  <2> QED
    BY <2>2, <2>3
<1>8. CASE ApiCrash
  <2>1. rare \subseteq rare' /\ "api crash" \in rare'
    BY <1>8, ApiSteps DEF Silent
  <2> QED
    BY <1>1, <2>1
<1>9. CASE UNCHANGED vars
  <2>1. Silent /\ UNCHANGED <<made, outbox, clock>>
    BY <1>9 DEF vars, Silent
  <2> QED
    BY <1>3, <2>1
<1> QED
  BY <1>2, <1>5, <1>6, <1>7, <1>8, <1>9 DEF Next, Done


(*------------------------------ The theorems -----------------------------*)
(* The initial states satisfy every invariant. *)
LEMMA InitTypes == Init => Types /\ BaseInv
<1> SUFFICES ASSUME Init PROVE Types /\ BaseInv
  OBVIOUS
<1>1. /\ clock = 1 /\ made = 0 /\ outbox = {} /\ db = Empty /\ stored = {0} /\ recorded = None
      /\ rare = {} /\ inbox = [r \in Routers |-> <<>>]
      /\ order = [o \in Orders |->
                    [phase |-> "new", at |-> 0, adds |-> 0, ready |-> FALSE, undone |-> {}]]
  BY DEF Init
<1>2. router = [r \in Routers |->
                 [phase |-> "loop", pending |-> FALSE, mem |-> Empty, ver |-> NoVersions,
                  cache |-> <<Empty, NoVersions>>, msg |-> NoMessage,
                  prev |-> <<Empty, NoVersions>>]]
  BY DEF Init
<1>3. /\ router \in [Routers -> RouterRecord]
      /\ \A r \in Routers :
           /\ router[r].phase = "loop" /\ router[r].mem = Empty
           /\ router[r].ver = NoVersions /\ router[r].cache = <<Empty, NoVersions>>
           /\ router[r].msg = NoMessage /\ router[r].prev = <<Empty, NoVersions>>
  BY <1>2, ConstantTypes DEF RouterRecord, Phases
<1>4. /\ inbox \in [Routers -> Seq(Message)]
      /\ \A r \in Routers : inbox[r] = <<>> /\ DOMAIN inbox[r] = {}
  BY <1>1, EmptySeq
<1>5. order \in [Orders -> OrderRecord] /\ \A o \in Orders : OrderOk(order[o]) /\ order[o].at = 0
  <2>1. 0 \in 0 .. MaxAdd /\ MaxAdd # 0
    BY RouterAssumption
  <2> QED
    BY <1>1, <2>1 DEF OrderOk, OrderRecord, OrderPhases
<1>6. 0 \in 0 .. MaxRoute /\ 0 \in Routes
  BY RouterAssumption DEF Routes
<1>7. TypeOK
  BY <1>1, <1>3, <1>4, <1>5, <1>6, ConstantTypes DEF TypeOK, RouterRecord, Message, OrderRecord
<1>8. RouteValues
  BY <1>3, <1>4, <1>6 DEF RouteValues, NoMessage
<1>9. BaseInv
  <2>1. \A x \in Items : NoVersions[x] = 0
    BY DEF NoVersions
  <2>2. Clocked
    BY <1>1, <1>3, <1>4, <1>5, <2>1 DEF Clocked
  <2>3. Asleep /\ Coherent
    BY <1>3, <1>4 DEF Asleep, Coherent
  <2> QED
    BY <2>2, <2>3 DEF BaseInv
<1> QED
  BY <1>5, <1>7, <1>8, <1>9 DEF Types

(* At first nothing is under way. *)
LEMMA InitRest == Init => ServedInv /\ ChallengeInv /\ CertInv /\ RouteInv
<1> SUFFICES ASSUME Init PROVE ServedInv /\ ChallengeInv /\ CertInv /\ RouteInv
  OBVIOUS
<1>1. /\ clock = 1 /\ made = 0 /\ outbox = {} /\ db = Empty /\ stored = {0} /\ recorded = None
      /\ rare = {} /\ \A o \in Orders : order[o].phase = "new" /\ order[o].at = 0
      /\ \A r \in Routers : inbox[r] = <<>> /\ DOMAIN inbox[r] = {}
  BY DEF Init
<1>2. \A r \in Routers :
        /\ router[r].phase = "loop" /\ router[r].mem = Empty
        /\ router[r].ver = NoVersions /\ router[r].cache = <<Empty, NoVersions>>
        /\ router[r].msg = NoMessage /\ router[r].prev = <<Empty, NoVersions>>
  BY DEF Init
<1>3. /\ Empty["route"] = 0 /\ NoVersions["route"] = 0
      /\ \A o \in Orders : Empty[o] = None /\ o # None
  BY ConstantTypes, RouterAssumption DEF Empty, NoVersions
<1>4. ServedInv
  BY <1>1, <1>2, <1>3 DEF ServedInv, ServesStored
<1>5. ASSUME NEW x, NEW W PROVE Taken(x, W)
  BY <1>1 DEF Taken
<1>6. ChallengeInv
  <2>1. ASSUME NEW o \in Orders PROVE Lasts(o, None)
    BY <1>1, <1>2, <1>3 DEF Lasts, Writes
  <2>2. ASSUME NEW o \in Orders PROVE TokenStamps(o)
    <3>1. NoVersions[o] = 0
      BY ConstantTypes DEF NoVersions
    <3> QED
      BY <1>1, <1>2, <3>1 DEF TokenStamps, Until
  <2> QED
    BY <1>5, <2>1, <2>2 DEF ChallengeInv, Withdrawn
<1>7. CertInv
  <2>1. NoVersions["cert"] = 0 /\ \A o \in Orders : o # None
    BY ConstantTypes, RouterAssumption DEF NoVersions
  <2>2. CertStamps
    BY <1>1, <1>2, <2>1 DEF CertStamps, Until
  <2>3. SomeCert
    BY <1>1, <1>2, <2>1 DEF SomeCert, CertIn, Published, Writes
  <2>4. LastCert
    BY <1>1, <1>5, <2>1, <2>2 DEF LastCert, UnderWay, Published
  <2> QED
    BY <2>3, <2>4 DEF CertInv
<1>8. RouteInv
  <2>1. \A r \in Routers : Mail(r) = {} /\ Served(r) = {} /\ Cached(r) = {}
    BY <1>1, <1>2, <1>3 DEF Mail, Served, Cached
  <2>2. Updates = {}
    BY <1>1, <2>1 DEF Updates
  <2>3. ASSUME NEW r \in Routers PROVE Behind(router[r]) /\ HasLast(router[r])
    <3>1. /\ router[r].phase \notin {"write", "resync"} /\ router[r].mem["route"] = 0
          /\ router[r].cache[1]["route"] = 0 /\ db["route"] = 0 /\ 0 \in 0 .. 0
      BY <1>1, <1>2, <1>3
    <3> QED
      BY <1>1, <3>1 DEF Behind, HasLast
  <2>4. db["route"] \in 0 .. made
    BY <1>1, <1>3
  <2>5. Ordered
    BY <2>2 DEF Ordered
  <2> QED
    BY <2>3, <2>4, <2>5 DEF RouteInv
<1> QED
  BY <1>4, <1>6, <1>7, <1>8

(* A router at rest has nothing on its way to it. *)
LEMMA NothingArrives ==
  ASSUME NEW r \in Routers, Idle(r)
  PROVE  \A x, w : ~ Arrives(r, x, w)
<1>1. inbox[r] = <<>> /\ router[r].phase = "loop"
  BY DEF Idle
<1>2. DOMAIN inbox[r] = {}
  BY <1>1
<1> QED
  BY <1>1, <1>2 DEF Arrives, Writes

(* In every behaviour the variables keep their types, messages and versions are never of a second *)
(* to come, and a router that has not subscribed yet has received nothing.                        *)
THEOREM TypeCorrect == Spec => [](TypeOK /\ BaseInv)
<1>1. Init => Types /\ BaseInv
  BY InitTypes
<1>2. Types /\ BaseInv /\ [Next]_vars => (Types /\ BaseInv)'
  BY TypesKept, BaseKept
<1>3. Types /\ BaseInv => TypeOK /\ BaseInv
  BY DEF Types
<1> QED
  BY <1>1, <1>2, <1>3, PTL DEF Spec

(* A router at rest serves only lists of targets that were stored at some time, if no restarted   *)
(* router was unable to read the database: what could not be stored was taken back, however the   *)
(* failing write interleaves with updates, resyncs and restarts.                                  *)
THEOREM ServedWasStoredAlways == Spec => []ServedWasStored
<1>1. Init => Types /\ BaseInv /\ ServedInv
  BY InitTypes, InitRest
<1>2. Types /\ BaseInv /\ ServedInv /\ [Next]_vars => (Types /\ BaseInv /\ ServedInv)'
  BY TypesKept, BaseKept, ServedKept
<1>3. ServedInv => ServedWasStored
  BY DEF ServedInv, ServedWasStored, ServesStored, Idle
<1> QED
  BY <1>1, <1>2, <1>3, PTL DEF Spec

(* Once the orders have ended and every message was handled, the database holds no challenge of   *)
(* an order that cleaned up, however many orders were under way at once: the message that deletes *)
(* it is the last one of its item a router has, and of a later second than every other.           *)
THEOREM NoChallengeStays == Spec => []NoChallengeLeft
<1>1. Init => Types /\ BaseInv /\ ChallengeInv
  BY InitTypes, InitRest
<1>2. Types /\ BaseInv /\ ChallengeInv /\ [Next]_vars => (Types /\ BaseInv /\ ChallengeInv)'
  BY TypesKept, BaseKept, ChallengeKept
<1>3. Types /\ ChallengeInv => NoChallengeLeft
  <2> SUFFICES ASSUME Types, ChallengeInv, AtRest, NEW o \in Orders,
                      "cleanup" \notin order[o].undone, Undisturbed({"missed", "write"})
               PROVE  db[o] = None
    BY DEF NoChallengeLeft
  <2>1. order[o].adds = 0
    BY OrderTypes DEF AtRest, UnderWay, OrdersTyped, OrderOk
  <2>2. Lasts(o, None)
    BY <2>1 DEF ChallengeInv, Withdrawn
  <2>3. \A r \in Routers : ~ Arrives(r, o, None)
    BY NothingArrives DEF AtRest, Quiet
  <2> QED
    BY <2>2, <2>3 DEF Lasts
<1> QED
  BY <1>1, <1>2, <1>3, PTL DEF Spec

(* A certificate the API has recorded as issued and published is the one in the database of the   *)
(* routers once every message was handled, since it is of a later second than any certificate a   *)
(* router has; when orders overlapped the database holds a certificate of one of them.            *)
THEOREM RecordedStays == Spec => []RecordedIsStored
<1>1. Init => Types /\ BaseInv /\ CertInv
  BY InitTypes, InitRest
<1>2. Types /\ BaseInv /\ CertInv /\ [Next]_vars => (Types /\ BaseInv /\ CertInv)'
  BY TypesKept, BaseKept, CertKept
<1>3. Types /\ CertInv => RecordedIsStored
  <2> SUFFICES ASSUME Types, CertInv, AtRest, recorded # None,
                      "send" \notin order[recorded].undone, Undisturbed({"missed", "write"})
               PROVE  IF "together" \in rare THEN db["cert"] # None ELSE db["cert"] = recorded
    BY DEF RecordedIsStored
  <2>1. PICK o \in Orders : o = recorded
    BY DEF Types, TypeOK
  <2>2. Published(o)
    BY <2>1 DEF Published, AtRest, UnderWay
  <2>3. CertComes /\ ("together" \notin rare => Lasts("cert", o))
    BY <2>2 DEF CertInv, SomeCert, LastCert
  <2>4. \A r \in Routers : /\ ~ Arrives(r, "cert", o) /\ ~ Writes(r, "cert")
                           /\ DOMAIN inbox[r] = {}
    <3> TAKE r \in Routers
    <3>1. Idle(r)
      BY DEF AtRest, Quiet
    <3> QED
      BY <3>1, NothingArrives DEF Idle, Writes
  <2>5. db["cert"] # None
    BY <2>3, <2>4 DEF CertComes
  <2>6. "together" \notin rare => db["cert"] = o
    BY <2>3, <2>4 DEF Lasts
  <2> QED
    BY <2>1, <2>5, <2>6
<1> QED
  BY <1>1, <1>2, <1>3, PTL DEF Spec

(* Once every update was handled, all routers serve the last list of targets and the database     *)
(* holds it, whatever order the updates were published in and however often the routers were      *)
(* restarted: unless one of the events happened the property names.                               *)
THEOREM AllAgree == Spec => []RoutersAgree
<1>1. Init => Types /\ BaseInv /\ RouteInv
  BY InitTypes, InitRest
<1>2. Types /\ BaseInv /\ RouteInv /\ [Next]_vars => (Types /\ BaseInv /\ RouteInv)'
  BY TypesKept, BaseKept, RouteKept
<1>3. RouteInv => RoutersAgree
  <2> SUFFICES ASSUME RouteInv, Quiet, NEW r \in Routers,
                      Undisturbed({"missed", "same second", "rewound", "write", "api crash"})
               PROVE  router[r].mem["route"] = made /\ db["route"] = made
    BY DEF RoutersAgree
  <2>1. ~ Awaits(r)
    BY NothingArrives DEF Quiet, Awaits
  <2>2. HasLast(router[r]) /\ router[r].phase = "loop"
    BY <2>1 DEF RouteInv, Quiet, Idle
  <2> QED
    BY <2>2 DEF HasLast
<1> QED
  BY <1>1, <1>2, <1>3, PTL DEF Spec

=============================================================================
