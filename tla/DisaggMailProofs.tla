-------------------------- MODULE DisaggMailProofs --------------------------
(***************************************************************************)
(* A request is worked on in one place at a time: at most one queue entry  *)
(* or message of the whole system is about it.  From that follows which    *)
(* slots a tracked request holds, and that no slot is given back twice.    *)
(* This module holds the invariant (SlotInv) and what taking an entry from *)
(* a queue, adding one and moving one do to it, whoever does it.           *)
(***************************************************************************)
EXTENDS DisaggPipeline, FiniteSetTheorems, TLAPS

(* All queues and sockets, as one function.  An entry keeps of a message   *)
(* whom it is about and its kind.                                          *)
Boxes ==
  {<<"frontend", "DS">>} \cup ({"tta"} \X Roles) \cup ({"work"} \X Inst)
    \cup ({"push"} \X Inst) \cup ({"ready"} \X Inst) \cup ({"result"} \X Connections)

Entry(r, kind) == [id |-> r, kind |-> kind]
Kinds ==
  {"client", "waiting", "work", "alloc", "push", "ready", "rdma", "transfer_compute",
   "transfer_control", "register", "staged", "allocated", "pushed", "done", "done_error",
   "error", "result"}
Entries == [id : Requests \cup {"none"}, kind : Kinds]

RequestEntries(q, kind) == [i \in 1 .. Len(q) |-> Entry(q[i], kind)]
WorkEntries(q) == [i \in 1 .. Len(q) |-> Entry(q[i].id, q[i].type)]
PushEntries(q) == [i \in 1 .. Len(q) |-> Entry(q[i].id, "rdma")]
ReadyEntries(q) == [i \in 1 .. Len(q) |-> Entry(q[i].id, q[i].kind)]
ResultEntry(m) == Entry(IF m.type = "register" THEN "none" ELSE m.id, m.type)
ResultEntries(q) == [i \in 1 .. Len(q) |-> ResultEntry(q[i])]

BoxOf(k, f, t, w, p, c, m) ==
  IF k[1] = "frontend" THEN RequestEntries(f, "client")
  ELSE IF k[1] = "tta" THEN RequestEntries(t[k[2]], "waiting")
  ELSE IF k[1] = "work" THEN WorkEntries(w[k[2]])
  ELSE IF k[1] = "push" THEN PushEntries(p[k[2]])
  ELSE IF k[1] = "ready" THEN ReadyEntries(c[k[2]])
  ELSE ResultEntries(m[k[2]])

MailOf(f, t, w, p, c, m) == [k \in Boxes |-> BoxOf(k, f, t, w, p, c, m)]

Mail == MailOf(frontend, tta, work, rdma_push_queue, compute_ready_queue, result)

About(e, r) == e.kind # "register" /\ e.id = r

(* No two entries of M are about one request.                              *)
Single(M) ==
  \A k, l \in Boxes : \A i \in 1 .. Len(M[k]), j \in 1 .. Len(M[l]) :
    (\E r \in Requests : About(M[k][i], r) /\ About(M[l][j], r)) => k = l /\ i = j

Absent(M, r) == \A k \in Boxes : \A i \in 1 .. Len(M[k]) : ~ About(M[k][i], r)

Drop(M, k) == [l \in Boxes |-> IF l = k THEN Tail(M[l]) ELSE M[l]]
Put(M, k, e) == [l \in Boxes |-> IF l = k THEN Append(M[l], e) ELSE M[l]]

(* N is M with the entry about r, if there was one, replaced by one of     *)
(* the given kind in box k, or by nothing.                                 *)
Moved(M, N, r, k, kind) ==
  /\ Single(N)
  /\ \A q \in Requests \ {r} : Absent(M, q) => Absent(N, q)
  /\ \A l \in Boxes : \A j \in 1 .. Len(N[l]) :
       \/ ~ About(N[l][j], r) /\ \E i \in 1 .. Len(M[l]) : N[l][j] = M[l][i]
       \/ l = k /\ N[l][j] = Entry(r, kind)

----------------------------------------------------------------------------
(* Two entries about a request are one.                                    *)
LEMMA SameEntry ==
  ASSUME NEW M, Single(M), NEW k \in Boxes, NEW l \in Boxes,
         NEW i \in 1 .. Len(M[k]), NEW j \in 1 .. Len(M[l]),
         NEW r \in Requests, About(M[k][i], r), About(M[l][j], r)
  PROVE  k = l /\ i = j
  BY DEF Single

(* Taking an entry off a box.                                              *)
LEMMA DropEntry ==
  ASSUME NEW E, NEW M \in [Boxes -> Seq(E)], Single(M), NEW k \in Boxes, M[k] # <<>>
  PROVE  /\ Drop(M, k) \in [Boxes -> Seq(E)]
         /\ Single(Drop(M, k))
         /\ \A r \in Requests : About(Head(M[k]), r) => Absent(Drop(M, k), r)
         /\ \A l \in Boxes : \A j \in 1 .. Len(Drop(M, k)[l]) :
              \E i \in 1 .. Len(M[l]) : Drop(M, k)[l][j] = M[l][i]
<1> DEFINE N == Drop(M, k)
           at(l, j) == IF l = k THEN j + 1 ELSE j
<1>1. /\ N \in [Boxes -> Seq(E)]
      /\ Len(M[k]) \in Nat \ {0} /\ Head(M[k]) = M[k][1]
      /\ Len(N[k]) = Len(M[k]) - 1
      /\ \A j \in 1 .. Len(N[k]) : N[k][j] = M[k][j + 1]
      /\ \A l \in Boxes : l # k => N[l] = M[l]
  BY DEF Drop
<1>2. \A l \in Boxes : Len(M[l]) \in Nat
  OBVIOUS
<1> HIDE DEF N
<1>3. ASSUME NEW l \in Boxes, NEW j \in 1 .. Len(N[l])
      PROVE  at(l, j) \in 1 .. Len(M[l]) /\ N[l][j] = M[l][at(l, j)]
  BY <1>1, <1>2
<1>4. Single(N)
  <2> SUFFICES ASSUME NEW l1 \in Boxes, NEW l2 \in Boxes,
                      NEW i \in 1 .. Len(N[l1]), NEW j \in 1 .. Len(N[l2]),
                      NEW r \in Requests, About(N[l1][i], r), About(N[l2][j], r)
               PROVE  l1 = l2 /\ i = j
    BY DEF Single
  <2>1. /\ at(l1, i) \in 1 .. Len(M[l1]) /\ About(M[l1][at(l1, i)], r)
        /\ at(l2, j) \in 1 .. Len(M[l2]) /\ About(M[l2][at(l2, j)], r)
    BY <1>3
  <2> HIDE DEF at
  <2>2. l1 = l2 /\ at(l1, i) = at(l2, j)
    BY <2>1, SameEntry, Zenon
  <2> QED
    BY <2>2, <1>1, <1>2 DEF at
<1>5. ASSUME NEW r \in Requests, About(Head(M[k]), r) PROVE Absent(N, r)
  <2> SUFFICES ASSUME NEW l \in Boxes, NEW j \in 1 .. Len(N[l]), About(N[l][j], r)
               PROVE  FALSE
    BY DEF Absent
  <2>1. /\ at(l, j) \in 1 .. Len(M[l]) /\ About(M[l][at(l, j)], r)
        /\ 1 \in 1 .. Len(M[k]) /\ About(M[k][1], r)
    BY <1>1, <1>3, <1>5
  <2> HIDE DEF at
  <2>2. l = k /\ at(l, j) = 1
    BY <2>1, SameEntry
  <2> QED
    BY <2>2, <1>1, <1>2 DEF at
<1> QED
  BY <1>1, <1>3, <1>4, <1>5, Zenon DEF N

(* Adding an entry about a request that no other is about.                 *)
LEMMA PutEntry ==
  ASSUME NEW E, NEW M \in [Boxes -> Seq(E)], Single(M), NEW k, NEW e \in E,
         \A r \in Requests : About(e, r) => Absent(M, r)
  PROVE  /\ Put(M, k, e) \in [Boxes -> Seq(E)]
         /\ Single(Put(M, k, e))
         /\ \A l \in Boxes : \A j \in 1 .. Len(Put(M, k, e)[l]) :
              \/ j \in 1 .. Len(M[l]) /\ Put(M, k, e)[l][j] = M[l][j]
              \/ l = k /\ Put(M, k, e)[l][j] = e
<1> DEFINE N == Put(M, k, e)
<1>1. CASE k \notin Boxes
  <2>1. N = M
    BY <1>1 DEF Put
  <2> QED
    BY <2>1
<1>2. CASE k \in Boxes
  <2>1. /\ N \in [Boxes -> Seq(E)]
        /\ Len(M[k]) \in Nat
        /\ Len(N[k]) = Len(M[k]) + 1
        /\ N[k][Len(M[k]) + 1] = e
        /\ \A j \in 1 .. Len(M[k]) : N[k][j] = M[k][j]
        /\ \A l \in Boxes : l # k => N[l] = M[l]
    BY <1>2 DEF Put
  <2> HIDE DEF N
  <2>2. ASSUME NEW l \in Boxes, NEW j \in 1 .. Len(N[l])
        PROVE  \/ j \in 1 .. Len(M[l]) /\ N[l][j] = M[l][j]
               \/ l = k /\ j = Len(M[k]) + 1 /\ N[l][j] = e
    BY <2>1
  <2>3. Single(N)
    <3> SUFFICES ASSUME NEW l1 \in Boxes, NEW l2 \in Boxes,
                        NEW i \in 1 .. Len(N[l1]), NEW j \in 1 .. Len(N[l2]),
                        NEW r \in Requests, About(N[l1][i], r), About(N[l2][j], r)
                 PROVE  l1 = l2 /\ i = j
      BY DEF Single
    <3>1. CASE i \in 1 .. Len(M[l1]) /\ N[l1][i] = M[l1][i]
               /\ j \in 1 .. Len(M[l2]) /\ N[l2][j] = M[l2][j]
      BY <3>1 DEF Single
    <3>2. CASE About(e, r)
      <4>1. Absent(M, r)
        BY <3>2
      <4> QED
        BY <4>1, <2>2 DEF Absent
    <3> QED
      BY <3>1, <3>2, <2>2
  <2> QED
    BY <2>1, <2>2, <2>3 DEF N
<1> QED
  BY <1>1, <1>2

(* An entry leaves its box, or leaves it for another.                      *)
LEMMA MoveEntry ==
  ASSUME NEW E, NEW M \in [Boxes -> Seq(E)], Single(M),
         NEW from \in Boxes, M[from] # <<>>,
         NEW r \in Requests, About(Head(M[from]), r), NEW k, NEW kind
  PROVE  /\ Moved(M, Drop(M, from), r, k, kind)
         /\ Entry(r, kind) \in E =>
              Moved(M, Put(Drop(M, from), k, Entry(r, kind)), r, k, kind)
<1> DEFINE N == Drop(M, from)
           e == Entry(r, kind)
           P == Put(N, k, e)
<1>1. /\ N \in [Boxes -> Seq(E)] /\ Single(N) /\ Absent(N, r)
      /\ \A l \in Boxes : \A j \in 1 .. Len(N[l]) : \E i \in 1 .. Len(M[l]) : N[l][j] = M[l][i]
  BY DropEntry
<1>2. \A q \in Requests : About(e, q) => q = r
  BY DEF About, Entry
<1> HIDE DEF N, e
<1>3. Moved(M, N, r, k, kind)
  BY <1>1 DEF Moved, Absent
<1>4. ASSUME e \in E PROVE Moved(M, P, r, k, kind)
  <2>1. /\ Single(P)
        /\ \A l \in Boxes : \A j \in 1 .. Len(P[l]) :
             \/ j \in 1 .. Len(N[l]) /\ P[l][j] = N[l][j]
             \/ l = k /\ P[l][j] = e
    BY <1>1, <1>2, <1>4, PutEntry
  <2> HIDE DEF P
  <2>2. ASSUME NEW q \in Requests \ {r}, Absent(M, q) PROVE Absent(P, q)
    <3>1. Absent(N, q) /\ ~ About(e, q)
      BY <1>1, <1>2, <2>2 DEF Absent
    <3> QED
      BY <2>1, <3>1 DEF Absent
  <2>3. ASSUME NEW l \in Boxes, NEW j \in 1 .. Len(P[l])
        PROVE  \/ ~ About(P[l][j], r) /\ \E i \in 1 .. Len(M[l]) : P[l][j] = M[l][i]
               \/ l = k /\ P[l][j] = e
    <3>1. CASE j \in 1 .. Len(N[l]) /\ P[l][j] = N[l][j]
      BY <1>1, <3>1, Zenon DEF Absent
    <3> QED
      BY <2>1, <3>1
  <2> QED
    BY <2>1, <2>2, <2>3 DEF Moved, e
<1> QED
  BY <1>3, <1>4 DEF N, e

(* A first entry about a request.                                          *)
LEMMA NewEntry ==
  ASSUME NEW E, NEW M \in [Boxes -> Seq(E)], Single(M), NEW r \in Requests, Absent(M, r),
         NEW k, NEW kind, Entry(r, kind) \in E
  PROVE  Moved(M, Put(M, k, Entry(r, kind)), r, k, kind)
<1> DEFINE e == Entry(r, kind)
           P == Put(M, k, e)
<1>1. \A q \in Requests : About(e, q) => q = r
  BY DEF About, Entry
<1>2. /\ Single(P)
      /\ \A l \in Boxes : \A j \in 1 .. Len(P[l]) :
           \/ j \in 1 .. Len(M[l]) /\ P[l][j] = M[l][j]
           \/ l = k /\ P[l][j] = e
  BY <1>1, PutEntry DEF e
<1> HIDE DEF P, e
<1>3. ASSUME NEW q \in Requests \ {r}, Absent(M, q) PROVE Absent(P, q)
  BY <1>1, <1>2, <1>3 DEF Absent
<1>4. ASSUME NEW l \in Boxes, NEW j \in 1 .. Len(P[l])
      PROVE  \/ ~ About(P[l][j], r) /\ \E i \in 1 .. Len(M[l]) : P[l][j] = M[l][i]
             \/ l = k /\ P[l][j] = e
  BY <1>2 DEF Absent
<1> QED
  BY <1>2, <1>3, <1>4 DEF Moved, P, e

----------------------------------------------------------------------------
(* How the boxes follow the variables.                                     *)
LEMMA EntriesOfTail ==
  ASSUME NEW S, NEW q \in Seq(S), q # <<>>
  PROVE  /\ \A kind : RequestEntries(Tail(q), kind) = Tail(RequestEntries(q, kind))
         /\ WorkEntries(Tail(q)) = Tail(WorkEntries(q))
         /\ PushEntries(Tail(q)) = Tail(PushEntries(q))
         /\ ReadyEntries(Tail(q)) = Tail(ReadyEntries(q))
         /\ ResultEntries(Tail(q)) = Tail(ResultEntries(q))
  BY DEF RequestEntries, WorkEntries, PushEntries, ReadyEntries, ResultEntries

LEMMA EntriesOfAppend ==
  ASSUME NEW S, NEW q \in Seq(S), NEW m \in S
  PROVE  /\ \A kind : RequestEntries(Append(q, m), kind)
                        = Append(RequestEntries(q, kind), Entry(m, kind))
         /\ WorkEntries(Append(q, m)) = Append(WorkEntries(q), Entry(m.id, m.type))
         /\ PushEntries(Append(q, m)) = Append(PushEntries(q), Entry(m.id, "rdma"))
         /\ ReadyEntries(Append(q, m)) = Append(ReadyEntries(q), Entry(m.id, m.kind))
         /\ ResultEntries(Append(q, m)) = Append(ResultEntries(q), ResultEntry(m))
  BY DEF RequestEntries, WorkEntries, PushEntries, ReadyEntries, ResultEntries

LEMMA BoxNames ==
  /\ \A k \in Boxes :
       /\ k = <<k[1], k[2]>>
       /\ k[1] \in {"frontend", "tta", "work", "push", "ready", "result"}
       /\ k[1] = "frontend" => k[2] = "DS"
       /\ k[1] = "tta" => k[2] \in Roles
       /\ k[1] \in {"work", "push", "ready"} => k[2] \in Inst
       /\ k[1] = "result" => k[2] \in Connections
  /\ <<"frontend", "DS">> \in Boxes
  /\ \A x \in Roles : <<"tta", x>> \in Boxes
  /\ \A x \in Inst : <<"work", x>> \in Boxes /\ <<"push", x>> \in Boxes /\ <<"ready", x>> \in Boxes
  /\ \A x \in Connections : <<"result", x>> \in Boxes
  BY DEF Boxes

(* A step that changes one queue changes one box.                          *)
LEMMA FrontendBox ==
  ASSUME NEW f \in Seq(Requests), NEW t, NEW w, NEW p, NEW c, NEW m
  PROVE  /\ f # <<>> => MailOf(Tail(f), t, w, p, c, m)
                          = Drop(MailOf(f, t, w, p, c, m), <<"frontend", "DS">>)
         /\ \A e \in Requests : MailOf(Append(f, e), t, w, p, c, m)
                          = Put(MailOf(f, t, w, p, c, m), <<"frontend", "DS">>, Entry(e, "client"))
<1> DEFINE k == <<"frontend", "DS">>
<1>1. ASSUME NEW new, NEW l \in Boxes
      PROVE  /\ l = k => BoxOf(l, new, t, w, p, c, m) = RequestEntries(new, "client")
             /\ l # k => BoxOf(l, new, t, w, p, c, m) = BoxOf(l, f, t, w, p, c, m)
  <2>1. l = k <=> l[1] = "frontend"
    BY BoxNames
  <2> QED
    BY <2>1 DEF BoxOf
<1>2. f # <<>> => RequestEntries(Tail(f), "client") = Tail(RequestEntries(f, "client"))
  BY EntriesOfTail
<1>3. \A e \in Requests : RequestEntries(Append(f, e), "client")
                     = Append(RequestEntries(f, "client"), Entry(e, "client"))
  BY EntriesOfAppend
<1> HIDE DEF k
<1> QED
  BY <1>1, <1>2, <1>3 DEF MailOf, Drop, Put, k

PushItem == [id : Requests, dest : Dest]
Queues(D, S) == [D -> Seq(S)]

(* g is f with the head of f[x] taken off, with q in the place of f[x], or *)
(* with e added to f[x]; and the same for a box.                           *)
Popped(f, g, x) == x \in DOMAIN f /\ f[x] # <<>> /\ g = [f EXCEPT ![x] = Tail(@)]
Changed(f, g, x, q) == g = [f EXCEPT ![x] = q]
SetBox(M, k, q) == [l \in Boxes |-> IF l = k THEN q ELSE M[l]]
Added(f, g, x, e) == g = [f EXCEPT ![x] = Append(@, e)]

LEMMA TtaBox ==
  ASSUME NEW t \in Queues(Roles, Requests), NEW f, NEW w, NEW p, NEW c, NEW m,
         NEW g, NEW x, NEW q, Changed(t, g, x, q)
  PROVE  MailOf(f, g, w, p, c, m) = SetBox(MailOf(f, t, w, p, c, m), <<"tta", x>>, RequestEntries(q, "waiting"))
<1> DEFINE k == <<"tta", x>>
<1>1. /\ DOMAIN g = Roles
      /\ \A y \in Roles : g[y] = IF y = x THEN q ELSE t[y]
  BY DEF Queues, Changed
<1>2. ASSUME NEW l \in Boxes
      PROVE  BoxOf(l, f, g, w, p, c, m) = IF l = k THEN RequestEntries(q, "waiting") ELSE BoxOf(l, f, t, w, p, c, m)
  <2>1. CASE l[1] = "tta"
    <3>1. l[2] \in Roles /\ (l = k <=> l[2] = x)
      BY <2>1, BoxNames
    <3> QED
      BY <1>1, <2>1, <3>1 DEF BoxOf
  <2>2. CASE l[1] # "tta"
    <3>1. l # k /\ l[1] \in {"frontend", "tta", "work", "push", "ready", "result"}
      BY <2>2, BoxNames
    <3> QED
      BY <2>2, <3>1 DEF BoxOf
  <2> QED
    BY <2>1, <2>2
<1> HIDE DEF k
<1> QED
  BY <1>2 DEF MailOf, SetBox, k

LEMMA TtaPop ==
  ASSUME NEW t \in Queues(Roles, Requests), NEW f, NEW w, NEW p, NEW c, NEW m, NEW g, NEW x, Popped(t, g, x)
  PROVE  MailOf(f, g, w, p, c, m) = Drop(MailOf(f, t, w, p, c, m), <<"tta", x>>)
<1> DEFINE k == <<"tta", x>>
           M == MailOf(f, t, w, p, c, m)
<1>1. x \in Roles /\ t[x] \in Seq(Requests) /\ t[x] # <<>> /\ Changed(t, g, x, Tail(t[x]))
  BY DEF Queues, Popped, Changed
<1>2. k \in Boxes /\ M[k] = RequestEntries(t[x], "waiting")
  BY <1>1, BoxNames DEF MailOf, BoxOf
<1>3. RequestEntries(Tail(t[x]), "waiting") = Tail(M[k])
  BY <1>1, <1>2, EntriesOfTail
<1>4. MailOf(f, g, w, p, c, m) = SetBox(M, k, RequestEntries(Tail(t[x]), "waiting"))
  BY <1>1, TtaBox
<1> HIDE DEF M, k
<1>5. MailOf(f, g, w, p, c, m) = Drop(M, k)
  BY <1>3, <1>4 DEF SetBox, Drop
<1> QED
  BY <1>5 DEF M, k

LEMMA TtaAdd ==
  ASSUME NEW t \in Queues(Roles, Requests), NEW f, NEW w, NEW p, NEW c, NEW m, NEW g, NEW x, NEW e \in Requests,
         Added(t, g, x, e)
  PROVE  MailOf(f, g, w, p, c, m) = Put(MailOf(f, t, w, p, c, m), <<"tta", x>>, Entry(e, "waiting"))
<1> DEFINE k == <<"tta", x>>
           M == MailOf(f, t, w, p, c, m)
<1>1. Changed(t, g, x, Append(t[x], e))
  BY DEF Queues, Added, Changed
<1>2. MailOf(f, g, w, p, c, m) = SetBox(M, k, RequestEntries(Append(t[x], e), "waiting"))
  BY <1>1, TtaBox
<1>3. ASSUME k \in Boxes PROVE RequestEntries(Append(t[x], e), "waiting") = Append(M[k], Entry(e, "waiting"))
  <2>1. x \in Roles /\ M[k] = RequestEntries(t[x], "waiting")
    BY <1>3, BoxNames DEF MailOf, BoxOf
  <2>2. t[x] \in Seq(Requests)
    BY <2>1 DEF Queues
  <2> QED
    BY <2>1, <2>2, EntriesOfAppend
<1> HIDE DEF M, k
<1>4. MailOf(f, g, w, p, c, m) = Put(M, k, Entry(e, "waiting"))
  BY <1>2, <1>3, Zenon DEF SetBox, Put
<1> QED
  BY <1>4 DEF M, k

LEMMA WorkBox ==
  ASSUME NEW w \in Queues(Inst, WorkMsg), NEW f, NEW t, NEW p, NEW c, NEW m,
         NEW g, NEW x, NEW q, Changed(w, g, x, q)
  PROVE  MailOf(f, t, g, p, c, m) = SetBox(MailOf(f, t, w, p, c, m), <<"work", x>>, WorkEntries(q))
<1> DEFINE k == <<"work", x>>
<1>1. /\ DOMAIN g = Inst
      /\ \A y \in Inst : g[y] = IF y = x THEN q ELSE w[y]
  BY DEF Queues, Changed
<1>2. ASSUME NEW l \in Boxes
      PROVE  BoxOf(l, f, t, g, p, c, m) = IF l = k THEN WorkEntries(q) ELSE BoxOf(l, f, t, w, p, c, m)
  <2>1. CASE l[1] = "work"
    <3>1. l[2] \in Inst /\ (l = k <=> l[2] = x)
      BY <2>1, BoxNames
    <3> QED
      BY <1>1, <2>1, <3>1 DEF BoxOf
  <2>2. CASE l[1] # "work"
    <3>1. l # k /\ l[1] \in {"frontend", "tta", "work", "push", "ready", "result"}
      BY <2>2, BoxNames
    <3> QED
      BY <2>2, <3>1 DEF BoxOf
  <2> QED
    BY <2>1, <2>2
<1> HIDE DEF k
<1> QED
  BY <1>2 DEF MailOf, SetBox, k

LEMMA WorkPop ==
  ASSUME NEW w \in Queues(Inst, WorkMsg), NEW f, NEW t, NEW p, NEW c, NEW m, NEW g, NEW x, Popped(w, g, x)
  PROVE  MailOf(f, t, g, p, c, m) = Drop(MailOf(f, t, w, p, c, m), <<"work", x>>)
<1> DEFINE k == <<"work", x>>
           M == MailOf(f, t, w, p, c, m)
<1>1. x \in Inst /\ w[x] \in Seq(WorkMsg) /\ w[x] # <<>> /\ Changed(w, g, x, Tail(w[x]))
  BY DEF Queues, Popped, Changed
<1>2. k \in Boxes /\ M[k] = WorkEntries(w[x])
  BY <1>1, BoxNames, Zenon DEF MailOf, BoxOf
<1>3. WorkEntries(Tail(w[x])) = Tail(M[k])
  BY <1>1, <1>2, EntriesOfTail
<1>4. MailOf(f, t, g, p, c, m) = SetBox(M, k, WorkEntries(Tail(w[x])))
  BY <1>1, WorkBox
<1> HIDE DEF M, k
<1>5. MailOf(f, t, g, p, c, m) = Drop(M, k)
  BY <1>3, <1>4 DEF SetBox, Drop
<1> QED
  BY <1>5 DEF M, k

LEMMA WorkAdd ==
  ASSUME NEW w \in Queues(Inst, WorkMsg), NEW f, NEW t, NEW p, NEW c, NEW m, NEW g, NEW x, NEW e \in WorkMsg,
         Added(w, g, x, e)
  PROVE  MailOf(f, t, g, p, c, m) = Put(MailOf(f, t, w, p, c, m), <<"work", x>>, Entry(e.id, e.type))
<1> DEFINE k == <<"work", x>>
           M == MailOf(f, t, w, p, c, m)
<1>1. Changed(w, g, x, Append(w[x], e))
  BY DEF Queues, Added, Changed
<1>2. MailOf(f, t, g, p, c, m) = SetBox(M, k, WorkEntries(Append(w[x], e)))
  BY <1>1, WorkBox
<1>3. ASSUME k \in Boxes PROVE WorkEntries(Append(w[x], e)) = Append(M[k], Entry(e.id, e.type))
  <2>1. x \in Inst /\ M[k] = WorkEntries(w[x])
    BY <1>3, BoxNames DEF MailOf, BoxOf
  <2>2. w[x] \in Seq(WorkMsg)
    BY <2>1 DEF Queues
  <2> QED
    BY <2>1, <2>2, EntriesOfAppend
<1> HIDE DEF M, k
<1>4. MailOf(f, t, g, p, c, m) = Put(M, k, Entry(e.id, e.type))
  BY <1>2, <1>3, Zenon DEF SetBox, Put
<1> QED
  BY <1>4 DEF M, k

LEMMA PushBox ==
  ASSUME NEW p \in Queues(Inst, PushItem), NEW f, NEW t, NEW w, NEW c, NEW m,
         NEW g, NEW x, NEW q, Changed(p, g, x, q)
  PROVE  MailOf(f, t, w, g, c, m) = SetBox(MailOf(f, t, w, p, c, m), <<"push", x>>, PushEntries(q))
<1> DEFINE k == <<"push", x>>
<1>1. /\ DOMAIN g = Inst
      /\ \A y \in Inst : g[y] = IF y = x THEN q ELSE p[y]
  BY DEF Queues, Changed
<1>2. ASSUME NEW l \in Boxes
      PROVE  BoxOf(l, f, t, w, g, c, m) = IF l = k THEN PushEntries(q) ELSE BoxOf(l, f, t, w, p, c, m)
  <2>1. CASE l[1] = "push"
    <3>1. l[2] \in Inst /\ (l = k <=> l[2] = x)
      BY <2>1, BoxNames
    <3> QED
      BY <1>1, <2>1, <3>1 DEF BoxOf
  <2>2. CASE l[1] # "push"
    <3>1. l # k /\ l[1] \in {"frontend", "tta", "work", "push", "ready", "result"}
      BY <2>2, BoxNames
    <3> QED
      BY <2>2, <3>1 DEF BoxOf
  <2> QED
    BY <2>1, <2>2
<1> HIDE DEF k
<1> QED
  BY <1>2 DEF MailOf, SetBox, k

LEMMA PushPop ==
  ASSUME NEW p \in Queues(Inst, PushItem), NEW f, NEW t, NEW w, NEW c, NEW m, NEW g, NEW x, Popped(p, g, x)
  PROVE  MailOf(f, t, w, g, c, m) = Drop(MailOf(f, t, w, p, c, m), <<"push", x>>)
<1> DEFINE k == <<"push", x>>
           M == MailOf(f, t, w, p, c, m)
<1>1. x \in Inst /\ p[x] \in Seq(PushItem) /\ p[x] # <<>> /\ Changed(p, g, x, Tail(p[x]))
  BY DEF Queues, Popped, Changed
<1>2. k \in Boxes /\ M[k] = PushEntries(p[x])
  BY <1>1, BoxNames, Zenon DEF MailOf, BoxOf
<1>3. PushEntries(Tail(p[x])) = Tail(M[k])
  BY <1>1, <1>2, EntriesOfTail, Zenon
<1>4. MailOf(f, t, w, g, c, m) = SetBox(M, k, PushEntries(Tail(p[x])))
  BY <1>1, PushBox, SMTT(20)
<1> HIDE DEF M, k
<1>5. MailOf(f, t, w, g, c, m) = Drop(M, k)
  BY <1>3, <1>4 DEF SetBox, Drop
<1> QED
  BY <1>5 DEF M, k

LEMMA PushAdd ==
  ASSUME NEW p \in Queues(Inst, PushItem), NEW f, NEW t, NEW w, NEW c, NEW m, NEW g, NEW x, NEW e \in PushItem,
         Added(p, g, x, e)
  PROVE  MailOf(f, t, w, g, c, m) = Put(MailOf(f, t, w, p, c, m), <<"push", x>>, Entry(e.id, "rdma"))
<1> DEFINE k == <<"push", x>>
           M == MailOf(f, t, w, p, c, m)
<1>1. Changed(p, g, x, Append(p[x], e))
  BY DEF Queues, Added, Changed
<1>2. MailOf(f, t, w, g, c, m) = SetBox(M, k, PushEntries(Append(p[x], e)))
  BY <1>1, PushBox
<1>3. ASSUME k \in Boxes PROVE PushEntries(Append(p[x], e)) = Append(M[k], Entry(e.id, "rdma"))
  <2>1. x \in Inst /\ M[k] = PushEntries(p[x])
    BY <1>3, BoxNames DEF MailOf, BoxOf
  <2>2. p[x] \in Seq(PushItem)
    BY <2>1 DEF Queues
  <2> QED
    BY <2>1, <2>2, EntriesOfAppend
<1> HIDE DEF M, k
<1>4. MailOf(f, t, w, g, c, m) = Put(M, k, Entry(e.id, "rdma"))
  BY <1>2, <1>3, Zenon DEF SetBox, Put
<1> QED
  BY <1>4 DEF M, k

LEMMA ReadyBox ==
  ASSUME NEW c \in Queues(Inst, ReadyItem), NEW f, NEW t, NEW w, NEW p, NEW m,
         NEW g, NEW x, NEW q, Changed(c, g, x, q)
  PROVE  MailOf(f, t, w, p, g, m) = SetBox(MailOf(f, t, w, p, c, m), <<"ready", x>>, ReadyEntries(q))
<1> DEFINE k == <<"ready", x>>
<1>1. /\ DOMAIN g = Inst
      /\ \A y \in Inst : g[y] = IF y = x THEN q ELSE c[y]
  BY DEF Queues, Changed
<1>2. ASSUME NEW l \in Boxes
      PROVE  BoxOf(l, f, t, w, p, g, m) = IF l = k THEN ReadyEntries(q) ELSE BoxOf(l, f, t, w, p, c, m)
  <2>1. CASE l[1] = "ready"
    <3>1. l[2] \in Inst /\ (l = k <=> l[2] = x)
      BY <2>1, BoxNames
    <3> QED
      BY <1>1, <2>1, <3>1 DEF BoxOf
  <2>2. CASE l[1] # "ready"
    <3>1. l # k /\ l[1] \in {"frontend", "tta", "work", "push", "ready", "result"}
      BY <2>2, BoxNames
    <3> QED
      BY <2>2, <3>1 DEF BoxOf
  <2> QED
    BY <2>1, <2>2
<1> HIDE DEF k
<1> QED
  BY <1>2 DEF MailOf, SetBox, k

LEMMA ReadyPop ==
  ASSUME NEW c \in Queues(Inst, ReadyItem), NEW f, NEW t, NEW w, NEW p, NEW m, NEW g, NEW x, Popped(c, g, x)
  PROVE  MailOf(f, t, w, p, g, m) = Drop(MailOf(f, t, w, p, c, m), <<"ready", x>>)
<1> DEFINE k == <<"ready", x>>
           M == MailOf(f, t, w, p, c, m)
<1>1. x \in Inst /\ c[x] \in Seq(ReadyItem) /\ c[x] # <<>> /\ Changed(c, g, x, Tail(c[x]))
  BY DEF Queues, Popped, Changed
<1>2. k \in Boxes /\ M[k] = ReadyEntries(c[x])
  BY <1>1, BoxNames, Zenon DEF MailOf, BoxOf
<1>3. ReadyEntries(Tail(c[x])) = Tail(M[k])
  BY <1>1, <1>2, EntriesOfTail, Zenon
<1>4. MailOf(f, t, w, p, g, m) = SetBox(M, k, ReadyEntries(Tail(c[x])))
  BY <1>1, ReadyBox
<1> HIDE DEF M, k
<1>5. MailOf(f, t, w, p, g, m) = Drop(M, k)
  BY <1>3, <1>4 DEF SetBox, Drop
<1> QED
  BY <1>5 DEF M, k

LEMMA ReadyAdd ==
  ASSUME NEW c \in Queues(Inst, ReadyItem), NEW f, NEW t, NEW w, NEW p, NEW m, NEW g, NEW x, NEW e \in ReadyItem,
         Added(c, g, x, e)
  PROVE  MailOf(f, t, w, p, g, m) = Put(MailOf(f, t, w, p, c, m), <<"ready", x>>, Entry(e.id, e.kind))
<1> DEFINE k == <<"ready", x>>
           M == MailOf(f, t, w, p, c, m)
<1>1. Changed(c, g, x, Append(c[x], e))
  BY DEF Queues, Added, Changed
<1>2. MailOf(f, t, w, p, g, m) = SetBox(M, k, ReadyEntries(Append(c[x], e)))
  BY <1>1, ReadyBox
<1>3. ASSUME k \in Boxes PROVE ReadyEntries(Append(c[x], e)) = Append(M[k], Entry(e.id, e.kind))
  <2>1. x \in Inst /\ M[k] = ReadyEntries(c[x])
    BY <1>3, BoxNames DEF MailOf, BoxOf
  <2>2. c[x] \in Seq(ReadyItem)
    BY <2>1 DEF Queues
  <2> QED
    BY <2>1, <2>2, EntriesOfAppend
<1> HIDE DEF M, k
<1>4. MailOf(f, t, w, p, g, m) = Put(M, k, Entry(e.id, e.kind))
  BY <1>2, <1>3, Zenon DEF SetBox, Put
<1> QED
  BY <1>4 DEF M, k

LEMMA ResultBox ==
  ASSUME NEW m \in Queues(Connections, ResultMsg), NEW f, NEW t, NEW w, NEW p, NEW c,
         NEW g, NEW x, NEW q, Changed(m, g, x, q)
  PROVE  MailOf(f, t, w, p, c, g) = SetBox(MailOf(f, t, w, p, c, m), <<"result", x>>, ResultEntries(q))
<1> DEFINE k == <<"result", x>>
<1>1. /\ DOMAIN g = Connections
      /\ \A y \in Connections : g[y] = IF y = x THEN q ELSE m[y]
  BY DEF Queues, Changed
<1>2. ASSUME NEW l \in Boxes
      PROVE  BoxOf(l, f, t, w, p, c, g) = IF l = k THEN ResultEntries(q) ELSE BoxOf(l, f, t, w, p, c, m)
  <2>1. CASE l[1] = "result"
    <3>1. l[2] \in Connections /\ (l = k <=> l[2] = x)
      BY <2>1, BoxNames
    <3> QED
      BY <1>1, <2>1, <3>1 DEF BoxOf
  <2>2. CASE l[1] # "result"
    <3>1. l # k /\ l[1] \in {"frontend", "tta", "work", "push", "ready", "result"}
      BY <2>2, BoxNames
    <3> QED
      BY <2>2, <3>1 DEF BoxOf
  <2> QED
    BY <2>1, <2>2
<1> HIDE DEF k
<1> QED
  BY <1>2 DEF MailOf, SetBox, k

LEMMA ResultPop ==
  ASSUME NEW m \in Queues(Connections, ResultMsg), NEW f, NEW t, NEW w, NEW p, NEW c, NEW g, NEW x, Popped(m, g, x)
  PROVE  MailOf(f, t, w, p, c, g) = Drop(MailOf(f, t, w, p, c, m), <<"result", x>>)
<1> DEFINE k == <<"result", x>>
           M == MailOf(f, t, w, p, c, m)
<1>1. x \in Connections /\ m[x] \in Seq(ResultMsg) /\ m[x] # <<>> /\ Changed(m, g, x, Tail(m[x]))
  BY DEF Queues, Popped, Changed
<1>2. k \in Boxes /\ M[k] = ResultEntries(m[x])
  BY <1>1, BoxNames DEF MailOf, BoxOf
<1>3. ResultEntries(Tail(m[x])) = Tail(M[k])
  BY <1>1, <1>2, EntriesOfTail, Zenon
<1>4. MailOf(f, t, w, p, c, g) = SetBox(M, k, ResultEntries(Tail(m[x])))
  BY <1>1, ResultBox, SMTT(20)
<1> HIDE DEF M, k
<1>5. MailOf(f, t, w, p, c, g) = Drop(M, k)
  BY <1>3, <1>4 DEF SetBox, Drop
<1> QED
  BY <1>5 DEF M, k

LEMMA ResultAdd ==
  ASSUME NEW m \in Queues(Connections, ResultMsg), NEW f, NEW t, NEW w, NEW p, NEW c, NEW g, NEW x, NEW e \in ResultMsg,
         Added(m, g, x, e)
  PROVE  MailOf(f, t, w, p, c, g) = Put(MailOf(f, t, w, p, c, m), <<"result", x>>, ResultEntry(e))
<1> DEFINE k == <<"result", x>>
           M == MailOf(f, t, w, p, c, m)
<1>1. Changed(m, g, x, Append(m[x], e))
  BY DEF Queues, Added, Changed
<1>2. MailOf(f, t, w, p, c, g) = SetBox(M, k, ResultEntries(Append(m[x], e)))
  BY <1>1, ResultBox, SMTT(20)
<1>3. ASSUME k \in Boxes PROVE ResultEntries(Append(m[x], e)) = Append(M[k], ResultEntry(e))
  <2>1. x \in Connections /\ M[k] = ResultEntries(m[x])
    BY <1>3, BoxNames DEF MailOf, BoxOf
  <2>2. m[x] \in Seq(ResultMsg)
    BY <2>1 DEF Queues
  <2> QED
    BY <2>1, <2>2, EntriesOfAppend
<1> HIDE DEF M, k
<1>4. MailOf(f, t, w, p, c, g) = Put(M, k, ResultEntry(e))
  BY <1>2, <1>3, Zenon DEF SetBox, Put
<1> QED
  BY <1>4 DEF M, k

LEMMA QueueTypes ==
  TypeOK => /\ tta \in Queues(Roles, Requests)
            /\ work \in Queues(Inst, WorkMsg)
            /\ rdma_push_queue \in Queues(Inst, PushItem)
            /\ compute_ready_queue \in Queues(Inst, ReadyItem)
            /\ result \in Queues(Connections, ResultMsg)
  BY Zenon DEF Queues, PushItem, TypeOK, NetworkTypeOK, ServerTypeOK, InstanceTypeOK

(* A handler of the server that took a report from a result connection and *)
(* then sends a message to an instance, or queues the request again.       *)
LEMMA ServerSends ==
  ASSUME TypeOK, UNCHANGED <<frontend, tta, rdma_push_queue, compute_ready_queue>>,
         NEW x, NEW e \in WorkMsg, Added(work, work', x, e)
  PROVE  Mail' = Put(MailOf(frontend, tta, work, rdma_push_queue, compute_ready_queue, result'),
                     <<"work", x>>, Entry(e.id, e.type))
<1>1. MailOf(frontend, tta, work', rdma_push_queue, compute_ready_queue, result')
        = Put(MailOf(frontend, tta, work, rdma_push_queue, compute_ready_queue, result'),
              <<"work", x>>, Entry(e.id, e.type))
  BY QueueTypes, WorkAdd
<1> QED
  BY <1>1 DEF Mail

LEMMA ServerQueues ==
  ASSUME TypeOK, UNCHANGED <<frontend, work, rdma_push_queue, compute_ready_queue>>,
         NEW x, NEW e \in Requests, Added(tta, tta', x, e)
  PROVE  Mail' = Put(MailOf(frontend, tta, work, rdma_push_queue, compute_ready_queue, result'),
                     <<"tta", x>>, Entry(e, "waiting"))
<1>1. MailOf(frontend, tta', work, rdma_push_queue, compute_ready_queue, result')
        = Put(MailOf(frontend, tta, work, rdma_push_queue, compute_ready_queue, result'),
              <<"tta", x>>, Entry(e, "waiting"))
  BY QueueTypes, TtaAdd
<1> QED
  BY <1>1 DEF Mail

(* Every box holds entries.                                                *)
LEMMA MailType == TypeOK => Mail \in [Boxes -> Seq(Entries)]
<1> SUFFICES ASSUME TypeOK, NEW k \in Boxes
             PROVE  BoxOf(k, frontend, tta, work, rdma_push_queue, compute_ready_queue, result)
                      \in Seq(Entries)
  BY DEF Mail, MailOf
<1>1. CASE k[1] = "frontend"
  <2>1. frontend \in Seq(Requests)
    BY DEF TypeOK, NetworkTypeOK
  <2> QED
    BY <1>1, <2>1 DEF BoxOf, RequestEntries, Entry, Entries, Kinds
<1>2. CASE k[1] = "tta"
  <2>1. tta[k[2]] \in Seq(Requests)
    BY <1>2, BoxNames DEF TypeOK, ServerTypeOK
  <2> QED
    BY <1>2, <2>1 DEF BoxOf, RequestEntries, Entry, Entries, Kinds
<1>3. CASE k[1] = "work"
  <2>1. work[k[2]] \in Seq(WorkMsg)
    BY <1>3, BoxNames DEF TypeOK, NetworkTypeOK
  <2>2. \A m \in WorkMsg : Entry(m.id, m.type) \in Entries
    BY DEF WorkMsg, Entry, Entries, Kinds
  <2>3. WorkEntries(work[k[2]]) \in Seq(Entries)
    BY <2>1, <2>2 DEF WorkEntries
  <2> QED
    BY <1>3, <2>3, Zenon DEF BoxOf
<1>4. CASE k[1] = "push"
  <2>1. rdma_push_queue[k[2]] \in Seq(PushItem)
    BY <1>4, BoxNames, Zenon DEF TypeOK, InstanceTypeOK, PushItem
  <2>2. \A m \in PushItem : Entry(m.id, "rdma") \in Entries
    BY DEF Entry, Entries, Kinds, PushItem
  <2>3. PushEntries(rdma_push_queue[k[2]]) \in Seq(Entries)
    BY <2>1, <2>2 DEF PushEntries
  <2> QED
    BY <1>4, <2>3, Zenon DEF BoxOf
<1>5. CASE k[1] = "ready"
  <2>1. compute_ready_queue[k[2]] \in Seq(ReadyItem)
    BY <1>5, BoxNames DEF TypeOK, InstanceTypeOK
  <2>2. \A m \in ReadyItem : Entry(m.id, m.kind) \in Entries
    BY DEF ReadyItem, Entry, Entries, Kinds
  <2>3. ReadyEntries(compute_ready_queue[k[2]]) \in Seq(Entries)
    BY <2>1, <2>2 DEF ReadyEntries
  <2> QED
    BY <1>5, <2>3, Zenon DEF BoxOf
<1>6. CASE k[1] = "result"
  <2>1. result[k[2]] \in Seq(ResultMsg)
    BY <1>6, BoxNames DEF TypeOK, NetworkTypeOK
  <2>2. \A m \in ResultMsg : ResultEntry(m) \in Entries
    BY DEF ResultMsg, ResultEntry, Entry, Entries, Kinds, TransferRegisterMsg
  <2>3. ResultEntries(result[k[2]]) \in Seq(Entries)
    BY <2>1, <2>2 DEF ResultEntries
  <2> QED
    BY <1>6, <2>3, Zenon DEF BoxOf
<1> QED
  BY <1>1, <1>2, <1>3, <1>4, <1>5, <1>6, BoxNames

(* The first entry of a box is about the first message of its queue.       *)
LEMMA HeadEntry ==
  ASSUME TypeOK
  PROVE  /\ frontend # <<>> => /\ Mail[<<"frontend", "DS">>] # <<>>
                               /\ Head(Mail[<<"frontend", "DS">>]) = Entry(Head(frontend), "client")
         /\ \A x \in Roles : tta[x] # <<>> =>
              /\ Mail[<<"tta", x>>] # <<>>
              /\ Head(Mail[<<"tta", x>>]) = Entry(Head(tta[x]), "waiting")
         /\ \A x \in Inst : work[x] # <<>> =>
              /\ Mail[<<"work", x>>] # <<>>
              /\ Head(Mail[<<"work", x>>]) = Entry(Head(work[x]).id, Head(work[x]).type)
         /\ \A x \in Inst : rdma_push_queue[x] # <<>> =>
              /\ Mail[<<"push", x>>] # <<>>
              /\ Head(Mail[<<"push", x>>]) = Entry(Head(rdma_push_queue[x]).id, "rdma")
         /\ \A x \in Inst : compute_ready_queue[x] # <<>> =>
              /\ Mail[<<"ready", x>>] # <<>>
              /\ Head(Mail[<<"ready", x>>]) =
                   Entry(Head(compute_ready_queue[x]).id, Head(compute_ready_queue[x]).kind)
         /\ \A c \in Connections : result[c] # <<>> =>
              /\ Mail[<<"result", c>>] # <<>>
              /\ Head(Mail[<<"result", c>>]) = ResultEntry(Head(result[c]))
<1>1. ASSUME NEW S, NEW q \in Seq(S), q # <<>>
      PROVE  /\ \A kind : /\ RequestEntries(q, kind) # <<>>
                          /\ Head(RequestEntries(q, kind)) = Entry(Head(q), kind)
             /\ WorkEntries(q) # <<>> /\ Head(WorkEntries(q)) = Entry(Head(q).id, Head(q).type)
             /\ PushEntries(q) # <<>> /\ Head(PushEntries(q)) = Entry(Head(q).id, "rdma")
             /\ ReadyEntries(q) # <<>> /\ Head(ReadyEntries(q)) = Entry(Head(q).id, Head(q).kind)
             /\ ResultEntries(q) # <<>> /\ Head(ResultEntries(q)) = ResultEntry(Head(q))
  BY <1>1 DEF RequestEntries, WorkEntries, PushEntries, ReadyEntries, ResultEntries
<1>2. frontend # <<>> => /\ Mail[<<"frontend", "DS">>] # <<>>
                         /\ Head(Mail[<<"frontend", "DS">>]) = Entry(Head(frontend), "client")
  BY <1>1, BoxNames DEF Mail, MailOf, BoxOf, TypeOK, NetworkTypeOK
<1>3. ASSUME NEW x \in Roles, tta[x] # <<>>
      PROVE  /\ Mail[<<"tta", x>>] # <<>>
             /\ Head(Mail[<<"tta", x>>]) = Entry(Head(tta[x]), "waiting")
  BY <1>1, <1>3, BoxNames DEF Mail, MailOf, BoxOf, TypeOK, ServerTypeOK
<1>4. ASSUME NEW x \in Inst, work[x] # <<>>
      PROVE  /\ Mail[<<"work", x>>] # <<>>
             /\ Head(Mail[<<"work", x>>]) = Entry(Head(work[x]).id, Head(work[x]).type)
  BY <1>1, <1>4, BoxNames, Zenon DEF Mail, MailOf, BoxOf, TypeOK, NetworkTypeOK
<1>5. ASSUME NEW x \in Inst, rdma_push_queue[x] # <<>>
      PROVE  /\ Mail[<<"push", x>>] # <<>>
             /\ Head(Mail[<<"push", x>>]) = Entry(Head(rdma_push_queue[x]).id, "rdma")
  BY <1>1, <1>5, BoxNames, Zenon DEF Mail, MailOf, BoxOf, TypeOK, InstanceTypeOK
<1>6. ASSUME NEW x \in Inst, compute_ready_queue[x] # <<>>
      PROVE  /\ Mail[<<"ready", x>>] # <<>>
             /\ Head(Mail[<<"ready", x>>]) =
                  Entry(Head(compute_ready_queue[x]).id, Head(compute_ready_queue[x]).kind)
  BY <1>1, <1>6, BoxNames, Zenon DEF Mail, MailOf, BoxOf, TypeOK, InstanceTypeOK
<1>7. ASSUME NEW c \in Connections, result[c] # <<>>
      PROVE  /\ Mail[<<"result", c>>] # <<>>
             /\ Head(Mail[<<"result", c>>]) = ResultEntry(Head(result[c]))
  BY <1>1, <1>7, BoxNames DEF Mail, MailOf, BoxOf, TypeOK, NetworkTypeOK
<1> QED
  BY <1>2, <1>3, <1>4, <1>5, <1>6, <1>7, Zenon

----------------------------------------------------------------------------
(* What a record of the tracker says of the entry about its request.       *)
RunningOn(role) ==
  IF role = "denoiser" THEN "DENOISING_RUNNING"
  ELSE IF role = "decoder" THEN "DECODER_RUNNING"
  ELSE "none"

WaitingFor(role) ==
  IF role = "encoder" THEN "ENCODER_WAITING"
  ELSE IF role = "denoiser" THEN "DENOISING_WAITING"
  ELSE "DECODER_WAITING"

RoleOf(k) == IF k[1] = "result" THEN k[2][1][1] ELSE k[2][1]

Fits(state, k, kind) ==
  \/ kind = "waiting" /\ k[1] = "tta" /\ state = WaitingFor(k[2])
  \/ kind \in {"work", "staged", "error"} /\ state = "ENCODER_RUNNING"
  \/ /\ kind \in {"alloc", "transfer_control", "allocated", "ready", "transfer_compute"}
     /\ state = RunningOn(RoleOf(k))
  \/ kind \in {"push", "rdma", "pushed"} /\ state \in {"DENOISING_RUNNING", "DECODER_RUNNING"}
  \/ kind \in {"done", "done_error"} /\ state = "DENOISING_RUNNING"
  \/ kind = "result" /\ state = "DECODER_RUNNING"

EntriesFit(M, t) ==
  \A k \in Boxes : \A i \in 1 .. Len(M[k]) : \A r \in Requests :
    About(M[k][i], r) /\ Tracked(t, r) => Fits(t[r].state, k, M[k][i].kind)

(* The states a record is in between two steps, and what a request that    *)
(* has left its encoder has.                                               *)
LaterStates == {"DENOISING_WAITING", "DENOISING_RUNNING", "DECODER_WAITING", "DECODER_RUNNING"}
RestStates == {"ABSENT", "ENCODER_WAITING", "ENCODER_RUNNING"} \cup LaterStates

RecordsRest(t, xf) ==
  \A r \in Requests :
    /\ t[r].state \in RestStates
    /\ t[r].state \in LaterStates => xf[r].size > 0
    /\ t[r].state = "ABSENT" => t[r] = NoRecord

----------------------------------------------------------------------------
(* The slots a tracked request holds: the one of its current stage and,    *)
(* until the push of its input is reported, the one of the stage before.   *)
BeforePush == {"alloc", "transfer_control", "allocated", "push", "rdma", "pushed"}

PushDue(M, r) ==
  \E k \in Boxes : \E i \in 1 .. Len(M[k]) : About(M[k][i], r) /\ M[k][i].kind \in BeforePush

HoldsAs(record, due, x) ==
  \/ /\ x[1] = "encoder"
     /\ record.encoder_instance = x[2]
     /\ \/ record.state \in {"ENCODER_RUNNING", "DENOISING_WAITING"}
        \/ record.state = "DENOISING_RUNNING" /\ due
  \/ /\ x[1] = "denoiser"
     /\ record.denoiser_instance = x[2]
     /\ \/ record.state \in {"DENOISING_RUNNING", "DECODER_WAITING"}
        \/ record.state = "DECODER_RUNNING" /\ due
  \/ /\ x[1] = "decoder"
     /\ record.decoder_instance = x[2]
     /\ record.state = "DECODER_RUNNING"

HoldsSlot(M, t, r, x) == HoldsAs(t[r], PushDue(M, r), x)

Holding(M, t, x) == {r \in Requests : HoldsSlot(M, t, r, x)}

(* The slots that are free and the slots that are held are no more than    *)
(* there are.  A slot that is neither is lost.                             *)
Ledger(M, t, f) ==
  \A x \in Inst :
    /\ IsFiniteSet(Holding(M, t, x))
    /\ f[x] + Cardinality(Holding(M, t, x)) <= Capacity(x[1])

SlotInv ==
  /\ Single(Mail)
  /\ \A r \in unsent : Absent(Mail, r)
  /\ EntriesFit(Mail, tracker)
  /\ RecordsRest(tracker, xfer)
  /\ Ledger(Mail, tracker, free)

----------------------------------------------------------------------------
(* What moving one entry does to what fits and to what is held.            *)
LEMMA FitMoved ==
  ASSUME NEW M, NEW N, NEW t, NEW u, NEW r \in Requests, NEW k, NEW kind,
         Moved(M, N, r, k, kind), EntriesFit(M, t),
         \A q \in Requests \ {r} : u[q] = t[q],
         Tracked(u, r) => Fits(u[r].state, k, kind)
  PROVE  EntriesFit(N, u)
<1> SUFFICES ASSUME NEW l \in Boxes, NEW j \in 1 .. Len(N[l]), NEW q \in Requests,
                    About(N[l][j], q), Tracked(u, q)
             PROVE  Fits(u[q].state, l, N[l][j].kind)
  BY DEF EntriesFit
<1>1. CASE ~ About(N[l][j], r) /\ \E i \in 1 .. Len(M[l]) : N[l][j] = M[l][i]
  <2>1. q # r /\ u[q] = t[q] /\ Tracked(t, q)
    BY <1>1 DEF Tracked
  <2> QED
    BY <1>1, <2>1, ZenonT(30) DEF EntriesFit
<1>2. CASE l = k /\ N[l][j] = Entry(r, kind)
  BY <1>2 DEF About, Entry
<1> QED
  BY <1>1, <1>2, Zenon DEF Moved

LEMMA DueMoved ==
  ASSUME NEW M, NEW N, NEW r \in Requests, NEW k, NEW kind, Moved(M, N, r, k, kind)
  PROVE  /\ \A q \in Requests \ {r} : PushDue(N, q) => PushDue(M, q)
         /\ PushDue(N, r) => kind \in BeforePush
<1>1. ASSUME NEW q \in Requests, PushDue(N, q)
      PROVE  IF q = r THEN kind \in BeforePush ELSE PushDue(M, q)
  <2> PICK l \in Boxes : \E j \in 1 .. Len(N[l]) :
             About(N[l][j], q) /\ N[l][j].kind \in BeforePush
    BY <1>1 DEF PushDue
  <2>1. PICK j \in 1 .. Len(N[l]) : About(N[l][j], q) /\ N[l][j].kind \in BeforePush
    OBVIOUS
  <2>2. CASE ~ About(N[l][j], r) /\ \E i \in 1 .. Len(M[l]) : N[l][j] = M[l][i]
    BY <2>1, <2>2 DEF PushDue
  <2>3. CASE l = k /\ N[l][j] = Entry(r, kind)
    BY <2>1, <2>3 DEF About, Entry
  <2> QED
    BY <2>2, <2>3 DEF Moved
<1> QED
  BY <1>1

LEMMA HoldingMoved ==
  ASSUME NEW M, NEW N, NEW t, NEW u, NEW r \in Requests, NEW k, NEW kind,
         Moved(M, N, r, k, kind),
         \A q \in Requests \ {r} : u[q] = t[q],
         NEW x
  PROVE  Holding(N, u, x) \subseteq Holding(M, t, x) \cup {r}
  BY DueMoved, Zenon DEF Holding, HoldsSlot, HoldsAs

(* The ledger allows a slot to be taken by one request, and to be given    *)
(* back by one that holds it.                                              *)
Booked(A, B, old, new) ==
  \/ new = old /\ B \subseteq A
  \/ new = old + 1 /\ \E r \in A : B \subseteq A \ {r}
  \/ new = old - 1 /\ \E r : B \subseteq A \cup {r}

LEMMA LedgerStep ==
  ASSUME NEW M, NEW N, NEW t, NEW u, NEW f \in [Inst -> Int], NEW g \in [Inst -> Int],
         Ledger(M, t, f),
         \A x \in Inst : Booked(Holding(M, t, x), Holding(N, u, x), f[x], g[x])
  PROVE  Ledger(N, u, g)
<1> SUFFICES ASSUME NEW x \in Inst
             PROVE  /\ IsFiniteSet(Holding(N, u, x))
                    /\ g[x] + Cardinality(Holding(N, u, x)) <= Capacity(x[1])
  BY DEF Ledger
<1> DEFINE A == Holding(M, t, x)
           B == Holding(N, u, x)
<1>1. IsFiniteSet(A) /\ f[x] + Cardinality(A) <= Capacity(x[1]) /\ Capacity(x[1]) \in Nat
  BY ServerAssumption DEF Ledger, Capacity
<1>2. Cardinality(A) \in Nat
  BY <1>1, FS_CardinalityType
<1> HIDE DEF A, B
<1>3. CASE g[x] = f[x] /\ B \subseteq A
  <2>1. IsFiniteSet(B) /\ Cardinality(B) <= Cardinality(A) /\ Cardinality(B) \in Nat
    BY <1>1, <1>3, FS_Subset, FS_CardinalityType
  <2> QED
    BY <1>1, <1>2, <1>3, <2>1 DEF B
<1>4. CASE g[x] = f[x] + 1 /\ \E r \in A : B \subseteq A \ {r}
  <2>1. PICK r \in A : B \subseteq A \ {r}
    BY <1>4
  <2>2. IsFiniteSet(A \ {r}) /\ Cardinality(A \ {r}) = Cardinality(A) - 1
    BY <1>1, FS_RemoveElement, Zenon
  <2>3. IsFiniteSet(B) /\ Cardinality(B) <= Cardinality(A) - 1 /\ Cardinality(B) \in Nat
    BY <2>1, <2>2, FS_Subset, FS_CardinalityType
  <2> QED
    BY <1>1, <1>2, <1>4, <2>3 DEF B
<1>5. CASE g[x] = f[x] - 1 /\ \E r : B \subseteq A \cup {r}
  <2>1. PICK r : B \subseteq A \cup {r}
    BY <1>5
  <2>2. IsFiniteSet(A \cup {r}) /\ Cardinality(A \cup {r}) <= Cardinality(A) + 1
    <3>1. Cardinality(A \cup {r}) = IF r \in A THEN Cardinality(A) ELSE Cardinality(A) + 1
      BY <1>1, FS_AddElement, Zenon
    <3> QED
      BY <1>1, <1>2, <3>1, FS_AddElement
  <2>3. IsFiniteSet(B) /\ Cardinality(B) <= Cardinality(A \cup {r})
        /\ Cardinality(B) \in Nat /\ Cardinality(A \cup {r}) \in Nat
    BY <2>1, <2>2, FS_Subset, FS_CardinalityType
  <2> QED
    BY <1>1, <1>2, <1>5, <2>2, <2>3 DEF B
<1>6. Booked(A, B, f[x], g[x])
  BY DEF A, B
<1> QED
  BY <1>3, <1>4, <1>5, <1>6 DEF Booked, B

----------------------------------------------------------------------------
(* What is known of the request that a message at the head of a queue is   *)
(* about.                                                                  *)
LEMMA HeadKnown ==
  ASSUME TypeOK, SlotInv, NEW from \in Boxes, Mail[from] # <<>>,
         NEW r \in Requests, About(Head(Mail[from]), r)
  PROVE  /\ r \notin unsent
         /\ Tracked(tracker, r) => Fits(tracker[r].state, from, Head(Mail[from]).kind)
         /\ Head(Mail[from]).kind \in BeforePush => PushDue(Mail, r)
<1>1. 1 \in 1 .. Len(Mail[from]) /\ Mail[from][1] = Head(Mail[from])
  BY MailType
<1>2. ~ Absent(Mail, r)
  BY <1>1 DEF Absent
<1> QED
  BY <1>1, <1>2, Zenon DEF SlotInv, EntriesFit, PushDue

(* A step that moves the entry of one request, and may change its record.  *)
LEMMA SlotStep ==
  ASSUME TypeOK, SlotInv, NEW r \in Requests \ unsent, unsent' = unsent,
         NEW k, NEW kind, Moved(Mail, Mail', r, k, kind),
         \A q \in Requests \ {r} : tracker'[q] = tracker[q] /\ xfer'[q] = xfer[q],
         tracker'[r].state \in RestStates,
         tracker'[r].state \in LaterStates => xfer'[r].size > 0,
         tracker'[r].state = "ABSENT" => tracker'[r] = NoRecord,
         Tracked(tracker', r) => Fits(tracker'[r].state, k, kind),
         Ledger(Mail', tracker', free')
  PROVE  SlotInv'
<1>1. EntriesFit(Mail', tracker')
  BY FitMoved, Zenon DEF SlotInv
<1>2. RecordsRest(tracker', xfer')
  BY Zenon DEF SlotInv, RecordsRest
<1>3. \A q \in unsent : Absent(Mail', q)
  BY Zenon DEF SlotInv, Moved, TypeOK, NetworkTypeOK
<1> QED
  BY <1>1, <1>2, <1>3, Zenon DEF SlotInv, Moved

(* An instance moves a request on without the server's knowledge: what the *)
(* server knows fits the new entry as it fitted the old one.               *)
LEMMA InstanceMove ==
  ASSUME TypeOK, SlotInv, UNCHANGED <<unsent, tracker, xfer, free>>,
         NEW from \in Boxes, Mail[from] # <<>>,
         NEW r \in Requests, About(Head(Mail[from]), r),
         NEW k, NEW kind, Moved(Mail, Mail', r, k, kind),
         \A state : Fits(state, from, Head(Mail[from]).kind) => Fits(state, k, kind),
         kind \in BeforePush => Head(Mail[from]).kind \in BeforePush
  PROVE  SlotInv'
<1>1. /\ r \notin unsent
      /\ Tracked(tracker, r) => Fits(tracker[r].state, k, kind)
      /\ kind \in BeforePush => PushDue(Mail, r)
  BY HeadKnown, Zenon
<1>2. \A q \in Requests : PushDue(Mail', q) => PushDue(Mail, q)
  BY <1>1, DueMoved
<1>3. \A x \in Inst : Holding(Mail', tracker, x) \subseteq Holding(Mail, tracker, x)
  BY <1>2, Zenon DEF Holding, HoldsSlot, HoldsAs
<1>4. Ledger(Mail', tracker, free)
  <2>1. \A x \in Inst : Booked(Holding(Mail, tracker, x), Holding(Mail', tracker, x), free[x], free[x])
    BY <1>3, Zenon DEF Booked
  <2> QED
    BY <2>1, LedgerStep, Zenon DEF SlotInv, TypeOK, ServerTypeOK
<1> QED
  BY <1>1, <1>4, SlotStep, Zenon DEF SlotInv, RecordsRest, Tracked

LEMMA EntryType ==
  /\ \A r \in Requests, kind \in Kinds : Entry(r, kind) \in Entries
  /\ \A r, kind : Entry(r, kind).kind = kind /\ Entry(r, kind).id = r
  /\ \A r, kind : kind # "register" => About(Entry(r, kind), r)
  BY DEF Entry, Entries, About

(* The same, with the boxes after the step spelled out.                    *)
LEMMA InstanceMail ==
  ASSUME TypeOK, SlotInv, UNCHANGED <<unsent, tracker, xfer, free>>,
         NEW from \in Boxes, Mail[from] # <<>>,
         NEW r \in Requests, NEW old \in Kinds \ {"register"}, Head(Mail[from]) = Entry(r, old),
         NEW to, NEW kind \in Kinds,
         Mail' = Drop(Mail, from) \/ Mail' = Put(Drop(Mail, from), to, Entry(r, kind)),
         \A state : Fits(state, from, old) => Fits(state, to, kind),
         kind \in BeforePush => old \in BeforePush
  PROVE  SlotInv'
<1>1. Mail \in [Boxes -> Seq(Entries)] /\ Single(Mail)
  BY MailType DEF SlotInv
<1>2. About(Head(Mail[from]), r) /\ Head(Mail[from]).kind = old /\ Entry(r, kind) \in Entries
  BY EntryType
<1>3. Moved(Mail, Mail', r, to, kind)
  BY <1>1, <1>2, MoveEntry
<1> QED
  BY <1>2, <1>3, InstanceMove, Zenon

LEMMA ReportEntries ==
  \A r \in Requests :
    /\ \A size \in Sizes : /\ ResultEntry(TransferStagedMsg(r, size)) = Entry(r, "staged")
                           /\ ResultEntry(TransferDoneMsg(r, size)) = Entry(r, "done")
    /\ ResultEntry(TransferAllocatedMsg(r)) = Entry(r, "allocated")
    /\ ResultEntry(TransferPushedMsg(r)) = Entry(r, "pushed")
    /\ ResultEntry(TransferDoneError(r)) = Entry(r, "done_error")
    /\ ResultEntry(ErrorFrames(r)) = Entry(r, "error")
    /\ \A outcome \in Outcomes : ResultEntry(ResultFrames(r, outcome)) = Entry(r, "result")
  BY DEF ResultEntry, TransferStagedMsg, TransferDoneMsg, TransferAllocatedMsg,
         TransferPushedMsg, TransferDoneError, ErrorFrames, ResultFrames

(* What a step may do to the count of free slots of x: nothing, while the  *)
(* request it handles gains no slot; give back a slot the request held;    *)
(* take one.                                                               *)
Settled(f, g, x, before, after) ==
  \/ g[x] = f[x] /\ (after => before)
  \/ g[x] = f[x] + 1 /\ before /\ ~ after
  \/ g[x] = f[x] - 1

LEMMA ServerMove ==
  ASSUME TypeOK, TypeOK', SlotInv, unsent' = unsent,
         NEW from \in Boxes, Mail[from] # <<>>,
         NEW r \in Requests, NEW old \in Kinds \ {"register"}, Head(Mail[from]) = Entry(r, old),
         NEW to, NEW kind \in Kinds,
         Mail' = Drop(Mail, from) \/ Mail' = Put(Drop(Mail, from), to, Entry(r, kind)),
         \A q \in Requests \ {r} : tracker'[q] = tracker[q] /\ xfer'[q] = xfer[q],
         tracker'[r].state \in RestStates,
         tracker'[r].state \in LaterStates => xfer'[r].size > 0,
         tracker'[r].state = "ABSENT" => tracker'[r] = NoRecord,
         Tracked(tracker', r) => Fits(tracker'[r].state, to, kind),
         \A x \in Inst : Settled(free, free', x, HoldsAs(tracker[r], PushDue(Mail, r), x),
                                 HoldsAs(tracker'[r], kind \in BeforePush, x))
  PROVE  SlotInv'
<1>1. Mail \in [Boxes -> Seq(Entries)] /\ Single(Mail)
  BY MailType DEF SlotInv
<1>2. About(Head(Mail[from]), r) /\ Entry(r, kind) \in Entries
  BY EntryType, Zenon
<1>3. Moved(Mail, Mail', r, to, kind)
  BY <1>1, <1>2, MoveEntry, Zenon
<1>4. r \notin unsent
  BY <1>2, HeadKnown, Zenon
<1>5. Ledger(Mail', tracker', free')
  <2>1. PushDue(Mail', r) => kind \in BeforePush
    BY <1>3, DueMoved, Zenon
  <2>2. \A x \in Inst : HoldsSlot(Mail', tracker', r, x) => HoldsAs(tracker'[r], kind \in BeforePush, x)
    BY <2>1, Zenon DEF HoldsSlot, HoldsAs
  <2>3. ASSUME NEW x \in Inst
        PROVE  Booked(Holding(Mail, tracker, x), Holding(Mail', tracker', x), free[x], free'[x])
    <3>1. Holding(Mail', tracker', x) \subseteq Holding(Mail, tracker, x) \cup {r}
      BY <1>3, HoldingMoved, Zenon
    <3>2. /\ r \in Holding(Mail', tracker', x) => HoldsAs(tracker'[r], kind \in BeforePush, x)
          /\ r \in Holding(Mail, tracker, x) <=> HoldsAs(tracker[r], PushDue(Mail, r), x)
      BY <2>2, Zenon DEF Holding, HoldsSlot
    <3> QED
      BY <3>1, <3>2, Zenon DEF Settled, Booked
  <2>4. free \in [Inst -> Int] /\ free' \in [Inst -> Int] /\ Ledger(Mail, tracker, free)
    BY Zenon DEF TypeOK, ServerTypeOK, SlotInv
  <2> QED
    BY <2>3, <2>4, LedgerStep, Zenon
<1> QED
  BY <1>3, <1>4, <1>5, SlotStep, Zenon

(* A request that is not tracked holds nothing.                            *)
LEMMA NoRecordHolds == \A due, x : ~ HoldsAs(NoRecord, due, x)
  BY DEF HoldsAs, NoRecord

(* A step after which there are fewer entries than before, or the same.    *)
Fewer(M, N) ==
  /\ Single(N)
  /\ \A l \in Boxes : \A j \in 1 .. Len(N[l]) : \E i \in 1 .. Len(M[l]) : N[l][j] = M[l][i]

LEMMA ServerFewer ==
  ASSUME TypeOK, TypeOK', SlotInv, unsent' = unsent, Fewer(Mail, Mail'), xfer' = xfer,
         NEW r \in Requests,
         \A q \in Requests \ {r} : tracker'[q] = tracker[q],
         tracker'[r] \in {tracker[r], NoRecord},
         \A x \in Inst : \/ free'[x] = free[x]
                         \/ /\ free'[x] = free[x] + 1
                            /\ HoldsSlot(Mail, tracker, r, x)
                            /\ tracker'[r] = NoRecord
  PROVE  SlotInv'
<1>1. \A q \in Requests : tracker'[q] = tracker[q] \/ tracker'[q] = NoRecord
  BY Zenon
<1>2. \A q \in Requests : Absent(Mail, q) => Absent(Mail', q)
  BY Zenon DEF Fewer, Absent
<1>3. \A q \in Requests : PushDue(Mail', q) => PushDue(Mail, q)
  BY Zenon DEF Fewer, PushDue
<1>4. EntriesFit(Mail', tracker')
  <2> SUFFICES ASSUME NEW l \in Boxes, NEW j \in 1 .. Len(Mail'[l]), NEW q \in Requests,
                      About(Mail'[l][j], q), Tracked(tracker', q)
               PROVE  Fits(tracker'[q].state, l, Mail'[l][j].kind)
    BY Zenon DEF EntriesFit
  <2>1. tracker'[q] = tracker[q] /\ Tracked(tracker, q)
    <3>1. NoRecord.state = "ABSENT"
      BY Zenon DEF NoRecord
    <3>2. tracker'[q] # NoRecord
      BY <3>1, Zenon DEF Tracked
    <3> QED
      BY <1>1, <3>2, Zenon DEF Tracked
  <2>2. PICK i \in 1 .. Len(Mail[l]) : Mail'[l][j] = Mail[l][i]
    BY Zenon DEF Fewer
  <2> QED
    BY <2>1, <2>2, Zenon DEF SlotInv, EntriesFit
<1>5. RecordsRest(tracker', xfer')
  <2>1. NoRecord.state = "ABSENT" /\ "ABSENT" \in RestStates /\ "ABSENT" \notin LaterStates
    BY Zenon DEF NoRecord, RestStates, LaterStates
  <2> QED
    BY <1>1, <2>1, Zenon DEF SlotInv, RecordsRest
<1>6. \A x \in Inst : Holding(Mail', tracker', x) \subseteq Holding(Mail, tracker, x)
  <2> SUFFICES ASSUME NEW x \in Inst, NEW q \in Requests, HoldsAs(tracker'[q], PushDue(Mail', q), x)
               PROVE  HoldsAs(tracker[q], PushDue(Mail, q), x)
    BY Zenon DEF Holding, HoldsSlot
  <2>1. tracker'[q] = tracker[q]
    BY <1>1, NoRecordHolds, Zenon
  <2> QED
    BY <1>3, <2>1, Zenon DEF HoldsAs
<1>7. Ledger(Mail', tracker', free')
  <2>1. ASSUME NEW x \in Inst
        PROVE  Booked(Holding(Mail, tracker, x), Holding(Mail', tracker', x), free[x], free'[x])
    <3>1. CASE free'[x] = free[x]
      BY <1>6, <3>1 DEF Booked
    <3>2. CASE free'[x] = free[x] + 1 /\ HoldsSlot(Mail, tracker, r, x) /\ tracker'[r] = NoRecord
      <4>1. r \notin Holding(Mail', tracker', x) /\ r \in Holding(Mail, tracker, x)
        BY <3>2, NoRecordHolds, Zenon DEF Holding, HoldsSlot
      <4> QED
        BY <1>6, <3>2, <4>1 DEF Booked
    <3> QED
      BY <3>1, <3>2
  <2>2. free \in [Inst -> Int] /\ free' \in [Inst -> Int] /\ Ledger(Mail, tracker, free)
    BY DEF TypeOK, ServerTypeOK, SlotInv
  <2> QED
    BY <2>1, <2>2, LedgerStep
<1>8. \A q \in unsent : Absent(Mail', q)
  BY <1>2, Zenon DEF SlotInv, TypeOK, NetworkTypeOK
<1> QED
  BY <1>4, <1>5, <1>7, <1>8, Zenon DEF SlotInv, Fewer

(* Steps that touch neither queues nor records.                            *)
LEMMA SlotsKept ==
  ASSUME TypeOK, TypeOK', SlotInv,
         UNCHANGED <<unsent, frontend, work, result, rdma_push_queue, compute_ready_queue,
                     tta, tracker, xfer, free>>
  PROVE  SlotInv'
  BY DEF SlotInv, Mail

(* The effect of the operators of the server on the record of one request. *)
SameInstances(a, b) ==
  /\ a.encoder_instance = b.encoder_instance
  /\ a.denoiser_instance = b.denoiser_instance
  /\ a.decoder_instance = b.decoder_instance

LEMMA TransitionRecord ==
  ASSUME NEW t \in [Requests -> RequestRecord], NEW r \in Requests, NEW new
  PROVE  /\ \A q \in Requests \ {r} : Transition(t, r, new)[q] = t[q]
         /\ ~ CanTransition(t[r].state, new) => Transition(t, r, new) = t
         /\ CanTransition(t[r].state, new) =>
              /\ Transition(t, r, new)[r].state = new
              /\ SameInstances(Transition(t, r, new)[r], t[r])
<1>1. CASE CanTransition(t[r].state, new)
  <2>1. Transition(t, r, new) = [t EXCEPT ![r].state = new]
    BY <1>1 DEF Transition
  <2> QED
    BY <1>1, <2>1 DEF SameInstances, RequestRecord
<1>2. CASE ~ CanTransition(t[r].state, new)
  BY <1>2 DEF Transition
<1> QED
  BY <1>1, <1>2

----------------------------------------------------------------------------
(* Taking a request out of a queue moves the ones behind it up by one.     *)
At(d, j) == IF j < d THEN j ELSE j + 1

Thinned(q, p, d) == \A j \in 1 .. Len(p) : At(d, j) \in 1 .. Len(q) /\ p[j] = q[At(d, j)]

LEMMA Concat ==
  ASSUME NEW S, NEW a \in Seq(S), NEW b \in Seq(S)
  PROVE  /\ Len(a \o b) = Len(a) + Len(b)
         /\ \A j \in 1 .. Len(a) + Len(b) :
              (a \o b)[j] = IF j <= Len(a) THEN a[j] ELSE b[j - Len(a)]
  OBVIOUS

LEMMA WithoutThins ==
  ASSUME NEW q \in Seq(Requests), NEW r
  PROVE  \E d \in Nat : Thinned(q, Without(q, r), d)
<1>1. Len(q) \in Nat
  OBVIOUS
<1>2. CASE \E i \in 1 .. Len(q) : q[i] = r
  <2> DEFINE i == CHOOSE j \in 1 .. Len(q) : q[j] = r
             front == SubSeq(q, 1, i - 1)
             back == SubSeq(q, i + 1, Len(q))
             p == front \o back
  <2>1. i \in 1 .. Len(q)
    BY <1>2
  <2>2. Without(q, r) = p
    BY <1>2, Zenon DEF Without
  <2> HIDE DEF i
  <2>3. /\ Len(p) = Len(q) - 1
        /\ \A j \in 1 .. Len(q) - 1 : p[j] = IF j < i THEN q[j] ELSE q[j + 1]
    <3>1. /\ front \in Seq(Requests) /\ Len(front) = i - 1
          /\ \A j \in 1 .. i - 1 : front[j] = q[j]
      BY <1>1, <2>1
    <3>2. /\ back \in Seq(Requests) /\ Len(back) = Len(q) - i
          /\ \A j \in 1 .. Len(q) - i : back[j] = q[i + j]
      <4>1. back \in Seq(Requests)
        BY <1>1, <2>1
      <4>2. Len(back) = Len(q) - i
        BY <1>1, <2>1
      <4>3. ASSUME NEW j \in 1 .. Len(q) - i PROVE back[j] = q[i + j]
        BY <1>1, <2>1, SMTT(20)
      <4> QED
        BY <4>1, <4>2, <4>3, Zenon
    <3> HIDE DEF front, back
    <3>3. /\ Len(p) = Len(front) + Len(back)
          /\ \A j \in 1 .. Len(front) + Len(back) :
               p[j] = IF j <= Len(front) THEN front[j] ELSE back[j - Len(front)]
      BY <3>1, <3>2, Concat, Zenon
    <3> HIDE DEF p
    <3>4. ASSUME NEW j \in 1 .. Len(q) - 1 PROVE p[j] = IF j < i THEN q[j] ELSE q[j + 1]
      <4>1. CASE j < i
        <5>1. j \in 1 .. Len(front) + Len(back) /\ j <= Len(front) /\ j \in 1 .. i - 1
          BY <1>1, <2>1, <3>1, <3>2, <4>1
        <5>2. p[j] = front[j]
          BY <3>3, <5>1
        <5> QED
          BY <3>1, <4>1, <5>1, <5>2
      <4>2. CASE ~ (j < i)
        <5>1. j - (i - 1) \in 1 .. Len(q) - i /\ i + (j - (i - 1)) = j + 1
          BY <1>1, <2>1, <4>2
        <5>2. back[j - (i - 1)] = q[i + (j - (i - 1))]
          BY <3>2, <5>1
        <5>3. /\ j \in 1 .. Len(front) + Len(back) /\ ~ (j <= Len(front))
              /\ j - Len(front) = j - (i - 1)
          BY <1>1, <2>1, <3>1, <3>2, <4>2
        <5>4. p[j] = back[j - (i - 1)]
          BY <3>3, <5>3
        <5> QED
          BY <4>2, <5>1, <5>2, <5>4
      <4> QED
        BY <4>1, <4>2
    <3>5. Len(p) = Len(q) - 1
      <4>1. Len(p) = (i - 1) + (Len(q) - i)
        BY <3>1, <3>2, <3>3, Zenon
      <4> QED
        BY <1>1, <2>1, <4>1
    <3> QED
      BY <3>4, <3>5, Zenon
  <2> HIDE DEF p
  <2>4. Thinned(q, p, i)
    BY <1>1, <2>1, <2>3 DEF Thinned, At
  <2> QED
    BY <2>1, <2>2, <2>4
<1>3. CASE ~ \E i \in 1 .. Len(q) : q[i] = r
  <2>1. Without(q, r) = q
    BY <1>3 DEF Without
  <2>2. Thinned(q, q, Len(q) + 1)
    BY <1>1 DEF Thinned, At
  <2> QED
    BY <1>1, <2>1, <2>2
<1> QED
  BY <1>2, <1>3

LEMMA ThinnedFewer ==
  ASSUME NEW M, Single(M), NEW N \in [Boxes -> Seq(Entries)],
         \A l \in Boxes : \E d \in Nat : Thinned(M[l], N[l], d)
  PROVE  Fewer(M, N)
<1> DEFINE skip(l) == CHOOSE d \in Nat : Thinned(M[l], N[l], d)
<1>1. \A l \in Boxes : skip(l) \in Nat /\ Thinned(M[l], N[l], skip(l))
  OBVIOUS
<1> HIDE DEF skip
<1>2. ASSUME NEW l \in Boxes, NEW j \in 1 .. Len(N[l])
      PROVE  At(skip(l), j) \in 1 .. Len(M[l]) /\ N[l][j] = M[l][At(skip(l), j)]
  BY <1>1 DEF Thinned
<1>3. \A l \in Boxes : Len(N[l]) \in Nat
  OBVIOUS
<1>4. Single(N)
  <2> SUFFICES ASSUME NEW l1 \in Boxes, NEW l2 \in Boxes,
                      NEW i \in 1 .. Len(N[l1]), NEW j \in 1 .. Len(N[l2]),
                      NEW r \in Requests, About(N[l1][i], r), About(N[l2][j], r)
               PROVE  l1 = l2 /\ i = j
    BY Zenon DEF Single
  <2> DEFINE a == At(skip(l1), i)
             b == At(skip(l2), j)
  <2>1. /\ a \in 1 .. Len(M[l1]) /\ About(M[l1][a], r)
        /\ b \in 1 .. Len(M[l2]) /\ About(M[l2][b], r)
    BY <1>2, Zenon
  <2> HIDE DEF a, b
  <2>2. l1 = l2 /\ a = b
    BY <2>1, SameEntry, Zenon
  <2> QED
    BY <1>1, <1>3, <2>2 DEF a, b, At
<1> QED
  BY <1>2, <1>4 DEF Fewer

LEMMA NextMailType == TypeOK' => Mail' \in [Boxes -> Seq(Entries)]
<1>1. TypeOK => Mail \in [Boxes -> Seq(Entries)]
  BY MailType
<1>2. TypeOK' => (Mail \in [Boxes -> Seq(Entries)])'
  BY <1>1, PTL
<1> QED
  BY <1>2
=============================================================================
