--------------------------- MODULE ExchangeProofs ---------------------------
(***************************************************************************)
(* Proofs about Exchange.                                                  *)
(*                                                                         *)
(* The invariant follows a request through the two pipes of its session.   *)
(* The tags in them are in the order of the calls, with a payload directly *)
(* behind its header (Ordered); an answer in a pipe says truly what was    *)
(* executed (Answered); a clean success leaves both pipes empty (Drained); *)
(* and the ids are the tags modulo IdMod as long as no two callers took    *)
(* ids at a time (IdInv).                                                  *)
(***************************************************************************)
EXTENDS Exchange, TLAPS

(***************************************************************************)
(* The two pipes of a session: q holds requests, p answers, sent is the    *)
(* tag of the payload that the device has still to send, and bound the     *)
(* newest tag that was written.                                            *)
(***************************************************************************)

Announces(m) == m.type = "header" /\ m.data

\* A header that announces a payload, and the payload that follows it.
Pair(h, m) == Announces(h) /\ m.type = "payload" /\ m.tag = h.tag

QueueInv(q, p, sent, bound) ==
    /\ sent <= bound
    /\ \A i \in 1 .. Len(q) :
          /\ 0 < q[i].tag /\ q[i].tag <= bound /\ sent < q[i].tag
          /\ \A j \in 1 .. Len(q) : i < j => q[i].tag < q[j].tag
    /\ \A k \in 1 .. Len(p) :
          /\ 0 < p[k].tag /\ p[k].tag <= bound
          /\ \A i \in 1 .. Len(q) : p[k].tag < q[i].tag
          /\ \A l \in 1 .. Len(p) : k < l =>
                p[k].tag < p[l].tag \/ (l = k + 1 /\ Pair(p[k], p[l]))
          /\ Announces(p[k]) =>
                IF k = Len(p) THEN sent = p[k].tag ELSE Pair(p[k], p[k + 1])
          /\ sent # 0 =>
                p[k].tag < sent \/ (k = Len(p) /\ Announces(p[k]) /\ p[k].tag = sent)

\* An answer tells the truth about the request that it answers.
Truthful(h, r) ==
    h.code = "RSP_OK" =>
        /\ h.tag \in executed
        /\ h.tag = r.tag => (h.data <=> r.op = "get")

Faithful(q, p, r) ==
    /\ \A i \in 1 .. Len(q) : q[i].tag = r.tag => q[i].op = r.op
    /\ \A k \in 1 .. Len(p) : p[k].type = "header" => Truthful(p[k], r)

\* The id of the request with this tag, when ids are taken one after the other.
IdOf(tag) == (tag - 1) % IdMod

IdsCarried(q, p) ==
    /\ \A i \in 1 .. Len(q) : q[i].id = IdOf(q[i].tag)
    /\ \A k \in 1 .. Len(p) : p[k].type = "header" => p[k].id = IdOf(p[k].tag)

-----------------------------------------------------------------------------
Unwritten == {"expect", "load", "store", "write"}

\* The newest tag that session s may have written.
Bound(s) == IF pc[s] \in Unwritten THEN request[s].tag - 1 ELSE request[s].tag

\* What the caller waits for once it accepted a header with a payload.
PayloadAwaited(s) ==
    pc[s] = "payload" /\ s \in alive =>
        IF fromDevice[s] = <<>> THEN sending[s] = response[s].tag
        ELSE fromDevice[s][1] = [type |-> "payload", tag |-> response[s].tag]

Ordered(s) ==
    /\ request[s].tag <= made
    /\ pc[s] # "idle" => 0 < request[s].tag
    /\ QueueInv(toDevice[s], fromDevice[s], sending[s], Bound(s))
    /\ PayloadAwaited(s)

Answered(s) ==
    /\ Faithful(toDevice[s], fromDevice[s], request[s])
    /\ pc[s] = "payload" =>
          /\ Truthful(response[s], request[s])
          /\ response[s].data
          /\ 0 < response[s].tag /\ response[s].tag <= request[s].tag

\* A successful call that got its own answer, and no garbage, left both pipes empty.
Drained(s) ==
    pc[s] = "idle" =>
        /\ result[s].tag = request[s].tag
        /\ result[s].status = "SA_OK" /\ result[s].header.tag = result[s].tag
           /\ result[s].value # Garbage =>
              toDevice[s] = <<>> /\ fromDevice[s] = <<>> /\ sending[s] = 0

CounterInv ==
    /\ \A s, r \in Creating : s = r
    /\ \A s \in Creating :
          /\ request[s].tag = made
          /\ counter = IdOf(made)
          /\ pc[s] = "store" => loaded[s] = counter
    /\ Creating = {} => counter = made % IdMod

\* The header that was accepted is that of the request, or the ids wrapped in between.
Match(s) ==
    response[s].tag = request[s].tag \/ request[s].tag - response[s].tag >= IdMod

Carried(s) ==
    /\ 0 < request[s].tag => request[s].id = IdOf(request[s].tag)
    /\ pc[s] \in {"load", "store", "write", "header", "payload"} =>
          request[s].id = request[s].expected
    /\ IdsCarried(toDevice[s], fromDevice[s])
    /\ pc[s] = "payload" => Match(s)

IdInv == ~raced => CounterInv /\ \A s \in Sessions : Carried(s)

-----------------------------------------------------------------------------
\* Taking the first element off a sequence.
LEMMA TailFacts ==
    ASSUME NEW S, NEW q \in Seq(S), q # <<>>
    PROVE  /\ Len(q) \in Nat \ {0} /\ Tail(q) \in Seq(S)
           /\ Len(Tail(q)) = Len(q) - 1
           /\ Head(q) = q[1] /\ q[1] \in S
           /\ \A i \in 1 .. Len(q) - 1 : Tail(q)[i] = q[i + 1]
  OBVIOUS

\* Adding an element to the end of a sequence.
LEMMA AppendFacts ==
    ASSUME NEW S, NEW q \in Seq(S), NEW e \in S
    PROVE  /\ Append(q, e) \in Seq(S) /\ Len(q) \in Nat
           /\ Len(Append(q, e)) = Len(q) + 1
           /\ Append(q, e)[Len(q) + 1] = e
           /\ \A i \in 1 .. Len(q) : Append(q, e)[i] = q[i]
  OBVIOUS

\* The next id is an id.
LEMMA IncrementType == ASSUME NEW i \in Ids PROVE Increment(i) \in Ids
  BY ExchangeAssumption DEF Ids, Increment

\* Division with a remainder.
LEMMA Division ==
    ASSUME NEW n \in Nat \ {0}, NEW a \in Int
    PROVE  /\ a \div n \in Int
           /\ a % n \in 0 .. n - 1
           /\ a = n * (a \div n) + (a % n)
  OBVIOUS

\* A positive multiple of n is at least n.
LEMMA Multiple ==
    ASSUME NEW n \in Nat \ {0}, NEW d \in Int, n * d > 0
    PROVE  n * d >= n
<1>1. CASE d <= 0
  <2>1. n * d <= 0
    BY <1>1
  <2> QED
    BY <2>1
<1>2. CASE d > 0
  <2>1. n * (d - 1) >= 0 /\ n * (d - 1) = n * d - n
    BY <1>2
  <2> QED
    BY <2>1
<1> QED
  BY <1>1, <1>2

\* The remainder is the only number in its range that leaves a multiple of n.
LEMMA Remainder ==
    ASSUME NEW n \in Nat \ {0}, NEW a \in Int, NEW k \in Int, NEW r \in 0 .. n - 1,
           a = n * k + r
    PROVE  a % n = r
<1> DEFINE q == a \div n
           m == a % n
<1>1. q \in Int /\ m \in 0 .. n - 1 /\ a = n * q + m
  BY Division
<1> HIDE DEF q, m
<1>2. n * (k - q) = m - r /\ n * (q - k) = r - m
  BY <1>1
<1>3. k - q \in Int /\ q - k \in Int
  BY <1>1
<1>4. ~(n * (k - q) > 0) /\ ~(n * (q - k) > 0)
  BY <1>1, <1>2, <1>3, Multiple
<1> QED
  BY <1>1, <1>2, <1>4 DEF m

\* Ids are taken one after the other.
LEMMA IncrementIdOf ==
    ASSUME NEW tag \in Nat \ {0} PROVE Increment(IdOf(tag)) = tag % IdMod
<1> DEFINE n == IdMod
           q == (tag - 1) \div n
           m == (tag - 1) % n
<1>1. n \in Nat \ {0}
  BY ExchangeAssumption
<1>2. q \in Int /\ m \in 0 .. n - 1 /\ tag - 1 = n * q + m
  BY <1>1, Division
<1>3. Increment(IdOf(tag)) = (m + 1) % n
  BY DEF Increment, IdOf
<1> HIDE DEF n, q, m
<1>4. CASE m + 1 < n
  <2>1. m + 1 \in 0 .. n - 1 /\ tag = n * q + (m + 1) /\ m + 1 = n * 0 + (m + 1)
    BY <1>1, <1>2, <1>4
  <2>2. tag % n = m + 1 /\ (m + 1) % n = m + 1
    BY <1>1, <1>2, <2>1, Remainder
  <2> QED
    BY <1>3, <2>2 DEF n
<1>5. CASE m + 1 = n
  <2>1. 0 \in 0 .. n - 1 /\ tag = n * (q + 1) + 0 /\ m + 1 = n * 1 + 0 /\ q + 1 \in Int
    BY <1>1, <1>2, <1>5
  <2>2. tag % n = 0 /\ (m + 1) % n = 0
    BY <1>1, <1>2, <2>1, Remainder
  <2> QED
    BY <1>3, <2>2 DEF n
<1> QED
  BY <1>1, <1>2, <1>4, <1>5

\* Two different tags with the same id are a full turn of ids apart.
LEMMA SameIds ==
    ASSUME NEW a \in Nat \ {0}, NEW b \in Nat \ {0}, a <= b, IdOf(a) = IdOf(b)
    PROVE  a = b \/ b - a >= IdMod
<1> DEFINE n == IdMod
           q == (a - 1) \div n
           r == (b - 1) \div n
<1>1. n \in Nat \ {0}
  BY ExchangeAssumption
<1>2. q \in Int /\ r \in Int /\ a - 1 = n * q + IdOf(a) /\ b - 1 = n * r + IdOf(b)
  BY <1>1, Division DEF IdOf
<1>3. IdOf(a) \in Int /\ IdOf(b) \in Int
  BY <1>1, Division DEF IdOf
<1> HIDE DEF n, q, r
<1>4. b - a = n * (r - q) /\ r - q \in Int
  BY <1>1, <1>2, <1>3
<1>5. b - a > 0 => b - a >= n
  BY <1>1, <1>4, Multiple
<1> QED
  BY <1>5 DEF n

-----------------------------------------------------------------------------
(***************************************************************************)
(* What happens to the pipes.                                              *)
(***************************************************************************)
Answerable == Headers \cup Payloads

\* What QueueInv says of nothing.
LEMMA QueueEmpty == ASSUME NEW b \in Nat PROVE QueueInv(<<>>, <<>>, 0, b)
  BY DEF QueueInv

\* Sequences with no elements are empty.
LEMMA NoElements == ASSUME NEW S, NEW q \in Seq(S), Len(q) = 0 PROVE q = <<>>
  OBVIOUS

\* A tail without elements.
LEMMA LastElement == ASSUME NEW S, NEW q \in Seq(S), Len(q) = 1 PROVE Tail(q) = <<>>
<1>1. q # <<>>
  OBVIOUS
<1>2. Tail(q) \in Seq(S) /\ Len(Tail(q)) = 0
  BY <1>1, TailFacts
<1> QED
  BY <1>2, NoElements

\* The tags in the pipes are numbers.
LEMMA TagTypes ==
    ASSUME NEW q \in Seq(Requests), NEW p \in Seq(Answerable)
    PROVE  /\ Len(q) \in Nat /\ Len(p) \in Nat
           /\ \A i \in 1 .. Len(q) : q[i].tag \in Int
           /\ \A k \in 1 .. Len(p) : p[k].tag \in Int
<1>1. ASSUME NEW m \in Answerable PROVE m.tag \in Int
  <2>1. CASE m \in Headers
    BY <2>1, ExchangeAssumption DEF Headers, Tags
  <2>2. CASE m \in Payloads
    BY <2>2, ExchangeAssumption DEF Payloads, Tags
  <2> QED
    BY <2>1, <2>2 DEF Answerable
<1>2. ASSUME NEW r \in Requests PROVE r.tag \in Int
  BY ExchangeAssumption DEF Requests, Tags
<1>3. /\ Len(q) \in Nat /\ Len(p) \in Nat
      /\ \A i \in 1 .. Len(q) : q[i] \in Requests
      /\ \A k \in 1 .. Len(p) : p[k] \in Answerable
  OBVIOUS
<1> QED
  BY <1>1, <1>2, <1>3

\* Later requests change nothing for the earlier ones.
LEMMA QueueLater ==
    ASSUME NEW q \in Seq(Requests), NEW p \in Seq(Answerable), NEW t \in Tags, NEW b \in Int,
           NEW c \in Int, b <= c, QueueInv(q, p, t, b)
    PROVE  QueueInv(q, p, t, c)
<1>1. /\ \A i \in 1 .. Len(q) : q[i].tag \in Int
      /\ \A k \in 1 .. Len(p) : p[k].tag \in Int
  BY TagTypes
<1> QED
  BY <1>1, ExchangeAssumption DEF QueueInv, Tags

\* A new request is written.
LEMMA QueueSend ==
    ASSUME NEW q \in Seq(Requests), NEW p \in Seq(Answerable), NEW t \in Tags, NEW b \in Int,
           NEW r \in Requests, b < r.tag, QueueInv(q, p, t, b)
    PROVE  QueueInv(Append(q, r), p, t, r.tag)
<1> DEFINE n == Len(q)
           s == Append(q, r)
           tag == r.tag
<1>1. /\ n \in Nat /\ Len(s) = n + 1 /\ s[n + 1] = r
      /\ \A i \in 1 .. n : s[i] = q[i]
  BY AppendFacts
<1>2. /\ \A i \in 1 .. n : q[i].tag \in Int
      /\ \A k \in 1 .. Len(p) : p[k].tag \in Int
      /\ Len(p) \in Nat
  BY TagTypes
<1>8. tag \in Int /\ t \in Int /\ 0 <= t /\ t <= b /\ b < tag
  BY ExchangeAssumption DEF Requests, Tags, QueueInv
<1>3. \A i \in 1 .. Len(s) : (i \in 1 .. n /\ s[i].tag = q[i].tag) \/ (i = n + 1 /\ s[i].tag = tag)
  BY <1>1
<1> HIDE DEF s, n, tag
<1>4. \A i \in 1 .. n :
          /\ 0 < q[i].tag /\ q[i].tag <= b /\ t < q[i].tag
          /\ \A j \in 1 .. n : i < j => q[i].tag < q[j].tag
  BY DEF QueueInv, n
<1>5. \A i \in 1 .. Len(s) :
          /\ 0 < s[i].tag /\ s[i].tag <= tag /\ t < s[i].tag
          /\ \A j \in 1 .. Len(s) : i < j => s[i].tag < s[j].tag
  <2> TAKE i \in 1 .. Len(s)
  <2>1. 0 < s[i].tag /\ s[i].tag <= tag /\ t < s[i].tag
    BY <1>2, <1>3, <1>4, <1>8
  <2>2. ASSUME NEW j \in 1 .. Len(s), i < j PROVE s[i].tag < s[j].tag
    <3>1. i \in 1 .. n /\ s[i].tag = q[i].tag
      BY <1>1, <1>3, <2>2
    <3>2. CASE j \in 1 .. n /\ s[j].tag = q[j].tag
      BY <1>4, <2>2, <3>1, <3>2
    <3>3. CASE s[j].tag = tag
      BY <1>2, <1>4, <1>8, <3>1, <3>3
    <3> QED
      BY <1>3, <3>2, <3>3
  <2> QED
    BY <2>1, <2>2
<1>6. \A k \in 1 .. Len(p) : 
          /\ 0 < p[k].tag /\ p[k].tag <= b
          /\ \A i \in 1 .. n : p[k].tag < q[i].tag
  BY DEF QueueInv, n
<1>7. \A k \in 1 .. Len(p) : 
          /\ 0 < p[k].tag /\ p[k].tag <= tag
          /\ \A i \in 1 .. Len(s) : p[k].tag < s[i].tag
  <2> TAKE k \in 1 .. Len(p)
  <2>1. 0 < p[k].tag /\ p[k].tag <= tag
    BY <1>2, <1>6, <1>8
  <2>2. ASSUME NEW i \in 1 .. Len(s) PROVE p[k].tag < s[i].tag
    BY <1>2, <1>3, <1>6, <1>8
  <2> QED
    BY <2>1, <2>2
<1>9. \A k \in 1 .. Len(p) :
          /\ \A l \in 1 .. Len(p) : k < l =>
                p[k].tag < p[l].tag \/ (l = k + 1 /\ Pair(p[k], p[l]))
          /\ Announces(p[k]) => IF k = Len(p) THEN t = p[k].tag ELSE Pair(p[k], p[k + 1])
          /\ t # 0 => p[k].tag < t \/ (k = Len(p) /\ Announces(p[k]) /\ p[k].tag = t)
  BY DEF QueueInv
<1>10. t <= tag
  BY <1>8
<1> QED
  BY <1>5, <1>7, <1>9, <1>10 DEF QueueInv, s, tag

\* The device answers the first request.
LEMMA QueueAnswer ==
    ASSUME NEW q \in Seq(Requests), NEW p \in Seq(Answerable), NEW b \in Int,
           NEW h \in Headers, q # <<>>, h.tag = Head(q).tag, QueueInv(q, p, 0, b)
    PROVE  QueueInv(Tail(q), Append(p, h), IF h.data THEN h.tag ELSE 0, b)
<1> DEFINE n == Len(q)
           m == Len(p)
           s == Tail(q)
           a == Append(p, h)
           tag == h.tag
           t == IF h.data THEN h.tag ELSE 0
<1>1. /\ n \in Nat \ {0} /\ Len(s) = n - 1 /\ tag = q[1].tag
      /\ \A i \in 1 .. n - 1 : s[i] = q[i + 1]
  BY TailFacts
<1>2. /\ m \in Nat /\ Len(a) = m + 1 /\ a[m + 1] = h
      /\ \A k \in 1 .. m : a[k] = p[k]
  BY AppendFacts DEF Answerable
<1>3. /\ \A i \in 1 .. n : q[i].tag \in Int
      /\ \A k \in 1 .. m : p[k].tag \in Int
      /\ tag \in Int /\ t \in {0, tag} /\ t \in Int
  BY TagTypes, ExchangeAssumption DEF Headers, Tags
<1>4. h.type = "header" /\ h.data \in BOOLEAN
  BY DEF Headers
<1>5. \A i \in 1 .. n :
          /\ 0 < q[i].tag /\ q[i].tag <= b
          /\ \A j \in 1 .. n : i < j => q[i].tag < q[j].tag
  BY DEF QueueInv
<1>6. 0 < tag /\ tag <= b /\ \A j \in 2 .. n : tag < q[j].tag
  BY <1>1, <1>3, <1>5
<1>7. \A k \in 1 .. m :
          /\ 0 < p[k].tag /\ p[k].tag <= b
          /\ \A i \in 1 .. n : p[k].tag < q[i].tag
          /\ \A l \in 1 .. m : k < l =>
                p[k].tag < p[l].tag \/ (l = k + 1 /\ Pair(p[k], p[l]))
          /\ Announces(p[k]) => IF k = m THEN 0 = p[k].tag ELSE Pair(p[k], p[k + 1])
  BY DEF QueueInv
<1>8. t = IF Announces(h) THEN tag ELSE 0
  BY <1>4 DEF Announces
<1> HIDE DEF n, m, s, a, tag, t
<1>9. \A i \in 1 .. Len(s) : i + 1 \in 2 .. n /\ s[i].tag = q[i + 1].tag
  BY <1>1
<1>10. \A i \in 1 .. Len(s) :
          /\ 0 < s[i].tag /\ s[i].tag <= b /\ t < s[i].tag
          /\ \A j \in 1 .. Len(s) : i < j => s[i].tag < s[j].tag
  <2> TAKE i \in 1 .. Len(s)
  <2> DEFINE u == i + 1
  <2>1. u \in 2 .. n /\ u \in 1 .. n /\ s[i].tag = q[u].tag
    BY <1>1, <1>9
  <2>2. \A j \in 1 .. Len(s) : i < j => j + 1 \in 1 .. n /\ u < j + 1 /\ s[j].tag = q[j + 1].tag
    BY <1>1, <1>9
  <2> HIDE DEF u
  <2>3. 0 < q[u].tag /\ q[u].tag <= b
    BY <1>5, <2>1
  <2>4. t < q[u].tag
    BY <1>3, <1>6, <2>1, <2>3
  <2>5. \A j \in 1 .. Len(s) : i < j => q[u].tag < s[j].tag
    BY <1>5, <2>1, <2>2
  <2> QED
    BY <2>1, <2>3, <2>4, <2>5
<1>11. ASSUME NEW k \in 1 .. Len(a)
       PROVE  /\ 0 < a[k].tag /\ a[k].tag <= b
              /\ \A i \in 1 .. Len(s) : a[k].tag < s[i].tag
              /\ \A l \in 1 .. Len(a) : k < l =>
                    a[k].tag < a[l].tag \/ (l = k + 1 /\ Pair(a[k], a[l]))
              /\ Announces(a[k]) =>
                    IF k = Len(a) THEN t = a[k].tag ELSE Pair(a[k], a[k + 1])
              /\ t # 0 =>
                    a[k].tag < t \/ (k = Len(a) /\ Announces(a[k]) /\ a[k].tag = t)
  <2>1. CASE k = m + 1
    <3>1. a[k] = h /\ a[k].tag = tag /\ k = Len(a)
      BY <1>2, <2>1 DEF tag
    <3>2. \A i \in 1 .. Len(s) : tag < s[i].tag
      BY <1>6, <1>9
    <3>3. \A l \in 1 .. Len(a) : ~(k < l)
      BY <1>2, <2>1
    <3> QED
      BY <1>3, <1>6, <1>8, <3>1, <3>2, <3>3
  <2>2. CASE k \in 1 .. m
    <3>1. a[k] = p[k] /\ 1 \in 1 .. n /\ p[k].tag < tag /\ k # Len(a)
      BY <1>1, <1>2, <1>7, <2>2
    <3>2. \A i \in 1 .. Len(s) : p[k].tag < s[i].tag
      BY <1>1, <1>7, <1>9, <2>2
    <3>3. ASSUME NEW l \in 1 .. Len(a), k < l
          PROVE  a[k].tag < a[l].tag \/ (l = k + 1 /\ Pair(a[k], a[l]))
      <4>1. CASE l = m + 1
        BY <1>2, <3>1, <4>1 DEF tag
      <4>2. CASE l \in 1 .. m
        BY <1>2, <1>7, <2>2, <3>1, <3>3, <4>2
      <4> QED
        BY <1>2, <4>1, <4>2
    <3>4. ASSUME Announces(a[k]) PROVE Pair(a[k], a[k + 1])
      <4>1. k # m
        BY <1>7, <2>2, <3>1, <3>4
      <4>2. k + 1 \in 1 .. m
        BY <1>2, <2>2, <4>1
      <4> QED
        BY <1>2, <1>7, <2>2, <3>1, <3>4, <4>1, <4>2
    <3>5. t # 0 => a[k].tag < t
      BY <1>3, <3>1
    <3> QED
      BY <1>7, <2>2, <3>1, <3>2, <3>3, <3>4, <3>5
  <2> QED
    BY <1>2, <2>1, <2>2
<1>12. t <= b
  BY <1>3, <1>6
<1> QED
  BY <1>10, <1>11, <1>12 DEF QueueInv, s, a, t

\* The device sends the payload that it announced.
LEMMA QueuePayload ==
    ASSUME NEW q \in Seq(Requests), NEW p \in Seq(Answerable), NEW t \in Tags, NEW b \in Int,
           t # 0, QueueInv(q, p, t, b)
    PROVE  QueueInv(q, Append(p, [type |-> "payload", tag |-> t]), 0, b)
<1> DEFINE n == Len(q)
           m == Len(p)
           y == [type |-> "payload", tag |-> t]
           a == Append(p, y)
<1>1. y \in Answerable /\ y.tag = t /\ y.type = "payload" /\ ~Announces(y)
  BY DEF Answerable, Payloads, Announces
<1>2. /\ m \in Nat /\ Len(a) = m + 1 /\ a[m + 1] = y
      /\ \A k \in 1 .. m : a[k] = p[k]
  BY <1>1, AppendFacts
<1>3. /\ n \in Nat /\ t \in Int /\ 0 < t
      /\ \A i \in 1 .. n : q[i].tag \in Int
      /\ \A k \in 1 .. m : p[k].tag \in Int
  BY TagTypes, ExchangeAssumption DEF Tags
<1>4. /\ t <= b
      /\ \A i \in 1 .. n :
          /\ 0 < q[i].tag /\ q[i].tag <= b /\ t < q[i].tag
          /\ \A j \in 1 .. n : i < j => q[i].tag < q[j].tag
  BY DEF QueueInv
<1>5. \A k \in 1 .. m :
          /\ 0 < p[k].tag /\ p[k].tag <= b
          /\ \A i \in 1 .. n : p[k].tag < q[i].tag
          /\ \A l \in 1 .. m : k < l =>
                p[k].tag < p[l].tag \/ (l = k + 1 /\ Pair(p[k], p[l]))
          /\ Announces(p[k]) => IF k = m THEN t = p[k].tag ELSE Pair(p[k], p[k + 1])
          /\ p[k].tag < t \/ (k = m /\ Announces(p[k]) /\ p[k].tag = t)
  BY DEF QueueInv
<1> HIDE DEF n, m, y, a
<1>6. ASSUME NEW k \in 1 .. Len(a)
      PROVE  /\ 0 < a[k].tag /\ a[k].tag <= b
             /\ \A i \in 1 .. n : a[k].tag < q[i].tag
             /\ \A l \in 1 .. Len(a) : k < l =>
                   a[k].tag < a[l].tag \/ (l = k + 1 /\ Pair(a[k], a[l]))
             /\ Announces(a[k]) =>
                   IF k = Len(a) THEN 0 = a[k].tag ELSE Pair(a[k], a[k + 1])
  <2>1. CASE k = m + 1
    <3>1. a[k] = y /\ \A l \in 1 .. Len(a) : ~(k < l)
      BY <1>2, <2>1
    <3> QED
      BY <1>1, <1>3, <1>4, <3>1
  <2>2. CASE k \in 1 .. m
    <3>1. a[k] = p[k] /\ k # Len(a)
      BY <1>2, <2>2
    <3>2. ASSUME NEW l \in 1 .. Len(a), k < l
          PROVE  a[k].tag < a[l].tag \/ (l = k + 1 /\ Pair(a[k], a[l]))
      <4>1. CASE l = m + 1
        <5>1. a[l] = y /\ (k = m => l = k + 1)
          BY <1>2, <4>1
        <5> QED
          BY <1>1, <1>5, <2>2, <3>1, <5>1 DEF Pair
      <4>2. CASE l \in 1 .. m
        BY <1>2, <1>5, <2>2, <3>1, <3>2, <4>2
      <4> QED
        BY <1>2, <4>1, <4>2
    <3>3. ASSUME Announces(a[k]) PROVE Pair(a[k], a[k + 1])
      <4>1. CASE k = m
        BY <1>1, <1>2, <1>5, <2>2, <3>1, <3>3, <4>1 DEF Pair
      <4>2. CASE k # m
        <5>1. k + 1 \in 1 .. m
          BY <1>2, <2>2, <4>2
        <5> QED
          BY <1>2, <1>5, <2>2, <3>1, <3>3, <4>2, <5>1
      <4> QED
        BY <4>1, <4>2
    <3> QED
      BY <1>5, <2>2, <3>1, <3>2, <3>3
  <2> QED
    BY <1>2, <2>1, <2>2
<1>7. 0 <= b /\ \A i \in 1 .. n : 0 < q[i].tag
  BY <1>3, <1>4
<1> QED
  BY <1>4, <1>6, <1>7 DEF QueueInv, n, a, y

\* The caller reads an answer.
LEMMA QueueRead ==
    ASSUME NEW q \in Seq(Requests), NEW p \in Seq(Answerable), NEW t \in Tags, NEW b \in Int,
           p # <<>>, QueueInv(q, p, t, b)
    PROVE  QueueInv(q, Tail(p), t, b)
<1> DEFINE m == Len(p)
           a == Tail(p)
<1>1. /\ m \in Nat \ {0} /\ Len(a) = m - 1
      /\ \A k \in 1 .. m - 1 : a[k] = p[k + 1]
  BY TailFacts
<1>2. \A k \in 1 .. m :
          /\ 0 < p[k].tag /\ p[k].tag <= b
          /\ \A i \in 1 .. Len(q) : p[k].tag < q[i].tag
          /\ \A l \in 1 .. m : k < l =>
                p[k].tag < p[l].tag \/ (l = k + 1 /\ Pair(p[k], p[l]))
          /\ Announces(p[k]) => IF k = m THEN t = p[k].tag ELSE Pair(p[k], p[k + 1])
          /\ t # 0 => p[k].tag < t \/ (k = m /\ Announces(p[k]) /\ p[k].tag = t)
  BY DEF QueueInv
<1> HIDE DEF m, a
<1>3. ASSUME NEW k \in 1 .. Len(a)
      PROVE  /\ 0 < a[k].tag /\ a[k].tag <= b
             /\ \A i \in 1 .. Len(q) : a[k].tag < q[i].tag
             /\ \A l \in 1 .. Len(a) : k < l =>
                   a[k].tag < a[l].tag \/ (l = k + 1 /\ Pair(a[k], a[l]))
             /\ Announces(a[k]) =>
                   IF k = Len(a) THEN t = a[k].tag ELSE Pair(a[k], a[k + 1])
             /\ t # 0 => a[k].tag < t \/ (k = Len(a) /\ Announces(a[k]) /\ a[k].tag = t)
  <2> DEFINE j == k + 1
  <2>1. j \in 1 .. m /\ a[k] = p[j] /\ (k = Len(a) <=> j = m)
    BY <1>1
  <2>2. \A l \in 1 .. Len(a) :
           l + 1 \in 1 .. m /\ a[l] = p[l + 1] /\ (k < l <=> j < l + 1) /\ (l = k + 1 <=> l + 1 = j + 1)
    BY <1>1
  <2>3. k # Len(a) => a[k + 1] = p[j + 1]
    BY <1>1
  <2> HIDE DEF j
  <2> QED
    BY <1>2, <2>1, <2>2, <2>3
<1> QED
  BY <1>3 DEF QueueInv, a

\* Behind a header that announces a payload comes this payload.
LEMMA QueueAccept ==
    ASSUME NEW q \in Seq(Requests), NEW p \in Seq(Answerable), NEW t \in Tags, NEW b \in Int,
           p # <<>>, Announces(Head(p)), QueueInv(q, p, t, b)
    PROVE  IF Tail(p) = <<>> THEN t = Head(p).tag
           ELSE Tail(p)[1] = [type |-> "payload", tag |-> Head(p).tag]
<1>1. /\ Len(p) \in Nat \ {0} /\ Len(Tail(p)) = Len(p) - 1 /\ Head(p) = p[1]
      /\ \A k \in 1 .. Len(p) - 1 : Tail(p)[k] = p[k + 1]
  BY TailFacts
<1>2. IF 1 = Len(p) THEN t = p[1].tag ELSE Pair(p[1], p[1 + 1])
  <2>1. 1 \in 1 .. Len(p) /\ Announces(p[1])
    BY <1>1
  <2> QED
    BY <2>1 DEF QueueInv
<1>3. CASE Len(p) = 1
  <2>1. Tail(p) = <<>>
    BY <1>3, LastElement
  <2> QED
    BY <1>1, <1>2, <1>3, <2>1
<1>4. CASE Len(p) # 1
  <2>1. Tail(p) # <<>> /\ Tail(p)[1] = p[2] /\ p[2] \in Answerable
    BY <1>1, <1>4
  <2>2. p[2].type = "payload" /\ p[2].tag = p[1].tag
    BY <1>1, <1>2, <1>4 DEF Pair
  <2>3. p[2] = [type |-> "payload", tag |-> p[1].tag]
    BY <2>1, <2>2 DEF Answerable, Headers, Payloads
  <2> QED
    BY <1>1, <2>1, <2>3
<1> QED
  BY <1>3, <1>4

\* When the last part of the answer to the last request is read, nothing is left.
LEMMA QueueLast ==
    ASSUME NEW q \in Seq(Requests), NEW p \in Seq(Answerable), NEW t \in Tags, NEW b \in Int,
           p # <<>>, ~Announces(Head(p)), Head(p).tag = b, QueueInv(q, p, t, b)
    PROVE  q = <<>> /\ Tail(p) = <<>> /\ t = 0
<1>1. Len(p) \in Nat \ {0} /\ Head(p) = p[1]
  BY TailFacts
<1>2. /\ Len(q) \in Nat /\ t \in Int
      /\ \A i \in 1 .. Len(q) : q[i].tag \in Int
      /\ \A k \in 1 .. Len(p) : p[k].tag \in Int
  BY TagTypes, ExchangeAssumption DEF Tags
<1>3. \A i \in 1 .. Len(q) : q[i].tag <= b /\ p[1].tag < q[i].tag
  BY <1>1 DEF QueueInv
<1>4. Len(q) = 0
  BY <1>1, <1>2, <1>3
<1>5. \A l \in 1 .. Len(p) : 1 < l => p[1].tag < p[l].tag /\ p[l].tag <= b
  BY <1>1 DEF QueueInv, Pair
<1>6. Len(p) = 1
  BY <1>1, <1>2, <1>5
<1>7. t = 0
  BY <1>1, <1>2 DEF QueueInv
<1> QED
  BY <1>4, <1>6, <1>7, NoElements, LastElement

-----------------------------------------------------------------------------
(***************************************************************************)
(* Types.                                                                  *)
(***************************************************************************)

\* What a call returns is a result.
LEMMA ResultTypes ==
    ASSUME TypeOK, NEW s \in Sessions
    PROVE  /\ Failed(s) \in Results
           /\ \A h \in Headers, v \in Tags \cup {Garbage, Untouched} :
                 Succeeded(s, h, v) \in Results
           /\ \A v \in Tags \cup {Garbage} : Outcome(s, v) \in Results
           /\ NoHeader \in Headers
<1>1. NoHeader \in Headers
  BY ExchangeAssumption DEF NoHeader, Headers, Tags, Ids, Codes
<1>2. request[s].tag \in Tags /\ response[s] \in Headers
  BY DEF TypeOK, Requests
<1>3. Failed(s) \in Results
  BY <1>1, <1>2 DEF Failed, Results
<1>4. \A h \in Headers, v \in Tags \cup {Garbage, Untouched} : Succeeded(s, h, v) \in Results
  BY <1>2 DEF Succeeded, Results
<1> QED
  BY <1>1, <1>2, <1>3, <1>4 DEF Outcome

\* The answers of a device to a request are headers with its tag and id.
LEMMA AnswerTypes ==
    ASSUME NEW r \in Requests, NEW h \in Answers(r)
    PROVE  /\ h \in Headers /\ h.tag = r.tag /\ h.id = r.id
           /\ h.code = "RSP_OK" => (h.data <=> r.op = "get")
<1> DEFINE A(c, d) == [type |-> "header", tag |-> r.tag, id |-> r.id, code |-> c, data |-> d]
           g == r.op = "get"
<1>1. r.tag \in Tags /\ r.id \in Ids
  BY DEF Requests
<1>2. CASE h = A("RSP_OK", g)
  <2>1. g \in BOOLEAN
    OBVIOUS
  <2> HIDE DEF g
  <2>2. h \in Headers /\ h.tag = r.tag /\ h.id = r.id /\ h.data = g
    BY <1>1, <1>2, <2>1 DEF Headers, Codes
  <2> QED
    BY <2>2 DEF g
<1>3. CASE h = A("RSP_ERROR", TRUE)
  BY <1>1, <1>3 DEF Headers, Codes
<1>4. CASE h = A("RSP_ERROR", FALSE)
  BY <1>1, <1>4 DEF Headers, Codes
<1> QED
  BY <1>2, <1>3, <1>4 DEF Answers

\* The initial state has the types.
LEMMA InitTypes == Init => TypeOK
<1> SUFFICES ASSUME Init PROVE TypeOK
  OBVIOUS
<1>1. NoRequest \in Requests /\ NoHeader \in Headers /\ 0 \in Tags /\ 0 \in Ids
  BY ExchangeAssumption DEF NoRequest, NoHeader, Requests, Headers, Tags, Ids, Ops, Codes
<1>2. ASSUME NEW s \in Sessions PROVE Failed(s) \in Results
  BY <1>1 DEF Init, Failed, Results, NoRequest
<1>3. result \in [Sessions -> Results]
  BY <1>2 DEF Init
<1>4. /\ counter \in Ids /\ made \in Tags /\ raced \in BOOLEAN /\ executed \subseteq Tags
      /\ sending \in [Sessions -> Tags] /\ pc \in [Sessions -> Pcs]
      /\ request \in [Sessions -> Requests] /\ loaded \in [Sessions -> Ids]
      /\ response \in [Sessions -> Headers]
  BY <1>1 DEF Init, Pcs
<1>5. /\ connected \subseteq Sessions /\ alive \subseteq connected \cap plugged
      /\ plugged \subseteq Sessions
  BY DEF Init
<1>6. /\ toDevice \in [Sessions -> Seq(Requests)]
      /\ fromDevice \in [Sessions -> Seq(Headers \cup Payloads)]
  BY DEF Init
<1> QED
  BY <1>3, <1>4, <1>5, <1>6 DEF TypeOK

\* Return keeps the types of what it changes.
LEMMA ReturnTypes ==
    ASSUME TypeOK, NEW s \in Sessions, NEW r \in Results, Return(s, r)
    PROVE  /\ pc' \in [Sessions -> Pcs]
           /\ result' \in [Sessions -> Results]
           /\ response' \in [Sessions -> Headers]
  BY ResultTypes DEF TypeOK, Return, Goto, Pcs

\* Creating a request keeps the types.
LEMMA CreateTypes ==
    ASSUME TypeOK, NEW s \in Sessions, Call(s) \/ CreateStep(s)
    PROVE  TypeOK'
<1> USE DEF TypeOK
<1>1. CASE CallRefused(s)
  BY <1>1, ResultTypes DEF CallRefused, calling, device, link, pipes
<1>2. CASE CallStamp(s)
  <2>1. PICK op \in Ops : request' =
            [request EXCEPT ![s] = [tag |-> made + 1, op |-> op, id |-> counter, expected |-> 0]]
    BY <1>2 DEF CallStamp
  <2>2. made + 1 \in Tags /\ 0 \in Ids
    BY <1>2, ExchangeAssumption DEF CallStamp, Tags, Ids
  <2>3. [tag |-> made + 1, op |-> op, id |-> counter, expected |-> 0] \in Requests
    BY <2>2 DEF Requests
  <2>4. request' \in [Sessions -> Requests]
    BY <2>1, <2>3
  <2>5. raced' \in BOOLEAN /\ made' \in Tags /\ pc' \in [Sessions -> Pcs]
    BY <1>2, <2>2 DEF CallStamp, Goto, Pcs
  <2> QED
    BY <1>2, <2>4, <2>5 DEF CallStamp, device, link, pipes
<1>3. CASE CallExpect(s)
  <2>1. request' \in [Sessions -> Requests]
    BY <1>3 DEF CallExpect, Requests
  <2> QED
    BY <1>3, <2>1 DEF CallExpect, Goto, Pcs, device, link, pipes
<1>4. CASE CallLoad(s)
  BY <1>4 DEF CallLoad, Goto, Pcs, device, link, pipes
<1>5. CASE CallStore(s)
  <2>1. counter' \in Ids
    BY <1>5, IncrementType DEF CallStore
  <2>2. loaded' \in [Sessions -> Ids]
    BY <1>5, ExchangeAssumption DEF CallStore, Ids
  <2> QED
    BY <1>5, <2>1, <2>2 DEF CallStore, Goto, Pcs, device, link, pipes
<1> QED
  BY <1>1, <1>2, <1>3, <1>4, <1>5 DEF Call, CreateStep

\* Reconnecting keeps the types of the links.
LEMMA LinkTypes ==
    ASSUME TypeOK, NEW s \in Sessions, Reconnected(s) \/ NotReconnected(s)
    PROVE  connected' \subseteq Sessions /\ alive' \subseteq connected' \cap plugged' /\ plugged' = plugged
  BY DEF TypeOK, Reconnected, NotReconnected

\* Transfers keep the types.
LEMMA TransferTypes ==
    ASSUME TypeOK, NEW s \in Sessions, WriteStep(s) \/ HeaderStep(s) \/ PayloadStep(s)
    PROVE  TypeOK'
<1>1. ASSUME WriteSent(s) PROVE TypeOK'
  <2>1. toDevice' \in [Sessions -> Seq(Requests)]
    BY <1>1 DEF WriteSent, TypeOK
  <2> QED
    BY <1>1, <2>1 DEF TypeOK, WriteSent, Goto, Pcs, calling, device, link
<1>2. ASSUME WriteTimeout(s) PROVE TypeOK'
  <2>1. toDevice' \in [Sessions -> Seq(Requests)]
    <3>1. request[s] \in Requests /\ toDevice \in [Sessions -> Seq(Requests)]
      BY DEF TypeOK
    <3>2. [toDevice EXCEPT ![s] = Append(@, request[s])] \in [Sessions -> Seq(Requests)]
      BY <3>1
    <3> QED
      BY <1>2, <3>1, <3>2 DEF WriteTimeout
  <2> QED
    BY <1>2, <2>1, ResultTypes, ReturnTypes DEF TypeOK, WriteTimeout, calling, device, link
<1>3. ASSUME WriteReconnected(s) PROVE TypeOK'
  <2>1. /\ pc' \in [Sessions -> Pcs]
        /\ result' \in [Sessions -> Results]
        /\ response' \in [Sessions -> Headers]
    BY <1>3, ResultTypes, ReturnTypes DEF TypeOK, WriteReconnected, Goto, Pcs
  <2> QED
    BY <1>3, <2>1, LinkTypes DEF TypeOK, WriteReconnected, calling, device, pipes
<1>4. ASSUME WriteLost(s) PROVE TypeOK'
  BY <1>4, ResultTypes, ReturnTypes, LinkTypes DEF TypeOK, WriteLost, calling, device, pipes
<1>5. ASSUME HeaderRead(s) PROVE TypeOK'
  <2> DEFINE m == Head(fromDevice[s])
  <2>1. m \in Headers \cup Payloads /\ Tail(fromDevice[s]) \in Seq(Headers \cup Payloads)
    BY <1>5 DEF HeaderRead, TypeOK
  <2>2. fromDevice' \in [Sessions -> Seq(Headers \cup Payloads)]
    BY <1>5, <2>1 DEF HeaderRead, TypeOK
  <2>3. Verified(s, m) => m \in Headers
    BY <2>1 DEF Verified, Payloads
  <2> HIDE DEF m
  <2>4. CASE ~Verified(s, m) /\ Return(s, Failed(s))
    BY <1>5, <2>2, <2>4, ResultTypes, ReturnTypes DEF TypeOK, HeaderRead, calling, device, link
  <2>5. CASE Verified(s, m) /\ Return(s, Succeeded(s, m, Untouched))
    <3>1. Succeeded(s, m, Untouched) \in Results
      BY <2>3, <2>5, ResultTypes
    <3> QED
      BY <1>5, <2>2, <2>5, <3>1, ReturnTypes DEF TypeOK, HeaderRead, calling, device, link
  <2>6. CASE Verified(s, m) /\ response' = [response EXCEPT ![s] = m] /\ Goto(s, "payload")
             /\ UNCHANGED result
    BY <1>5, <2>2, <2>3, <2>6 DEF TypeOK, HeaderRead, Goto, Pcs, calling, device, link
  <2> QED
    BY <1>5, <2>4, <2>5, <2>6 DEF HeaderRead, m
<1>6. ASSUME HeaderTimeout(s) PROVE TypeOK'
  BY <1>6, ResultTypes, ReturnTypes DEF TypeOK, HeaderTimeout, calling, device, link, pipes
<1>7. ASSUME HeaderLost(s) PROVE TypeOK'
  BY <1>7, ResultTypes, ReturnTypes, LinkTypes DEF TypeOK, HeaderLost, calling, device, pipes
<1>8. ASSUME PayloadRead(s) PROVE TypeOK'
  <2>1. /\ Head(fromDevice[s]) \in Headers \cup Payloads
        /\ Tail(fromDevice[s]) \in Seq(Headers \cup Payloads)
    BY <1>8 DEF PayloadRead, TypeOK
  <2>2. fromDevice' \in [Sessions -> Seq(Headers \cup Payloads)]
    BY <1>8, <2>1 DEF PayloadRead, TypeOK
  <2>3. Head(fromDevice[s]).tag \in Tags
    BY <2>1 DEF Headers, Payloads
  <2>4. Outcome(s, Head(fromDevice[s]).tag) \in Results
    BY <2>3, ResultTypes
  <2> QED
    BY <1>8, <2>2, <2>4, ReturnTypes DEF TypeOK, PayloadRead, calling, device, link
<1>9. ASSUME PayloadTimeout(s) PROVE TypeOK'
  BY <1>9, ResultTypes, ReturnTypes DEF TypeOK, PayloadTimeout, calling, device, link, pipes
<1>10. ASSUME PayloadReconnected(s) PROVE TypeOK'
  <2>1. Outcome(s, Garbage) \in Results /\ Failed(s) \in Results
    BY ResultTypes
  <2> QED
    BY <1>10, <2>1, ReturnTypes, LinkTypes DEF TypeOK, PayloadReconnected, calling, device, pipes
<1>11. ASSUME PayloadLost(s) PROVE TypeOK'
  BY <1>11, ResultTypes, ReturnTypes, LinkTypes DEF TypeOK, PayloadLost, calling, device, pipes
<1> QED
  BY <1>1, <1>2, <1>3, <1>4, <1>5, <1>6, <1>7, <1>8, <1>9, <1>10, <1>11
  DEF WriteStep, HeaderStep, PayloadStep

\* The device and the cable keep the types.
LEMMA EnvironmentTypes ==
    ASSUME TypeOK, NEW s \in Sessions, Environment(s)
    PROVE  TypeOK'
<1>1. CASE DeviceAnswer(s)
  <2> DEFINE q == toDevice[s]
             p == fromDevice[s]
  <2>1. Head(q) \in Requests /\ Tail(q) \in Seq(Requests) /\ p \in Seq(Headers \cup Payloads)
    BY <1>1 DEF DeviceAnswer, TypeOK
  <2>2. PICK h \in Answers(Head(q)) :
            /\ fromDevice' = [fromDevice EXCEPT ![s] = Append(p, h)]
            /\ executed' = IF h.code = "RSP_OK" THEN executed \cup {h.tag} ELSE executed
            /\ sending' = [sending EXCEPT ![s] = IF h.data THEN h.tag ELSE 0]
    BY <1>1 DEF DeviceAnswer
  <2>3. h \in Headers /\ h.tag \in Tags /\ 0 \in Tags
    BY <2>1, AnswerTypes, ExchangeAssumption DEF Headers, Tags
  <2>4. Append(p, h) \in Seq(Headers \cup Payloads)
    BY <2>1, <2>3
  <2>5. fromDevice' \in [Sessions -> Seq(Headers \cup Payloads)]
    BY <2>2, <2>4 DEF TypeOK
  <2>6. executed' \subseteq Tags /\ sending' \in [Sessions -> Tags]
    BY <2>2, <2>3 DEF TypeOK
  <2>7. toDevice' \in [Sessions -> Seq(Requests)]
    BY <1>1, <2>1 DEF DeviceAnswer, TypeOK
  <2> QED
    BY <1>1, <2>5, <2>6, <2>7 DEF TypeOK, DeviceAnswer, calling, link
<1>2. CASE DevicePayload(s)
  <2>1. [type |-> "payload", tag |-> sending[s]] \in Payloads
    BY DEF TypeOK, Payloads
  <2>2. fromDevice' \in [Sessions -> Seq(Headers \cup Payloads)]
    BY <1>2, <2>1 DEF DevicePayload, TypeOK
  <2>3. sending' \in [Sessions -> Tags]
    BY <1>2, ExchangeAssumption DEF DevicePayload, TypeOK, Tags
  <2> QED
    BY <1>2, <2>2, <2>3 DEF TypeOK, DevicePayload, calling, link
<1>3. CASE Unplug(s)
  <2>1. sending' \in [Sessions -> Tags]
    BY <1>3, ExchangeAssumption DEF Unplug, TypeOK, Tags
  <2>2. toDevice' \in [Sessions -> Seq(Requests)] /\ fromDevice' \in [Sessions -> Seq(Headers \cup Payloads)]
    BY <1>3 DEF Unplug, TypeOK
  <2> QED
    BY <1>3, <2>1, <2>2 DEF TypeOK, Unplug, calling
<1>4. CASE Fault(s)
  BY <1>4 DEF TypeOK, Fault, calling, device, pipes
<1>5. CASE Plug(s)
  BY <1>5 DEF TypeOK, Plug, calling, device, pipes
<1> QED
  BY <1>1, <1>2, <1>3, <1>4, <1>5 DEF Environment

\* Every step keeps the types.
LEMMA NextTypes == TypeOK /\ [Next]_vars => TypeOK'
<1> SUFFICES ASSUME TypeOK, [Next]_vars PROVE TypeOK'
  OBVIOUS
<1>1. CASE Next
  BY <1>1, CreateTypes, TransferTypes, EnvironmentTypes DEF Next, Step, Call
<1>2. CASE UNCHANGED vars
  BY <1>2 DEF TypeOK, vars, calling, device, link, pipes
<1> QED
  BY <1>1, <1>2

\* TypeOK holds in every state: the callers, links and pipes of all sessions keep their
\* types (send_command, sensact.c:310).
THEOREM TypeCorrect == Spec => []TypeOK
  BY InitTypes, NextTypes, PTL DEF Spec

-----------------------------------------------------------------------------
(***************************************************************************)
(* The order of the tags, the truth of the answers, and empty pipes after  *)
(* a success.                                                              *)
(***************************************************************************)

\* The pipes of session r stay as they are, and its caller accepts nothing.
Quiet(r) ==
    /\ toDevice'[r] = toDevice[r] /\ fromDevice'[r] = fromDevice[r] /\ sending'[r] = sending[r]
    /\ made <= made' /\ executed \subseteq executed'
    /\ request'[r].tag = request[r].tag /\ request'[r].op = request[r].op
    /\ pc'[r] \in Unwritten => pc[r] \in Unwritten
    /\ pc'[r] # "idle" => pc[r] # "idle"
    /\ pc'[r] = "payload" =>
          pc[r] = "payload" /\ response'[r] = response[r] /\ (r \in alive' => r \in alive)

\* The order of the tags in quiet pipes.
LEMMA QuietOrdered ==
    ASSUME TypeOK, TypeOK', NEW r \in Sessions, Quiet(r), Ordered(r)
    PROVE  Ordered(r)'
<1>1. /\ toDevice[r] \in Seq(Requests) /\ fromDevice[r] \in Seq(Answerable)
      /\ sending[r] \in Tags /\ request[r].tag \in Int /\ request'[r].tag = request[r].tag
      /\ made \in Int /\ made' \in Int /\ made <= made'
  <2>1. request[r] \in Requests /\ made \in Int /\ made' \in Int
    BY ExchangeAssumption DEF TypeOK, Tags
  <2>2. request[r].tag \in Int
    BY <2>1, ExchangeAssumption DEF Requests, Tags
  <2>3. /\ toDevice[r] \in Seq(Requests) /\ fromDevice[r] \in Seq(Answerable)
        /\ sending[r] \in Tags
    BY DEF TypeOK, Answerable
  <2> QED
    BY <2>1, <2>2, <2>3 DEF Quiet
<1>2. Bound(r) \in Int /\ Bound(r)' \in Int /\ Bound(r) <= Bound(r)'
  BY <1>1 DEF Quiet, Bound
<1>3. QueueInv(toDevice[r], fromDevice[r], sending[r], Bound(r)')
  BY <1>1, <1>2, QueueLater DEF Ordered
<1>4. QueueInv(toDevice[r], fromDevice[r], sending[r], Bound(r))'
  BY <1>3 DEF Quiet, QueueInv
<1>5. PayloadAwaited(r)'
  BY DEF Quiet, Ordered, PayloadAwaited
<1>6. request'[r].tag <= made' /\ (pc'[r] # "idle" => 0 < request'[r].tag)
  BY <1>1 DEF Quiet, Ordered
<1> QED
  BY <1>4, <1>5, <1>6 DEF Ordered

\* The answers in quiet pipes.
LEMMA QuietAnswered ==
    ASSUME NEW r \in Sessions, Quiet(r), Answered(r)
    PROVE  Answered(r)'
  BY DEF Quiet, Answered, Faithful, Truthful

\* A step of session s leaves the others alone.
LEMMA OthersQuiet ==
    ASSUME TypeOK, NEW s \in Sessions, NEW r \in Sessions, r # s,
           Call(s) \/ Step(s) \/ Environment(s)
    PROVE  /\ Quiet(r)
           /\ pc'[r] = pc[r] /\ request'[r] = request[r] /\ result'[r] = result[r]
           /\ response'[r] = response[r] /\ loaded'[r] = loaded[r]
<1> USE DEF Quiet, TypeOK, calling, device, link, pipes, Return, Goto
<1>1. made <= made' /\ executed \subseteq executed'
  <2>1. made \in Int
    BY ExchangeAssumption DEF Tags
  <2> QED
    BY <2>1 DEF Call, Step, Environment, CallRefused, CallStamp, CreateStep, CallExpect, CallLoad,
      CallStore, WriteStep, WriteSent, WriteTimeout, WriteReconnected, WriteLost, HeaderStep,
      HeaderRead, HeaderTimeout, HeaderLost, PayloadStep, PayloadRead, PayloadTimeout,
      PayloadReconnected, PayloadLost, DeviceAnswer, DevicePayload, Unplug, Fault, Plug
<1>2. CASE Call(s)
  BY <1>1, <1>2 DEF Call, CallRefused, CallStamp
<1>3. CASE CreateStep(s)
  BY <1>1, <1>3 DEF CreateStep, CallExpect, CallLoad, CallStore
<1>4. CASE WriteStep(s)
  <2>1. r \in alive' => r \in alive
    BY <1>4 DEF WriteStep, WriteSent, WriteTimeout, WriteReconnected, WriteLost, Reconnected,
      NotReconnected
  <2> QED
    BY <1>1, <1>4, <2>1 DEF WriteStep, WriteSent, WriteTimeout, WriteReconnected, WriteLost
<1>5. CASE HeaderStep(s)
  <2>1. r \in alive' => r \in alive
    BY <1>5 DEF HeaderStep, HeaderRead, HeaderTimeout, HeaderLost, Reconnected, NotReconnected
  <2> QED
    BY <1>1, <1>5, <2>1 DEF HeaderStep, HeaderRead, HeaderTimeout, HeaderLost
<1>6. CASE PayloadStep(s)
  <2>1. r \in alive' => r \in alive
    BY <1>6 DEF PayloadStep, PayloadRead, PayloadTimeout, PayloadReconnected, PayloadLost,
      Reconnected, NotReconnected
  <2> QED
    BY <1>1, <1>6, <2>1 DEF PayloadStep, PayloadRead, PayloadTimeout, PayloadReconnected, PayloadLost
<1>7. CASE Environment(s)
  BY <1>1, <1>7 DEF Environment, DeviceAnswer, DevicePayload, Unplug, Fault, Plug
<1> QED
  BY <1>2, <1>3, <1>4, <1>5, <1>6, <1>7 DEF Step

\* Some steps of session s leave its own pipes alone, too.
QuietStep(s) ==
    \/ CallRefused(s) \/ CreateStep(s) \/ WriteReconnected(s) \/ WriteLost(s)
    \/ HeaderTimeout(s) \/ HeaderLost(s) \/ PayloadTimeout(s) \/ PayloadReconnected(s)
    \/ PayloadLost(s) \/ Fault(s) \/ Plug(s)

\* They are quiet.
LEMMA OwnQuiet == ASSUME TypeOK, NEW s \in Sessions, QuietStep(s) PROVE Quiet(s)
<1> USE DEF Quiet, TypeOK, calling, device, link, pipes, Return, Goto, Unwritten
<1>1. made <= made /\ executed \subseteq executed
  BY ExchangeAssumption DEF Tags
<1>2. CASE CallRefused(s) \/ Fault(s) \/ Plug(s)
  BY <1>1, <1>2 DEF CallRefused, Fault, Plug
<1>3. CASE CreateStep(s)
  BY <1>1, <1>3 DEF CreateStep, CallExpect, CallLoad, CallStore, Requests
<1>4. CASE WriteReconnected(s) \/ WriteLost(s)
  BY <1>1, <1>4 DEF WriteReconnected, WriteLost
<1>5. CASE HeaderTimeout(s) \/ HeaderLost(s)
  BY <1>1, <1>5 DEF HeaderTimeout, HeaderLost
<1>6. CASE PayloadTimeout(s) \/ PayloadReconnected(s) \/ PayloadLost(s)
  BY <1>1, <1>6 DEF PayloadTimeout, PayloadReconnected, PayloadLost
<1> QED
  BY <1>2, <1>3, <1>4, <1>5, <1>6 DEF QuietStep

\* A call that fails drains nothing.
LEMMA FailedDrained ==
    ASSUME NEW s \in Sessions, result'[s] = Failed(s), request'[s] = request[s]
    PROVE  Drained(s)'
  BY DEF Drained, Failed

\* A quiet step that returns a success got garbage, or a header that is not its own.
LEMMA QuietDrained ==
    ASSUME TypeOK, TypeOK', NEW s \in Sessions, QuietStep(s), Ordered(s), Answered(s), Drained(s)
    PROVE  Drained(s)'
<1> USE DEF TypeOK, calling, device, link, pipes, Return, Goto
<1>1. CASE CallRefused(s)
  BY <1>1, FailedDrained DEF CallRefused
<1>2. CASE Fault(s) \/ Plug(s)
  BY <1>2 DEF Fault, Plug, Drained
<1>3. CASE CreateStep(s)
  BY <1>3 DEF CreateStep, CallExpect, CallLoad, CallStore, Drained
<1>4. CASE WriteReconnected(s) \/ WriteLost(s)
  <2>1. CASE pc'[s] = "header"
    BY <2>1 DEF Drained
  <2> QED
    BY <1>4, <2>1, FailedDrained DEF WriteReconnected, WriteLost
<1>5. CASE HeaderTimeout(s) \/ HeaderLost(s) \/ PayloadTimeout(s) \/ PayloadLost(s)
  BY <1>5, FailedDrained DEF HeaderTimeout, HeaderLost, PayloadTimeout, PayloadLost
<1>6. CASE PayloadReconnected(s)
  <2>1. request' = request /\ pc[s] = "payload"
    BY <1>6 DEF PayloadReconnected
  <2>2. CASE Return(s, Failed(s))
    BY <2>1, <2>2, FailedDrained
  <2>3. CASE Return(s, Outcome(s, Garbage))
    <3>1. result'[s] = Outcome(s, Garbage)
      BY <2>3
    <3>2. CASE response[s].code # "RSP_OK"
      BY <2>1, <3>1, <3>2, FailedDrained DEF Outcome
    <3>3. CASE response[s].code = "RSP_OK"
      <4>1. /\ result'[s].tag = request[s].tag /\ result'[s].header.tag = response[s].tag
            /\ result'[s].value = (IF request[s].op = "get" THEN Garbage ELSE Untouched)
        BY <3>1, <3>3 DEF Outcome, Succeeded
      <4>2. response[s].tag = request[s].tag => request[s].op = "get"
        BY <2>1, <3>3 DEF Answered, Truthful
      <4> QED
        BY <2>1, <4>1, <4>2 DEF Drained
    <3> QED
      BY <3>2, <3>3
  <2> QED
    BY <1>6, <2>2, <2>3 DEF PayloadReconnected
<1> QED
  BY <1>1, <1>2, <1>3, <1>4, <1>5, <1>6 DEF QuietStep

-----------------------------------------------------------------------------
\* What the invariant says of one session.
Local(s) == Ordered(s) /\ Answered(s) /\ Drained(s)

\* The pipes of a session, and its newest tag, are of the right types.
LEMMA LocalTypes ==
    ASSUME TypeOK, NEW s \in Sessions
    PROVE  /\ toDevice[s] \in Seq(Requests) /\ fromDevice[s] \in Seq(Answerable)
           /\ sending[s] \in Tags /\ request[s] \in Requests
           /\ request[s].tag \in Nat /\ Bound(s) \in Int /\ made \in Nat
<1>1. request[s] \in Requests /\ made \in Nat
  BY ExchangeAssumption DEF TypeOK, Tags
<1>2. request[s].tag \in Nat
  BY <1>1, ExchangeAssumption DEF Requests, Tags
<1>3. /\ toDevice[s] \in Seq(Requests) /\ fromDevice[s] \in Seq(Answerable)
      /\ sending[s] \in Tags
  BY DEF TypeOK, Answerable
<1> QED
  BY <1>1, <1>2, <1>3 DEF Bound

\* The tags in the pipes are not above the bound.
LEMMA TagBounds ==
    ASSUME TypeOK, NEW s \in Sessions, Ordered(s)
    PROVE  /\ \A i \in 1 .. Len(toDevice[s]) :
                  toDevice[s][i].tag \in Nat \ {0} /\ toDevice[s][i].tag <= Bound(s)
           /\ \A k \in 1 .. Len(fromDevice[s]) :
                  fromDevice[s][k].tag \in Nat \ {0} /\ fromDevice[s][k].tag <= Bound(s)
<1>1. /\ \A i \in 1 .. Len(toDevice[s]) : toDevice[s][i].tag \in Int
      /\ \A k \in 1 .. Len(fromDevice[s]) : fromDevice[s][k].tag \in Int
  BY LocalTypes, TagTypes
<1>2. /\ \A i \in 1 .. Len(toDevice[s]) :
            0 < toDevice[s][i].tag /\ toDevice[s][i].tag <= Bound(s)
      /\ \A k \in 1 .. Len(fromDevice[s]) :
            0 < fromDevice[s][k].tag /\ fromDevice[s][k].tag <= Bound(s)
  BY DEF Ordered, QueueInv
<1> QED
  BY <1>1, <1>2

\* A request is created.
LEMMA StampLocal ==
    ASSUME TypeOK, TypeOK', NEW s \in Sessions, CallStamp(s), Local(s)
    PROVE  Local(s)'
<1> DEFINE q == toDevice[s]
           p == fromDevice[s]
           b == request[s].tag
<1>1. /\ pc[s] = "idle" /\ pc'[s] = "expect" /\ made' = made + 1
      /\ request'[s].tag = made + 1
      /\ toDevice' = toDevice /\ fromDevice' = fromDevice /\ sending' = sending
      /\ executed' = executed
  BY DEF TypeOK, CallStamp, MayCall, Goto, device, pipes
<1>2. Bound(s) = b /\ b <= made /\ b \in Nat /\ made \in Nat
  BY <1>1, LocalTypes DEF Bound, Unwritten, Local, Ordered
<1>3. Bound(s)' = made
  BY <1>1, <1>2 DEF Bound, Unwritten
<1>4. QueueInv(q, p, sending[s], made)
  BY <1>2, QueueLater, LocalTypes DEF Local, Ordered
<1>5. Ordered(s)'
  <2>1. QueueInv(toDevice[s], fromDevice[s], sending[s], Bound(s))'
    BY <1>1, <1>3, <1>4 DEF QueueInv
  <2> QED
    BY <1>1, <1>2, <2>1 DEF Ordered, PayloadAwaited
<1>6. Answered(s)'
  <2>1. /\ \A i \in 1 .. Len(q) : q[i].tag # made + 1
        /\ \A k \in 1 .. Len(p) : p[k].tag # made + 1
    BY <1>2, TagBounds DEF Local
  <2>2. Faithful(q, p, request[s])
    BY DEF Local, Answered
  <2> QED
    BY <1>1, <2>1, <2>2 DEF Answered, Faithful, Truthful
<1>7. Drained(s)'
  BY <1>1 DEF Drained
<1> QED
  BY <1>5, <1>6, <1>7 DEF Local

\* A request is written.
LEMMA SendLocal ==
    ASSUME TypeOK, TypeOK', NEW s \in Sessions, WriteSent(s) \/ WriteTimeout(s), Local(s)
    PROVE  Local(s)'
<1> DEFINE q == toDevice[s]
           p == fromDevice[s]
           r == request[s]
<1>1. /\ pc[s] = "write" /\ pc'[s] \in {"idle", "header"} /\ made' = made
      /\ request' = request /\ fromDevice' = fromDevice /\ sending' = sending
      /\ executed' = executed
      /\ toDevice'[s] = q \/ toDevice'[s] = Append(q, r)
      /\ pc'[s] = "idle" => result'[s] = Failed(s)
  BY DEF TypeOK, WriteSent, WriteTimeout, Return, Goto, calling, device
<1>2. /\ q \in Seq(Requests) /\ p \in Seq(Answerable) /\ sending[s] \in Tags
      /\ r \in Requests /\ r.tag \in Nat
  BY LocalTypes
<1>3. Bound(s) = r.tag - 1 /\ Bound(s)' = r.tag
  BY <1>1 DEF Bound, Unwritten
<1>4. QueueInv(q, p, sending[s], r.tag - 1)
  BY <1>3 DEF Local, Ordered
<1>5. QueueInv(q, p, sending[s], r.tag) /\ QueueInv(Append(q, r), p, sending[s], r.tag)
  BY <1>2, <1>4, QueueLater, QueueSend
<1>6. Ordered(s)'
  <2>1. QueueInv(toDevice'[s], p, sending[s], r.tag)
    BY <1>1, <1>5
  <2>2. QueueInv(toDevice[s], fromDevice[s], sending[s], Bound(s))'
    BY <1>1, <1>3, <2>1 DEF QueueInv
  <2> QED
    BY <1>1, <2>2 DEF Local, Ordered, PayloadAwaited
<1>7. Answered(s)'
  <2>1. Faithful(q, p, r)
    BY DEF Local, Answered
  <2>2. /\ Len(q) \in Nat /\ Len(Append(q, r)) = Len(q) + 1 /\ Append(q, r)[Len(q) + 1] = r
        /\ \A i \in 1 .. Len(q) : Append(q, r)[i] = q[i]
    BY <1>2, AppendFacts
  <2>3. \A i \in 1 .. Len(Append(q, r)) : Append(q, r)[i].tag = r.tag => Append(q, r)[i].op = r.op
    <3> TAKE i \in 1 .. Len(Append(q, r))
    <3>1. i \in 1 .. Len(q) \/ i = Len(q) + 1
      BY <2>2
    <3> QED
      BY <2>1, <2>2, <3>1 DEF Faithful
  <2>4. Faithful(toDevice'[s], p, r)
    BY <1>1, <2>1, <2>3 DEF Faithful
  <2> QED
    BY <1>1, <2>4 DEF Answered, Faithful, Truthful
<1>8. Drained(s)'
  <2>1. CASE pc'[s] = "idle"
    BY <1>1, <2>1, FailedDrained
  <2> QED
    BY <2>1 DEF Drained
<1> QED
  BY <1>6, <1>7, <1>8 DEF Local

\* A header is read.
LEMMA HeaderLocal ==
    ASSUME TypeOK, TypeOK', NEW s \in Sessions, HeaderRead(s), Local(s)
    PROVE  Local(s)'
<1> DEFINE q == toDevice[s]
           p == fromDevice[s]
           r == request[s]
           m == Head(p)
<1>1. /\ pc[s] = "header" /\ p # <<>> /\ fromDevice'[s] = Tail(p)
      /\ toDevice' = toDevice /\ sending' = sending /\ executed' = executed
      /\ request' = request /\ made' = made
  BY DEF TypeOK, HeaderRead, calling, device
<1>2. /\ q \in Seq(Requests) /\ p \in Seq(Answerable) /\ sending[s] \in Tags
      /\ r \in Requests /\ r.tag \in Nat
  BY LocalTypes
<1>3. \/ pc'[s] = "idle" /\ result'[s] = Failed(s)
      \/ /\ pc'[s] = "idle" /\ ~m.data /\ result'[s].value = Untouched
         /\ m.type = "header" /\ result'[s].header = m
         /\ result'[s].tag = r.tag
      \/ pc'[s] = "payload" /\ m.type = "header" /\ m.data /\ response'[s] = m
  BY DEF TypeOK, HeaderRead, Return, Goto, Succeeded, Verified, HasPayload
<1>4. Bound(s) = r.tag /\ Bound(s)' = r.tag
  BY <1>1, <1>3 DEF Bound, Unwritten
<1>5. QueueInv(q, p, sending[s], r.tag) /\ QueueInv(q, Tail(p), sending[s], r.tag)
  BY <1>1, <1>2, <1>4, QueueRead DEF Local, Ordered
<1>6. /\ Len(p) \in Nat \ {0} /\ Tail(p) \in Seq(Answerable) /\ Len(Tail(p)) = Len(p) - 1
      /\ m = p[1] /\ \A k \in 1 .. Len(p) - 1 : Tail(p)[k] = p[k + 1]
  BY <1>1, <1>2, TailFacts
<1>7. m.tag \in Nat \ {0} /\ m.tag <= r.tag
  BY <1>4, <1>6, TagBounds DEF Local
<1>8. Ordered(s)'
  <2>1. QueueInv(toDevice[s], fromDevice[s], sending[s], Bound(s))'
    BY <1>1, <1>4, <1>5 DEF QueueInv
  <2>2. ASSUME pc'[s] = "payload"
        PROVE  IF Tail(p) = <<>> THEN sending[s] = m.tag
               ELSE Tail(p)[1] = [type |-> "payload", tag |-> m.tag]
    <3>1. Announces(m)
      BY <1>3, <2>2 DEF Announces
    <3> QED
      BY <1>1, <1>2, <1>5, <3>1, QueueAccept
  <2>3. PayloadAwaited(s)'
    BY <1>1, <1>3, <2>2 DEF PayloadAwaited
  <2> QED
    BY <1>1, <2>1, <2>3 DEF Local, Ordered
<1>9. Answered(s)'
  <2>1. Faithful(q, p, r)
    BY DEF Local, Answered
  <2>2. \A k \in 1 .. Len(Tail(p)) :
            Tail(p)[k].type = "header" => Truthful(Tail(p)[k], r)
    <3> TAKE k \in 1 .. Len(Tail(p))
    <3>1. k + 1 \in 1 .. Len(p) /\ Tail(p)[k] = p[k + 1]
      BY <1>6
    <3> QED
      BY <2>1, <3>1 DEF Faithful
  <2>3. Faithful(toDevice[s], fromDevice[s], request[s])'
    BY <1>1, <2>1, <2>2 DEF Faithful, Truthful
  <2>4. m.type = "header" => Truthful(m, r)
    <3>1. 1 \in 1 .. Len(p)
      BY <1>6
    <3> QED
      BY <1>6, <2>1, <3>1 DEF Faithful
  <2>5. pc'[s] = "payload" => Truthful(response[s], request[s])'
    BY <1>1, <1>3, <2>4 DEF Truthful
  <2> QED
    BY <1>1, <1>3, <1>7, <2>3, <2>5 DEF Answered
<1>10. Drained(s)'
  <2>1. CASE result'[s] = Failed(s)
    BY <1>1, <2>1, FailedDrained
  <2>2. CASE /\ pc'[s] = "idle" /\ ~m.data /\ result'[s].header = m
             /\ result'[s].tag = r.tag
    <3>1. m.tag = r.tag => q = <<>> /\ Tail(p) = <<>> /\ sending[s] = 0
      BY <1>1, <1>2, <1>5, <2>2, QueueLast DEF Announces
    <3> QED
      BY <1>1, <2>2, <3>1 DEF Drained
  <2>3. CASE pc'[s] = "payload"
    BY <2>3 DEF Drained
  <2> QED
    BY <1>3, <2>1, <2>2, <2>3
<1> QED
  BY <1>8, <1>9, <1>10 DEF Local

\* A payload is read.
LEMMA PayloadLocal ==
    ASSUME TypeOK, TypeOK', NEW s \in Sessions, PayloadRead(s), Local(s)
    PROVE  Local(s)'
<1> DEFINE q == toDevice[s]
           p == fromDevice[s]
           r == request[s]
           m == Head(p)
<1>1. /\ pc[s] = "payload" /\ s \in alive /\ p # <<>> /\ fromDevice'[s] = Tail(p)
      /\ toDevice' = toDevice /\ sending' = sending /\ executed' = executed
      /\ request' = request /\ made' = made /\ pc'[s] = "idle"
      /\ result'[s] = Outcome(s, m.tag)
  BY DEF TypeOK, PayloadRead, CanTransfer, Return, Goto, calling, device
<1>2. /\ q \in Seq(Requests) /\ p \in Seq(Answerable) /\ sending[s] \in Tags
      /\ r \in Requests /\ r.tag \in Nat
  BY LocalTypes
<1>3. Bound(s) = r.tag /\ Bound(s)' = r.tag
  BY <1>1 DEF Bound, Unwritten
<1>4. QueueInv(q, p, sending[s], r.tag) /\ QueueInv(q, Tail(p), sending[s], r.tag)
  BY <1>1, <1>2, <1>3, QueueRead DEF Local, Ordered
<1>5. /\ Len(p) \in Nat \ {0} /\ Tail(p) \in Seq(Answerable) /\ Len(Tail(p)) = Len(p) - 1
      /\ m = p[1] /\ \A k \in 1 .. Len(p) - 1 : Tail(p)[k] = p[k + 1]
  BY <1>1, <1>2, TailFacts
<1>6. m = [type |-> "payload", tag |-> response[s].tag]
  BY <1>1, <1>5 DEF Local, Ordered, PayloadAwaited
<1>7. Ordered(s)'
  <2>1. QueueInv(toDevice[s], fromDevice[s], sending[s], Bound(s))'
    BY <1>1, <1>3, <1>4 DEF QueueInv
  <2> QED
    BY <1>1, <2>1 DEF Local, Ordered, PayloadAwaited
<1>8. Answered(s)'
  <2>1. Faithful(q, p, r)
    BY DEF Local, Answered
  <2>2. \A k \in 1 .. Len(Tail(p)) :
            Tail(p)[k].type = "header" => Truthful(Tail(p)[k], r)
    <3> TAKE k \in 1 .. Len(Tail(p))
    <3>1. k + 1 \in 1 .. Len(p) /\ Tail(p)[k] = p[k + 1]
      BY <1>5
    <3> QED
      BY <2>1, <3>1 DEF Faithful
  <2>3. Faithful(toDevice[s], fromDevice[s], request[s])'
    BY <1>1, <2>1, <2>2 DEF Faithful, Truthful
  <2> QED
    BY <1>1, <2>3 DEF Answered
<1>9. Drained(s)'
  <2>1. CASE response[s].code # "RSP_OK"
    <3>1. result'[s] = Failed(s)
      BY <1>1, <2>1 DEF Outcome
    <3> QED
      BY <1>1, <3>1, FailedDrained
  <2>2. CASE response[s].code = "RSP_OK"
    <3>1. result'[s].tag = r.tag /\ result'[s].header.tag = response[s].tag
      BY <1>1, <2>2 DEF Outcome, Succeeded
    <3>2. ~Announces(m) /\ m.tag = response[s].tag
      BY <1>6 DEF Announces
    <3>3. response[s].tag = r.tag => q = <<>> /\ Tail(p) = <<>> /\ sending[s] = 0
      BY <1>1, <1>2, <1>4, <3>2, QueueLast
    <3> QED
      BY <1>1, <3>1, <3>3 DEF Drained
  <2> QED
    BY <2>1, <2>2
<1> QED
  BY <1>7, <1>8, <1>9 DEF Local

\* The device answers.
LEMMA AnswerLocal ==
    ASSUME TypeOK, TypeOK', NEW s \in Sessions, DeviceAnswer(s), Local(s)
    PROVE  Local(s)'
<1> DEFINE q == toDevice[s]
           p == fromDevice[s]
           r == request[s]
<1>1. PICK h \in Answers(Head(q)) :
          /\ fromDevice' = [fromDevice EXCEPT ![s] = Append(@, h)]
          /\ executed' = IF h.code = "RSP_OK" THEN executed \cup {h.tag} ELSE executed
          /\ sending' = [sending EXCEPT ![s] = IF h.data THEN h.tag ELSE 0]
  BY DEF DeviceAnswer
<1>2. /\ q # <<>> /\ sending[s] = 0 /\ toDevice'[s] = Tail(q) /\ fromDevice'[s] = Append(p, h)
      /\ sending'[s] = (IF h.data THEN h.tag ELSE 0)
      /\ made' = made /\ pc' = pc /\ request' = request /\ response' = response
      /\ result' = result /\ alive' = alive
  BY <1>1 DEF TypeOK, DeviceAnswer, calling, link
<1>3. /\ q \in Seq(Requests) /\ p \in Seq(Answerable) /\ r \in Requests /\ r.tag \in Nat
      /\ Bound(s) \in Int /\ Bound(s)' = Bound(s)
  BY <1>2, LocalTypes DEF Bound
<1>4. /\ Len(q) \in Nat \ {0} /\ Tail(q) \in Seq(Requests) /\ Len(Tail(q)) = Len(q) - 1
      /\ Head(q) = q[1] /\ q[1] \in Requests /\ \A i \in 1 .. Len(q) - 1 : Tail(q)[i] = q[i + 1]
  BY <1>2, <1>3, TailFacts
<1>5. /\ h \in Headers /\ h \in Answerable /\ h.tag = Head(q).tag
      /\ h.code = "RSP_OK" => (h.data <=> Head(q).op = "get")
  BY <1>4, AnswerTypes DEF Answerable
<1>6. /\ Len(p) \in Nat /\ Len(Append(p, h)) = Len(p) + 1 /\ Append(p, h)[Len(p) + 1] = h
      /\ \A k \in 1 .. Len(p) : Append(p, h)[k] = p[k]
  BY <1>3, <1>5, AppendFacts
<1>7. Ordered(s)'
  <2>1. QueueInv(q, p, 0, Bound(s))
    BY <1>2 DEF Local, Ordered
  <2>2. QueueInv(Tail(q), Append(p, h), IF h.data THEN h.tag ELSE 0, Bound(s))
    BY <1>2, <1>3, <1>5, <2>1, QueueAnswer
  <2>3. QueueInv(toDevice[s], fromDevice[s], sending[s], Bound(s))'
    BY <1>2, <1>3, <2>2 DEF QueueInv
  <2>4. ASSUME pc[s] = "payload", s \in alive
        PROVE  p # <<>> /\ p[1] = [type |-> "payload", tag |-> response[s].tag]
    BY <1>2, <2>4 DEF Local, Ordered, PayloadAwaited, Answered
  <2>5. p # <<>> => Append(p, h) # <<>> /\ Append(p, h)[1] = p[1]
    <3>1. ASSUME p # <<>> PROVE 1 \in 1 .. Len(p)
      BY <1>3, <3>1, TailFacts
    <3> QED
      BY <1>6, <3>1
  <2>6. PayloadAwaited(s)'
    BY <1>2, <2>4, <2>5 DEF PayloadAwaited
  <2> QED
    BY <1>2, <2>3, <2>6 DEF Local, Ordered
<1>8. Answered(s)'
  <2>1. Faithful(q, p, r)
    BY DEF Local, Answered
  <2>2. executed \subseteq executed' /\ (h.code = "RSP_OK" => h.tag \in executed')
    BY <1>1
  <2>3. \A i \in 1 .. Len(Tail(q)) : Tail(q)[i].tag = r.tag => Tail(q)[i].op = r.op
    <3> TAKE i \in 1 .. Len(Tail(q))
    <3>1. i + 1 \in 1 .. Len(q) /\ Tail(q)[i] = q[i + 1]
      BY <1>4
    <3> QED
      BY <2>1, <3>1 DEF Faithful
  <2>4. h.code = "RSP_OK" /\ h.tag = r.tag => (h.data <=> r.op = "get")
    <3>1. q[1].tag = r.tag => q[1].op = r.op
      <4>1. 1 \in 1 .. Len(q)
        BY <1>4
      <4> QED
        BY <2>1, <4>1 DEF Faithful
    <3> QED
      BY <1>4, <1>5, <3>1
  <2>5. ASSUME NEW k \in 1 .. Len(fromDevice'[s]), fromDevice'[s][k].type = "header"
        PROVE  Truthful(fromDevice[s][k], request[s])'
    <3>1. CASE k = Len(p) + 1
      <4>1. fromDevice'[s][k] = h
        BY <1>2, <1>6, <3>1
      <4> QED
        BY <1>2, <2>2, <2>4, <4>1 DEF Truthful
    <3>2. CASE k \in 1 .. Len(p)
      <4>1. fromDevice'[s][k] = p[k]
        BY <1>2, <1>6, <3>2
      <4> QED
        BY <1>2, <2>1, <2>2, <2>5, <3>2, <4>1 DEF Faithful, Truthful
    <3> QED
      BY <1>2, <1>6, <3>1, <3>2
  <2>6. Faithful(toDevice[s], fromDevice[s], request[s])'
    BY <1>2, <2>3, <2>5 DEF Faithful
  <2> QED
    BY <1>2, <2>2, <2>6 DEF Local, Answered, Truthful
<1>9. Drained(s)'
  BY <1>2 DEF Local, Drained
<1> QED
  BY <1>7, <1>8, <1>9 DEF Local

\* The device sends the payload.
LEMMA DevicePayloadLocal ==
    ASSUME TypeOK, TypeOK', NEW s \in Sessions, DevicePayload(s), Local(s)
    PROVE  Local(s)'
<1> DEFINE q == toDevice[s]
           p == fromDevice[s]
           y == [type |-> "payload", tag |-> sending[s]]
<1>1. /\ sending[s] # 0 /\ sending'[s] = 0 /\ fromDevice'[s] = Append(p, y)
      /\ made' = made /\ executed' = executed /\ pc' = pc /\ request' = request
      /\ response' = response /\ result' = result /\ alive' = alive /\ toDevice' = toDevice
  BY DEF TypeOK, DevicePayload, calling, link
<1>2. /\ q \in Seq(Requests) /\ p \in Seq(Answerable) /\ sending[s] \in Tags
      /\ Bound(s) \in Int /\ Bound(s)' = Bound(s)
  BY <1>1, LocalTypes DEF Bound
<1>3. y \in Answerable
  BY <1>2 DEF Answerable, Payloads
<1>4. /\ Len(p) \in Nat /\ Len(Append(p, y)) = Len(p) + 1 /\ Append(p, y)[Len(p) + 1] = y
      /\ \A k \in 1 .. Len(p) : Append(p, y)[k] = p[k]
  BY <1>2, <1>3, AppendFacts
<1>5. Ordered(s)'
  <2>1. QueueInv(q, Append(p, y), 0, Bound(s))
    BY <1>1, <1>2, QueuePayload DEF Local, Ordered
  <2>2. QueueInv(toDevice[s], fromDevice[s], sending[s], Bound(s))'
    BY <1>1, <1>2, <2>1 DEF QueueInv
  <2>3. CASE p = <<>>
    <3>1. Len(p) = 0 /\ Append(p, y) # <<>> /\ Append(p, y)[1] = y
      BY <1>4, <2>3
    <3> QED
      BY <1>1, <2>2, <2>3, <3>1 DEF Local, Ordered, PayloadAwaited
  <2>4. CASE p # <<>>
    <3>1. 1 \in 1 .. Len(p)
      BY <1>2, <2>4, TailFacts
    <3>2. Append(p, y) # <<>> /\ Append(p, y)[1] = p[1]
      BY <1>4, <3>1
    <3> QED
      BY <1>1, <2>2, <2>4, <3>2 DEF Local, Ordered, PayloadAwaited
  <2> QED
    BY <2>3, <2>4
<1>6. Answered(s)'
  <2>1. ASSUME NEW k \in 1 .. Len(fromDevice'[s]), fromDevice'[s][k].type = "header"
        PROVE  Truthful(fromDevice[s][k], request[s])'
    <3>1. k \in 1 .. Len(p) \/ (k = Len(p) + 1 /\ fromDevice'[s][k] = y)
      BY <1>1, <1>4
    <3>2. y.type # "header"
      OBVIOUS
    <3>3. k \in 1 .. Len(p) /\ fromDevice'[s][k] = p[k]
      BY <1>1, <1>4, <2>1, <3>1, <3>2
    <3> QED
      BY <1>1, <2>1, <3>3 DEF Local, Answered, Faithful, Truthful
  <2>2. Faithful(toDevice[s], fromDevice[s], request[s])'
    BY <1>1, <2>1 DEF Local, Answered, Faithful
  <2> QED
    BY <1>1, <2>2 DEF Local, Answered, Truthful
<1>7. Drained(s)'
  BY <1>1 DEF Local, Drained
<1> QED
  BY <1>5, <1>6, <1>7 DEF Local

\* The cable is pulled: the pipes are empty.
LEMMA UnplugLocal ==
    ASSUME TypeOK, TypeOK', NEW s \in Sessions, Unplug(s), Local(s)
    PROVE  Local(s)'
<1>1. /\ toDevice'[s] = <<>> /\ fromDevice'[s] = <<>> /\ sending'[s] = 0 /\ s \notin alive'
      /\ made' = made /\ executed' = executed /\ pc' = pc /\ request' = request
      /\ response' = response /\ result' = result
  BY DEF TypeOK, Unplug, calling
<1>2. Bound(s)' \in Nat
  <2>1. Bound(s)' = Bound(s) /\ Bound(s) \in Int
    BY <1>1, LocalTypes DEF Bound
  <2>2. sending[s] <= Bound(s) /\ sending[s] \in Nat
    BY ExchangeAssumption, LocalTypes DEF Local, Ordered, QueueInv, Tags
  <2> QED
    BY <2>1, <2>2
<1>3. QueueInv(<<>>, <<>>, 0, Bound(s)')
  BY <1>2, QueueEmpty
<1>4. QueueInv(toDevice[s], fromDevice[s], sending[s], Bound(s))'
  BY <1>1, <1>3 DEF QueueInv
<1>5. Ordered(s)'
  BY <1>1, <1>4 DEF Local, Ordered, PayloadAwaited
<1>6. Answered(s)'
  BY <1>1 DEF Local, Answered, Faithful, Truthful
<1>7. Drained(s)'
  BY <1>1 DEF Local, Drained
<1> QED
  BY <1>5, <1>6, <1>7 DEF Local

\* Every step keeps what the invariant says of each session.
LEMMA NextLocal ==
    ASSUME TypeOK, TypeOK', [Next]_vars, \A s \in Sessions : Local(s)
    PROVE  \A s \in Sessions : Local(s)'
<1>1. CASE UNCHANGED vars
  <2> TAKE s \in Sessions
  <2>1. Local(s)
    OBVIOUS
  <2>2. /\ toDevice' = toDevice /\ fromDevice' = fromDevice /\ sending' = sending
        /\ made' = made /\ executed' = executed /\ pc' = pc /\ request' = request
        /\ response' = response /\ result' = result /\ alive' = alive
    BY <1>1 DEF vars, calling, device, link, pipes
  <2>3. Quiet(s)
    BY <2>2, ExchangeAssumption DEF Quiet, TypeOK, Tags
  <2>4. Ordered(s)' /\ Answered(s)'
    BY <2>1, <2>3, QuietOrdered, QuietAnswered DEF Local
  <2> QED
    BY <2>1, <2>2, <2>4 DEF Local, Drained
<1>2. ASSUME NEW s \in Sessions, Call(s) \/ Step(s) \/ Environment(s), NEW r \in Sessions
      PROVE  Local(r)'
  <2>1. CASE r # s
    <3>1. Local(r) /\ Quiet(r) /\ pc'[r] = pc[r] /\ request'[r] = request[r] /\ result'[r] = result[r]
      BY <1>2, <2>1, OthersQuiet
    <3>2. Ordered(r)' /\ Answered(r)'
      BY <3>1, QuietOrdered, QuietAnswered DEF Local
    <3> QED
      BY <3>1, <3>2 DEF Local, Drained, Quiet
  <2>2. CASE r = s
    <3>1. Local(s)
      OBVIOUS
    <3>2. CASE QuietStep(s)
      <4>1. Quiet(s)
        BY <3>2, OwnQuiet
      <4> QED
        BY <2>2, <3>1, <3>2, <4>1, QuietOrdered, QuietAnswered, QuietDrained DEF Local
    <3>3. CASE CallStamp(s)
      BY <2>2, <3>1, <3>3, StampLocal
    <3>4. CASE WriteSent(s) \/ WriteTimeout(s)
      BY <2>2, <3>1, <3>4, SendLocal
    <3>5. CASE HeaderRead(s)
      BY <2>2, <3>1, <3>5, HeaderLocal
    <3>6. CASE PayloadRead(s)
      BY <2>2, <3>1, <3>6, PayloadLocal
    <3>7. CASE DeviceAnswer(s)
      BY <2>2, <3>1, <3>7, AnswerLocal
    <3>8. CASE DevicePayload(s)
      BY <2>2, <3>1, <3>8, DevicePayloadLocal
    <3>9. CASE Unplug(s)
      BY <2>2, <3>1, <3>9, UnplugLocal
    <3> QED
      BY <1>2, <3>2, <3>3, <3>4, <3>5, <3>6, <3>7, <3>8, <3>9
      DEF Call, Step, WriteStep, HeaderStep, PayloadStep, Environment, QuietStep
  <2> QED
    BY <2>1, <2>2
<1> QED
  BY <1>1, <1>2 DEF Next

\* The initial state has it.
LEMMA InitLocal == Init => \A s \in Sessions : Local(s)
<1> SUFFICES ASSUME Init, NEW s \in Sessions PROVE Local(s)
  OBVIOUS
<1>1. /\ toDevice[s] = <<>> /\ fromDevice[s] = <<>> /\ sending[s] = 0 /\ pc[s] = "idle"
      /\ request[s] = NoRequest /\ result[s] = Failed(s) /\ made = 0
  BY DEF Init
<1>2. request[s].tag = 0 /\ Bound(s) = 0
  BY <1>1 DEF NoRequest, Bound, Unwritten
<1>3. QueueInv(toDevice[s], fromDevice[s], sending[s], Bound(s))
  BY <1>1, <1>2, QueueEmpty
<1>4. Ordered(s)
  BY <1>1, <1>2, <1>3 DEF Ordered, PayloadAwaited
<1>5. Answered(s)
  BY <1>1 DEF Answered, Faithful
<1>6. Drained(s)
  BY <1>1 DEF Drained, Failed
<1> QED
  BY <1>4, <1>5, <1>6 DEF Local

\* The invariant of the sessions holds in every state.
LEMMA LocalCorrect == Spec => [](TypeOK /\ \A s \in Sessions : Local(s))
<1> DEFINE Inv == TypeOK /\ \A s \in Sessions : Local(s)
<1>1. Init => Inv
  BY InitTypes, InitLocal
<1>2. Inv /\ [Next]_vars => Inv'
  BY NextTypes, NextLocal
<1> QED
  BY <1>1, <1>2, PTL DEF Spec

\* CleanAfterOk holds in every state: after a success of its own a session's pipes hold
\* nothing that the next call could stumble over (send_command, sensact.c:344).
THEOREM CleanCorrect == Spec => []CleanAfterOk
<1>1. TypeOK /\ (\A s \in Sessions : Local(s)) => CleanAfterOk
  <2> SUFFICES ASSUME TypeOK, NEW s \in Sessions, Local(s), pc[s] = "idle",
                      result[s].status = "SA_OK", result[s].header.tag = result[s].tag,
                      result[s].value # Garbage
               PROVE  \A i \in DOMAIN fromDevice[s] : fromDevice[s][i].tag # result[s].tag
    BY DEF CleanAfterOk
  <2>1. fromDevice[s] = <<>>
    BY DEF Local, Drained
  <2> QED
    BY <2>1
<1> QED
  BY <1>1, LocalCorrect, PTL

-----------------------------------------------------------------------------
(***************************************************************************)
(* What calls return.                                                      *)
(***************************************************************************)

\* The call of session r succeeds with a header alone, or with a header and a payload.
HeaderSuccess(r) ==
    LET h == Head(fromDevice[r])
    IN  /\ pc[r] = "header" /\ r \in connected' /\ fromDevice[r] # <<>>
        /\ h.type = "header" /\ h.id = request[r].expected /\ ~h.data
        /\ result'[r] = Succeeded(r, h, Untouched)

PayloadSuccess(r) ==
    /\ pc[r] = "payload" /\ r \in connected' /\ response[r].code = "RSP_OK"
    /\ \E v \in {response[r].tag, Garbage, Untouched} :
          result'[r] = Succeeded(r, response[r], v)

\* Histories only grow.
LEMMA HistoryGrows ==
    ASSUME TypeOK, NEW s \in Sessions, Call(s) \/ Step(s) \/ Environment(s)
    PROVE  executed \subseteq executed' /\ (raced => raced')
<1> USE DEF calling, device, link, pipes
<1>1. CASE Call(s)
  <2>1. CASE CallRefused(s)
    BY <2>1 DEF CallRefused
  <2>2. CASE CallStamp(s)
    <3>1. executed' = executed
      BY <2>2 DEF CallStamp
    <3>2. raced => raced'
      BY <2>2, Zenon DEF CallStamp
    <3> QED
      BY <3>1, <3>2
  <2> QED
    BY <1>1, <2>1, <2>2 DEF Call
<1>2. CASE CreateStep(s)
  BY <1>2 DEF CreateStep, CallExpect, CallLoad, CallStore
<1>3. CASE WriteStep(s)
  BY <1>3 DEF WriteStep, WriteSent, WriteTimeout, WriteReconnected, WriteLost
<1>4. CASE HeaderStep(s)
  BY <1>4 DEF HeaderStep, HeaderRead, HeaderTimeout, HeaderLost
<1>5. CASE PayloadStep(s)
  BY <1>5 DEF PayloadStep, PayloadRead, PayloadTimeout, PayloadReconnected, PayloadLost
<1>6. CASE Environment(s)
  BY <1>6 DEF Environment, DeviceAnswer, DevicePayload, Unplug, Fault, Plug
<1> QED
  BY <1>1, <1>2, <1>3, <1>4, <1>5, <1>6 DEF Step

\* A call goes on, fails, or succeeds in one of the two ways.
LEMMA Outcomes ==
    ASSUME TypeOK, NEW s \in Sessions, NEW r \in Sessions, Local(r),
           Call(s) \/ Step(s) \/ Environment(s)
    PROVE  \/ result'[r] = result[r] /\ (pc'[r] = "idle" => pc[r] = "idle")
           \/ result'[r].status = "SA_ERROR"
           \/ HeaderSuccess(r)
           \/ PayloadSuccess(r)
<1> USE DEF TypeOK, calling, device, link, pipes, Return, Goto
<1>1. CASE r # s
  BY <1>1, OthersQuiet
<1>2. Failed(r).status = "SA_ERROR"
  BY DEF Failed
<1>3. CASE r = s /\ (Call(s) \/ CreateStep(s))
  BY <1>2, <1>3 DEF Call, CallRefused, CallStamp, CreateStep, CallExpect, CallLoad, CallStore
<1>4. CASE r = s /\ WriteStep(s)
  BY <1>2, <1>4 DEF WriteStep, WriteSent, WriteTimeout, WriteReconnected, WriteLost
<1>5. CASE r = s /\ (HeaderTimeout(s) \/ HeaderLost(s))
  BY <1>2, <1>5 DEF HeaderTimeout, HeaderLost
<1>6. CASE r = s /\ HeaderRead(s)
  BY <1>2, <1>6 DEF HeaderRead, HeaderSuccess, CanTransfer, Verified, HasPayload
<1>7. CASE r = s /\ (PayloadTimeout(s) \/ PayloadLost(s))
  BY <1>2, <1>7 DEF PayloadTimeout, PayloadLost
<1>8. ASSUME r = s, pc[s] = "payload", s \in connected', NEW v \in {response[s].tag, Garbage},
             result'[s] = Outcome(s, v)
      PROVE  result'[r].status = "SA_ERROR" \/ PayloadSuccess(r)
  <2>1. CASE response[s].code # "RSP_OK"
    BY <1>2, <1>8, <2>1 DEF Outcome
  <2>2. CASE response[s].code = "RSP_OK"
    BY <1>8, <2>2 DEF Outcome, PayloadSuccess
  <2> QED
    BY <2>1, <2>2
<1>9. CASE r = s /\ PayloadRead(s)
  <2>1. /\ s \in connected' /\ s \in alive /\ fromDevice[s] # <<>> /\ pc[s] = "payload"
        /\ result'[s] = Outcome(s, Head(fromDevice[s]).tag)
    BY <1>9 DEF PayloadRead, CanTransfer
  <2>2. fromDevice[s] \in Seq(Answerable)
    BY LocalTypes
  <2>3. Head(fromDevice[s]) = fromDevice[s][1]
    BY <2>1, <2>2, TailFacts
  <2>4. Head(fromDevice[s]).tag = response[s].tag
    BY <1>9, <2>1, <2>3 DEF Local, Ordered, PayloadAwaited
  <2> QED
    BY <1>8, <1>9, <2>1, <2>4
<1>10. CASE r = s /\ PayloadReconnected(s)
  <2>1. pc[s] = "payload" /\ s \in connected'
    BY <1>10 DEF PayloadReconnected, Reconnected
  <2>2. result'[s] = Failed(s) \/ result'[s] = Outcome(s, Garbage)
    BY <1>10 DEF PayloadReconnected
  <2> QED
    BY <1>2, <1>8, <1>10, <2>1, <2>2
<1>11. CASE r = s /\ Environment(s)
  BY <1>11 DEF Environment, DeviceAnswer, DevicePayload, Unplug, Fault, Plug
<1> QED
  BY <1>1, <1>3, <1>4, <1>5, <1>6, <1>7, <1>9, <1>10, <1>11
  DEF Step, HeaderStep, PayloadStep

\* LossIsReported holds for every step: a call that leaves its session without a link, for
\* the reconnect failed (usb.c:184), does not return SA_OK.
THEOREM LossCorrect == Spec => LossIsReported
<1>1. ASSUME TypeOK, \A s \in Sessions : Local(s), [Next]_vars,
             NEW r \in Sessions, pc[r] # "idle", pc'[r] = "idle", r \notin connected'
      PROVE  result'[r].status = "SA_ERROR"
  <2>1. CASE UNCHANGED vars
    BY <1>1, <2>1 DEF vars
  <2>2. ASSUME NEW s \in Sessions, Call(s) \/ Step(s) \/ Environment(s)
        PROVE  result'[r].status = "SA_ERROR"
    BY <1>1, <2>2, Outcomes DEF HeaderSuccess, PayloadSuccess
  <2> QED
    BY <1>1, <2>1, <2>2 DEF Next
<1>2. TypeOK /\ (\A s \in Sessions : Local(s)) /\ [Next]_vars =>
        [\A s \in Sessions :
            pc[s] # "idle" /\ pc'[s] = "idle" /\ s \notin connected' =>
                result'[s].status = "SA_ERROR"]_vars
  BY <1>1
<1> QED
  BY <1>2, LocalCorrect, PTL DEF Spec, LossIsReported

\* The header that a successful call accepted tells the truth about the request that it
\* answers, which need not be the call's own.
AcceptedTruthful ==
    \A s \in Sessions :
        LET header == result[s].header
        IN  result[s].status = "SA_OK" =>
                \/ header.code = "RSP_OK" /\ header.tag \in executed
                \/ header.code = "RSP_ERROR" /\ ~header.data

\* AcceptedTruthful holds in every state.
LEMMA AcceptedCorrect == Spec => []AcceptedTruthful
<1>1. Init => AcceptedTruthful
  BY DEF Init, AcceptedTruthful, Failed
<1>2. ASSUME TypeOK, \A s \in Sessions : Local(s), AcceptedTruthful, [Next]_vars
      PROVE  AcceptedTruthful'
  <2>1. CASE UNCHANGED vars
    BY <1>2, <2>1 DEF vars, device, AcceptedTruthful
  <2>2. ASSUME NEW s \in Sessions, Call(s) \/ Step(s) \/ Environment(s), NEW r \in Sessions,
               result'[r].status = "SA_OK"
        PROVE  LET header == result'[r].header
               IN  \/ header.code = "RSP_OK" /\ header.tag \in executed'
                   \/ header.code = "RSP_ERROR" /\ ~header.data
    <3>1. executed \subseteq executed' /\ Local(r)
      BY <1>2, <2>2, HistoryGrows
    <3>2. CASE result'[r] = result[r]
      BY <1>2, <2>2, <3>1, <3>2 DEF AcceptedTruthful
    <3>3. CASE HeaderSuccess(r)
      <4> DEFINE h == Head(fromDevice[r])
      <4>1. fromDevice[r] # <<>> /\ h.type = "header" /\ ~h.data /\ result'[r].header = h
        BY <3>3 DEF HeaderSuccess, Succeeded
      <4>2. fromDevice[r] \in Seq(Answerable)
        BY <1>2, LocalTypes
      <4>3. h = fromDevice[r][1] /\ 1 \in 1 .. Len(fromDevice[r]) /\ h \in Answerable
        BY <4>1, <4>2, TailFacts
      <4>4. Truthful(h, request[r])
        BY <3>1, <4>1, <4>3 DEF Local, Answered, Faithful
      <4>5. h.code \in Codes
        BY <4>1, <4>3 DEF Answerable, Headers, Payloads
      <4> QED
        BY <3>1, <4>1, <4>4, <4>5 DEF Truthful, Codes
    <3>4. CASE PayloadSuccess(r)
      <4>1. result'[r].header = response[r] /\ response[r].code = "RSP_OK" /\ pc[r] = "payload"
        BY <3>4 DEF PayloadSuccess, Succeeded
      <4> QED
        BY <3>1, <4>1 DEF Local, Answered, Truthful
    <3> QED
      BY <1>2, <2>2, <3>1, <3>2, <3>3, <3>4, Outcomes
  <2> QED
    BY <1>2, <2>1, <2>2 DEF Next, AcceptedTruthful
<1> QED
  BY <1>1, <1>2, LocalCorrect, PTL DEF Spec

-----------------------------------------------------------------------------
(***************************************************************************)
(* The ids.                                                                *)
(***************************************************************************)

\* The steps that have nothing to do with the ids in the counter.
LEMMA CounterKept ==
    ASSUME TypeOK, NEW s \in Sessions, CounterInv,
           CallRefused(s) \/ WriteStep(s) \/ HeaderStep(s) \/ PayloadStep(s) \/ Environment(s)
    PROVE  CounterInv'
<1> USE DEF TypeOK, calling, device, link, pipes, Return, Goto
<1>1. /\ counter' = counter /\ made' = made /\ loaded' = loaded /\ request' = request
      /\ pc'[s] \notin {"expect", "load", "store"} \/ pc'[s] = pc[s]
      /\ pc[s] \in {"expect", "load", "store"} => pc'[s] = pc[s]
      /\ \A r \in Sessions : r # s => pc'[r] = pc[r]
  <2>1. CASE CallRefused(s)
    BY <2>1 DEF CallRefused
  <2>2. CASE WriteStep(s)
    BY <2>2 DEF WriteStep, WriteSent, WriteTimeout, WriteReconnected, WriteLost
  <2>3. CASE HeaderStep(s)
    BY <2>3 DEF HeaderStep, HeaderRead, HeaderTimeout, HeaderLost
  <2>4. CASE PayloadStep(s)
    BY <2>4 DEF PayloadStep, PayloadRead, PayloadTimeout, PayloadReconnected, PayloadLost
  <2>5. CASE Environment(s)
    BY <2>5 DEF Environment, DeviceAnswer, DevicePayload, Unplug, Fault, Plug
  <2> QED
    BY <2>1, <2>2, <2>3, <2>4, <2>5
<1>2. Creating' = Creating
  BY <1>1 DEF Creating
<1>3. \A r \in Creating : pc'[r] = pc[r]
  BY <1>1 DEF Creating
<1> QED
  BY <1>1, <1>2, <1>3 DEF CounterInv, IdOf

\* The steps of create_request_packet.
LEMMA CounterTaken ==
    ASSUME TypeOK, NEW s \in Sessions, Local(s), CounterInv, ~raced',
           CallStamp(s) \/ CreateStep(s)
    PROVE  CounterInv'
<1> USE DEF TypeOK, Goto
<1>1. CASE CallStamp(s)
  <2>4. Creating = {}
    BY <1>1, Zenon DEF CallStamp
  <2>5. /\ counter' = counter /\ made' = made + 1
        /\ request'[s].tag = made + 1 /\ pc' = [pc EXCEPT ![s] = "expect"]
    BY <1>1 DEF CallStamp
  <2>1. /\ Creating = {} /\ counter' = counter /\ made' = made + 1
        /\ request'[s].tag = made + 1 /\ pc' = [pc EXCEPT ![s] = "expect"]
    BY <2>4, <2>5
  <2>2. Creating' = {s} /\ pc'[s] = "expect"
    BY <2>1 DEF Creating
  <2>3. counter = made % IdMod /\ made + 1 - 1 = made
    BY <2>1, LocalTypes DEF CounterInv
  <2>6. counter' = IdOf(made')
    <3>1. made' - 1 = made
      <4>1. made \in Nat
        BY LocalTypes
      <4> QED
        BY <2>1, <4>1
    <3> QED
      BY <2>1, <2>3, <3>1, Zenon DEF IdOf
  <2>7. counter' = IdOf(made)'
    BY <2>6 DEF IdOf
  <2> QED
    BY <2>1, <2>2, <2>7 DEF CounterInv
<1>2. CASE CallExpect(s) \/ CallLoad(s)
  <2>3. Creating' = Creating
    BY <1>2 DEF CallExpect, CallLoad, Creating
  <2>1. /\ s \in Creating /\ Creating' = Creating
        /\ counter' = counter /\ made' = made /\ request'[s].tag = request[s].tag
        /\ pc'[s] \in {"load", "store"} /\ (pc'[s] = "store" => loaded'[s] = counter)
    <3>1. CASE CallExpect(s)
      <4>1. request'[s].tag = request[s].tag
        BY <3>1 DEF CallExpect, Requests
      <4> QED
        BY <2>3, <3>1, <4>1 DEF CallExpect, Creating
    <3>2. CASE CallLoad(s)
      BY <2>3, <3>2 DEF CallLoad, Creating
    <3> QED
      BY <1>2, <3>1, <3>2
  <2>2. Creating = {s}
    BY <2>1 DEF CounterInv
  <2> QED
    BY <2>1, <2>2 DEF CounterInv, IdOf
<1>3. CASE CallStore(s)
  <2>1. /\ s \in Creating /\ pc[s] = "store" /\ counter' = Increment(loaded[s]) /\ made' = made
        /\ pc' = [pc EXCEPT ![s] = "write"]
    BY <1>3 DEF CallStore, Creating
  <2>2. Creating = {s}
    BY <2>1 DEF CounterInv
  <2>3. Creating' = {}
    BY <2>1, <2>2 DEF Creating
  <2>4. loaded[s] = IdOf(made) /\ request[s].tag = made
    BY <2>1 DEF CounterInv
  <2>5. made \in Nat \ {0}
    BY <2>1, <2>4, LocalTypes DEF Local, Ordered
  <2>6. counter' = made % IdMod
    BY <2>1, <2>4, <2>5, IncrementIdOf
  <2> QED
    BY <2>1, <2>3, <2>6 DEF CounterInv
<1> QED
  BY <1>1, <1>2, <1>3 DEF CreateStep

\* The ids in quiet pipes.
LEMMA QuietCarried ==
    ASSUME NEW r \in Sessions, Quiet(r), Carried(r), request'[r] = request[r],
           pc'[r] \in {"load", "store", "write", "header", "payload"} =>
              pc[r] \in {"load", "store", "write", "header", "payload"}
    PROVE  Carried(r)'
  BY DEF Quiet, Carried, IdsCarried, IdOf, Match

\* A step of session s keeps the ids that it carries.
LEMMA OwnCarried ==
    ASSUME TypeOK, TypeOK', NEW s \in Sessions, Local(s), CounterInv, Carried(s), ~raced',
           Call(s) \/ Step(s) \/ Environment(s)
    PROVE  Carried(s)'
<1> DEFINE q == toDevice[s]
           p == fromDevice[s]
           r == request[s]
<1>1. /\ q \in Seq(Requests) /\ p \in Seq(Answerable) /\ sending[s] \in Tags
      /\ r \in Requests /\ r.tag \in Nat /\ made \in Nat
  BY LocalTypes
<1>2. IdsCarried(q, p)
  BY DEF Carried
<1>3. CASE CallStamp(s)
  <2>1. Creating = {}
    BY <1>3, Zenon DEF CallStamp
  <2>3. /\ request'[s].tag = made + 1 /\ request'[s].id = counter
        /\ pc'[s] = "expect" /\ toDevice' = toDevice /\ fromDevice' = fromDevice
    BY <1>3 DEF TypeOK, CallStamp, Goto, pipes
  <2>2. counter = IdOf(made + 1)
    <3>1. counter = made % IdMod
      BY <2>1 DEF CounterInv
    <3>2. (made + 1) - 1 = made
      BY <1>1
    <3>3. IdOf(made + 1) = ((made + 1) - 1) % IdMod
      BY Zenon DEF IdOf
    <3> HIDE DEF IdOf
    <3> QED
      BY <3>1, <3>2, <3>3
  <2> QED
    BY <1>2, <2>2, <2>3 DEF Carried, IdsCarried, IdOf
<1>4. CASE CallExpect(s)
  <2>1. /\ s \in Creating /\ request'[s].tag = r.tag /\ request'[s].id = r.id
        /\ request'[s].expected = counter /\ pc[s] = "expect" /\ pc'[s] = "load"
        /\ toDevice' = toDevice /\ fromDevice' = fromDevice
    BY <1>4 DEF TypeOK, CallExpect, Goto, pipes, Creating, Requests
  <2>2. counter = IdOf(r.tag) /\ 0 < r.tag
    BY <2>1 DEF CounterInv, Local, Ordered
  <2> QED
    BY <1>2, <2>1, <2>2 DEF Carried, IdsCarried, IdOf
<1>5. CASE WriteSent(s) \/ WriteTimeout(s)
  <2>1. /\ pc[s] = "write" /\ pc'[s] \in {"idle", "header"} /\ request' = request
        /\ fromDevice' = fromDevice /\ (toDevice'[s] = q \/ toDevice'[s] = Append(q, r))
    BY <1>5 DEF TypeOK, WriteSent, WriteTimeout, Return, Goto, calling
  <2>2. /\ Len(q) \in Nat /\ Len(Append(q, r)) = Len(q) + 1 /\ Append(q, r)[Len(q) + 1] = r
        /\ \A i \in 1 .. Len(q) : Append(q, r)[i] = q[i]
    BY <1>1, AppendFacts
  <2>3. r.id = IdOf(r.tag)
    BY <2>1 DEF Carried, Local, Ordered
  <2>4. \A i \in 1 .. Len(Append(q, r)) : Append(q, r)[i].id = IdOf(Append(q, r)[i].tag)
    <3> TAKE i \in 1 .. Len(Append(q, r))
    <3>1. i \in 1 .. Len(q) \/ i = Len(q) + 1
      BY <2>2
    <3> QED
      BY <1>2, <2>2, <2>3, <3>1 DEF IdsCarried
  <2>5. IdsCarried(toDevice'[s], p)
    BY <1>2, <2>1, <2>4 DEF IdsCarried
  <2> QED
    BY <2>1, <2>5 DEF Carried, IdsCarried, IdOf
<1>6. ASSUME p # <<>>, toDevice' = toDevice, fromDevice'[s] = Tail(p)
      PROVE  IdsCarried(toDevice[s], fromDevice[s])'
  <2>1. /\ Len(p) \in Nat \ {0} /\ Len(Tail(p)) = Len(p) - 1
        /\ \A k \in 1 .. Len(p) - 1 : Tail(p)[k] = p[k + 1]
    BY <1>1, <1>6, TailFacts
  <2>2. ASSUME NEW k \in 1 .. Len(Tail(p)), Tail(p)[k].type = "header"
        PROVE  Tail(p)[k].id = IdOf(Tail(p)[k].tag)
    <3>1. k + 1 \in 1 .. Len(p) /\ Tail(p)[k] = p[k + 1]
      BY <2>1
    <3> QED
      BY <1>2, <2>2, <3>1 DEF IdsCarried
  <2> QED
    BY <1>2, <1>6, <2>2 DEF IdsCarried, IdOf
<1>7. CASE HeaderRead(s)
  <2> DEFINE m == Head(p)
  <2>1. /\ pc[s] = "header" /\ p # <<>> /\ fromDevice'[s] = Tail(p) /\ toDevice' = toDevice
        /\ request' = request
        /\ \/ pc'[s] = "idle"
           \/ /\ pc'[s] = "payload" /\ m.type = "header" /\ m.id = r.expected
              /\ response'[s] = m
    BY <1>7 DEF TypeOK, HeaderRead, Verified, Return, Goto, calling
  <2>2. m = p[1] /\ 1 \in 1 .. Len(p)
    BY <1>1, <2>1, TailFacts
  <2>3. m.tag \in Nat \ {0} /\ m.tag <= r.tag
    <3>1. Bound(s) = r.tag
      BY <2>1 DEF Bound, Unwritten
    <3> QED
      BY <2>2, <3>1, TagBounds DEF Local
  <2>4. ASSUME pc'[s] = "payload" PROVE m.tag = r.tag \/ r.tag - m.tag >= IdMod
    <3>1. m.id = IdOf(m.tag)
      BY <1>2, <2>1, <2>2, <2>4 DEF IdsCarried
    <3>2. m.id = IdOf(r.tag) /\ r.tag \in Nat \ {0}
      BY <1>1, <2>1, <2>4 DEF Carried, Local, Ordered
    <3> QED
      BY <2>3, <3>1, <3>2, SameIds
  <2> QED
    BY <1>6, <2>1, <2>4 DEF Carried, Match, IdOf
<1>8. CASE PayloadRead(s)
  <2>1. /\ p # <<>> /\ fromDevice'[s] = Tail(p) /\ toDevice' = toDevice /\ request' = request
        /\ pc'[s] = "idle"
    BY <1>8 DEF TypeOK, PayloadRead, Return, Goto, calling
  <2> QED
    BY <1>6, <2>1 DEF Carried, IdOf
<1>9. CASE DeviceAnswer(s)
  <2>1. PICK h \in Answers(Head(q)) : fromDevice' = [fromDevice EXCEPT ![s] = Append(@, h)]
    BY <1>9 DEF DeviceAnswer
  <2>2. /\ q # <<>> /\ toDevice'[s] = Tail(q) /\ fromDevice'[s] = Append(p, h)
        /\ pc' = pc /\ request' = request /\ response' = response
    BY <1>9, <2>1 DEF TypeOK, DeviceAnswer, calling
  <2>3. /\ Len(q) \in Nat \ {0} /\ Len(Tail(q)) = Len(q) - 1
        /\ Head(q) = q[1] /\ q[1] \in Requests /\ \A i \in 1 .. Len(q) - 1 : Tail(q)[i] = q[i + 1]
    BY <1>1, <2>2, TailFacts
  <2>4. h \in Answerable /\ h.tag = q[1].tag /\ h.id = q[1].id
    BY <2>3, AnswerTypes DEF Answerable
  <2>5. /\ Len(p) \in Nat /\ Len(Append(p, h)) = Len(p) + 1 /\ Append(p, h)[Len(p) + 1] = h
        /\ \A k \in 1 .. Len(p) : Append(p, h)[k] = p[k]
    BY <1>1, <2>4, AppendFacts
  <2>6. h.id = IdOf(h.tag)
    <3>1. 1 \in 1 .. Len(q)
      BY <2>3
    <3> QED
      BY <1>2, <2>4, <3>1 DEF IdsCarried
  <2>7. \A i \in 1 .. Len(Tail(q)) : Tail(q)[i].id = IdOf(Tail(q)[i].tag)
    <3> TAKE i \in 1 .. Len(Tail(q))
    <3>1. i + 1 \in 1 .. Len(q) /\ Tail(q)[i] = q[i + 1]
      BY <2>3
    <3> QED
      BY <1>2, <3>1 DEF IdsCarried
  <2>8. \A k \in 1 .. Len(Append(p, h)) :
            Append(p, h)[k].type = "header" => Append(p, h)[k].id = IdOf(Append(p, h)[k].tag)
    <3> TAKE k \in 1 .. Len(Append(p, h))
    <3>1. k \in 1 .. Len(p) \/ k = Len(p) + 1
      BY <2>5
    <3> QED
      BY <1>2, <2>5, <2>6, <3>1 DEF IdsCarried
  <2>9. IdsCarried(toDevice[s], fromDevice[s])'
    BY <2>2, <2>7, <2>8 DEF IdsCarried, IdOf
  <2> QED
    BY <2>2, <2>9 DEF Carried, Match, IdOf
<1>10. CASE DevicePayload(s)
  <2> DEFINE y == [type |-> "payload", tag |-> sending[s]]
  <2>1. /\ fromDevice'[s] = Append(p, y) /\ toDevice' = toDevice
        /\ pc' = pc /\ request' = request /\ response' = response
    BY <1>10 DEF TypeOK, DevicePayload, calling
  <2>2. y \in Answerable /\ y.type # "header"
    BY <1>1 DEF Answerable, Payloads
  <2>3. /\ Len(p) \in Nat /\ Len(Append(p, y)) = Len(p) + 1 /\ Append(p, y)[Len(p) + 1] = y
        /\ \A k \in 1 .. Len(p) : Append(p, y)[k] = p[k]
    BY <1>1, <2>2, AppendFacts
  <2>4. \A k \in 1 .. Len(Append(p, y)) :
            Append(p, y)[k].type = "header" => Append(p, y)[k].id = IdOf(Append(p, y)[k].tag)
    <3> TAKE k \in 1 .. Len(Append(p, y))
    <3>1. k \in 1 .. Len(p) \/ k = Len(p) + 1
      BY <2>3
    <3> QED
      BY <1>2, <2>2, <2>3, <3>1 DEF IdsCarried
  <2>5. IdsCarried(toDevice[s], fromDevice[s])'
    BY <1>2, <2>1, <2>4 DEF IdsCarried, IdOf
  <2> QED
    BY <2>1, <2>5 DEF Carried, Match, IdOf
<1>11. CASE Unplug(s)
  <2>1. /\ toDevice'[s] = <<>> /\ fromDevice'[s] = <<>>
        /\ pc' = pc /\ request' = request /\ response' = response
    BY <1>11 DEF TypeOK, Unplug, calling
  <2> QED
    BY <2>1 DEF Carried, IdsCarried, Match, IdOf
<1>12. CASE QuietStep(s) /\ ~CallExpect(s)
  <2>1. Quiet(s)
    BY <1>12, OwnQuiet
  <2>2. /\ request' = request
        /\ pc'[s] \in {"load", "store", "write", "header", "payload"} =>
              pc[s] \in {"load", "store", "write", "header", "payload"}
    BY <1>12 DEF QuietStep, TypeOK, calling, Return, Goto, CallRefused, CreateStep, CallLoad,
      CallStore, WriteReconnected, WriteLost, HeaderTimeout, HeaderLost, PayloadTimeout,
      PayloadReconnected, PayloadLost, Fault, Plug
  <2> QED
    BY <2>1, <2>2, QuietCarried
<1> QED
  BY <1>3, <1>4, <1>5, <1>7, <1>8, <1>9, <1>10, <1>11, <1>12
  DEF Call, Step, WriteStep, HeaderStep, PayloadStep, Environment, QuietStep

\* Every step keeps the ids in order.
LEMMA NextIds ==
    ASSUME TypeOK, TypeOK', \A s \in Sessions : Local(s), IdInv, [Next]_vars
    PROVE  IdInv'
<1> SUFFICES ASSUME ~raced' PROVE CounterInv' /\ \A r \in Sessions : Carried(r)'
  BY DEF IdInv
<1>1. CASE UNCHANGED vars
  BY <1>1 DEF IdInv, CounterInv, Carried, Creating, IdsCarried, IdOf, Match, vars, calling, pipes
<1>2. ASSUME NEW s \in Sessions, Call(s) \/ Step(s) \/ Environment(s)
      PROVE  CounterInv' /\ \A r \in Sessions : Carried(r)'
  <2>1. CounterInv /\ \A r \in Sessions : Carried(r)
    BY <1>2, HistoryGrows DEF IdInv
  <2>2. CounterInv'
    BY <1>2, <2>1, CounterKept, CounterTaken DEF Call, Step
  <2>3. ASSUME NEW r \in Sessions PROVE Carried(r)'
    <3>1. CASE r = s
      BY <1>2, <2>1, <3>1, OwnCarried
    <3>2. CASE r # s
      BY <1>2, <2>1, <3>2, OthersQuiet, QuietCarried
    <3> QED
      BY <3>1, <3>2
  <2> QED
    BY <2>2, <2>3
<1> QED
  BY <1>1, <1>2 DEF Next

\* The initial ids.
LEMMA InitIds == Init => IdInv
<1> SUFFICES ASSUME Init PROVE CounterInv /\ \A s \in Sessions : Carried(s)
  BY DEF IdInv
<1>1. Creating = {} /\ counter = 0 /\ made = 0
  BY DEF Init, Creating
<1>2. 0 % IdMod = 0
  <2>1. 0 \in 0 .. IdMod - 1 /\ 0 = IdMod * 0 + 0
    BY ExchangeAssumption
  <2> QED
    BY <2>1, ExchangeAssumption, Remainder
<1>3. CounterInv
  BY <1>1, <1>2 DEF CounterInv
<1>4. \A s \in Sessions : Carried(s)
  <2> TAKE s \in Sessions
  <2>1. /\ request[s].tag = 0 /\ pc[s] = "idle"
        /\ toDevice[s] = <<>> /\ fromDevice[s] = <<>>
    BY DEF Init, NoRequest
  <2> QED
    BY <2>1 DEF Carried, IdsCarried
<1> QED
  BY <1>3, <1>4

\* The invariant of the ids holds in every state.
LEMMA IdsCorrect == Spec => [](TypeOK /\ (\A s \in Sessions : Local(s)) /\ IdInv)
<1> DEFINE Inv == TypeOK /\ (\A s \in Sessions : Local(s)) /\ IdInv
<1>1. Init => Inv
  BY InitTypes, InitLocal, InitIds
<1>2. Inv /\ [Next]_vars => Inv'
  BY NextTypes, NextLocal, NextIds
<1> QED
  BY <1>1, <1>2, PTL DEF Spec

\* ExpectsIdSent holds in every state: send_command waits for the id that is in its
\* packet unless two callers took ids at a time (packet.c:97).
THEOREM ExpectsCorrect == Spec => []ExpectsIdSent
<1>1. IdInv => ExpectsIdSent
  BY DEF IdInv, Carried, ExpectsIdSent
<1> QED
  BY <1>1, IdsCorrect, PTL

\* StaleOnlyAfterWrap holds in every state: an answer is taken for another request's only
\* after all ids were used in between (packet.c:125), and the value is its payload.
THEOREM StaleCorrect == Spec => []StaleOnlyAfterWrap
<1>1. Init => StaleOnlyAfterWrap
  BY DEF Init, StaleOnlyAfterWrap, Failed
<1>2. ASSUME TypeOK, \A s \in Sessions : Local(s), IdInv, StaleOnlyAfterWrap, [Next]_vars
      PROVE  StaleOnlyAfterWrap'
  <2>1. CASE UNCHANGED vars
    BY <1>2, <2>1 DEF vars, calling, StaleOnlyAfterWrap
  <2>2. ASSUME NEW s \in Sessions, Call(s) \/ Step(s) \/ Environment(s), NEW r \in Sessions,
               result'[r].status = "SA_OK"
        PROVE  /\ \/ result'[r].header.tag = result'[r].tag
                  \/ result'[r].tag - result'[r].header.tag >= IdMod
                  \/ raced'
               /\ result'[r].value \in {result'[r].header.tag, Garbage, Untouched}
    <3>1. Local(r) /\ (raced => raced')
      BY <1>2, <2>2, HistoryGrows
    <3>2. CASE result'[r] = result[r]
      BY <1>2, <2>2, <3>1, <3>2 DEF StaleOnlyAfterWrap
    <3>3. CASE HeaderSuccess(r)
      <4> DEFINE h == Head(fromDevice[r])
      <4>1. /\ fromDevice[r] # <<>> /\ h.type = "header" /\ h.id = request[r].expected
            /\ pc[r] = "header" /\ result'[r].header = h /\ result'[r].tag = request[r].tag
            /\ result'[r].value = Untouched
        BY <3>3 DEF HeaderSuccess, Succeeded
      <4>2. fromDevice[r] \in Seq(Answerable) /\ request[r].tag \in Nat
        BY <1>2, LocalTypes
      <4>3. h = fromDevice[r][1] /\ 1 \in 1 .. Len(fromDevice[r])
        BY <4>1, <4>2, TailFacts
      <4>4. Bound(r) = request[r].tag /\ request[r].tag \in Nat \ {0}
        BY <3>1, <4>1, <4>2 DEF Bound, Unwritten, Local, Ordered
      <4>5. h.tag \in Nat \ {0} /\ h.tag <= request[r].tag
        BY <1>2, <3>1, <4>3, <4>4, TagBounds DEF Local
      <4>6. ASSUME ~raced PROVE IdOf(h.tag) = IdOf(request[r].tag)
        BY <1>2, <4>1, <4>3, <4>4, <4>6 DEF IdInv, Carried, IdsCarried
      <4>7. raced \/ h.tag = request[r].tag \/ request[r].tag - h.tag >= IdMod
        BY <4>4, <4>5, <4>6, SameIds
      <4> QED
        BY <3>1, <4>1, <4>7
    <3>4. CASE PayloadSuccess(r)
      <4>1. /\ pc[r] = "payload" /\ result'[r].header = response[r]
            /\ result'[r].tag = request[r].tag
            /\ result'[r].value \in {response[r].tag, Garbage, Untouched}
        BY <3>4 DEF PayloadSuccess, Succeeded
      <4>2. raced \/ Match(r)
        BY <1>2, <4>1 DEF IdInv, Carried
      <4> QED
        BY <3>1, <4>1, <4>2 DEF Match
    <3> QED
      BY <1>2, <2>2, <3>1, <3>2, <3>3, <3>4, Outcomes
  <2> QED
    BY <1>2, <2>1, <2>2 DEF Next, StaleOnlyAfterWrap
<1> QED
  BY <1>1, <1>2, IdsCorrect, PTL DEF Spec

\* OkMeansExecuted holds in every state: the header that a call accepted is truthful, and it
\* answers the call's own request unless the ids wrapped around or two callers took ids at
\* a time.  So no timeout, late answer or reconnect in place of sending (usb.c:148) makes a
\* request that was never executed a success.
THEOREM OkCorrect == Spec => []OkMeansExecuted
<1>1. AcceptedTruthful /\ StaleOnlyAfterWrap => OkMeansExecuted
  <2> SUFFICES ASSUME AcceptedTruthful, StaleOnlyAfterWrap,
                      NEW s \in Sessions, result[s].status = "SA_OK"
               PROVE  LET header == result[s].header
                      IN  \/ result[s].tag \in executed
                          \/ header.code = "RSP_ERROR" /\ ~header.data
                          \/ result[s].tag - header.tag >= IdMod
                          \/ raced
    BY DEF OkMeansExecuted
  <2>1. CASE result[s].header.tag = result[s].tag
    BY <2>1 DEF AcceptedTruthful
  <2>2. CASE result[s].header.tag # result[s].tag
    BY <2>2 DEF StaleOnlyAfterWrap
  <2> QED
    BY <2>1, <2>2
<1> QED
  BY <1>1, AcceptedCorrect, StaleCorrect, PTL

-----------------------------------------------------------------------------
(***************************************************************************)
(* No request is executed twice.  A transfer that timed out or met a lost  *)
(* link is not repeated, so a request enters the pipe of its session once, *)
(* and the tags in the pipe increase: what the device executes is neither  *)
(* behind it nor with another session.                                     *)
(***************************************************************************)
Waiting(s) == {toDevice[s][i].tag : i \in 1 .. Len(toDevice[s])}

\* The requests of a session that are still to be executed, the one included that is
\* still to be written.
Outstanding(s) == Waiting(s) \cup (IF pc[s] \in Unwritten THEN {request[s].tag} ELSE {})

OnceInv ==
    /\ \A t \in executed : t <= made
    /\ \A s \in Sessions : \A t \in Outstanding(s) : t <= made /\ t \notin executed
    /\ \A s, r \in Sessions : s # r => Outstanding(s) \cap Outstanding(r) = {}

\* A request that waits for the device was not executed before, and waits once.
AtMostOnce ==
    \A s, r \in Sessions : \A i \in 1 .. Len(toDevice[s]), j \in 1 .. Len(toDevice[r]) :
        /\ toDevice[s][i].tag \notin executed
        /\ toDevice[s][i].tag = toDevice[r][j].tag => s = r /\ i = j

\* When a session's part stays as it is or shrinks.
LEMMA OnceShrinks ==
    ASSUME TypeOK, OnceInv, made' = made, executed' = executed,
           \A s \in Sessions : Outstanding(s)' \subseteq Outstanding(s)
    PROVE  OnceInv'
<1>1. \A s, r \in Sessions : s # r => Outstanding(s)' \cap Outstanding(r)' = {}
  BY DEF OnceInv
<1>2. \A s \in Sessions : \A t \in Outstanding(s)' : t <= made /\ t \notin executed
  BY DEF OnceInv
<1>3. \A t \in executed' : t <= made'
  BY DEF OnceInv
<1> QED
  BY <1>1, <1>2, <1>3 DEF OnceInv

\* A session that is quiet adds nothing.
LEMMA QuietOutstanding ==
    ASSUME NEW r \in Sessions, Quiet(r)
    PROVE  Outstanding(r)' \subseteq Outstanding(r)
<1>1. Waiting(r)' = Waiting(r)
  BY DEF Waiting, Quiet
<1> QED
  BY <1>1 DEF Outstanding, Quiet

\* What a session writes was its own to write; what it reads changes nothing here.
LEMMA TransferOutstanding ==
    ASSUME TypeOK, NEW s \in Sessions,
           \/ WriteSent(s) \/ WriteTimeout(s) \/ HeaderRead(s) \/ PayloadRead(s)
           \/ DevicePayload(s) \/ Unplug(s)
    PROVE  /\ Outstanding(s)' \subseteq Outstanding(s)
           /\ made' = made /\ executed' = executed
<1>1. made' = made /\ executed' = executed /\ request' = request
  BY DEF WriteSent, WriteTimeout, HeaderRead, PayloadRead, DevicePayload, Unplug, calling, device
<1>2. /\ toDevice[s] \in Seq(Requests) /\ request[s] \in Requests
      /\ s \in DOMAIN toDevice /\ s \in DOMAIN pc
  BY DEF TypeOK
<1>3. ASSUME toDevice'[s] = toDevice[s] PROVE Waiting(s)' = Waiting(s)
  BY <1>3 DEF Waiting
<1>4. CASE WriteSent(s) \/ WriteTimeout(s)
  <2>1. /\ pc[s] = "write" /\ pc'[s] \in {"header", "idle"}
        /\ toDevice'[s] \in {toDevice[s], Append(toDevice[s], request[s])}
    BY <1>2, <1>4 DEF WriteSent, WriteTimeout, Return, Goto
  <2>2. Waiting(s)' \subseteq Waiting(s) \cup {request[s].tag}
    <3>1. CASE toDevice'[s] = toDevice[s]
      BY <1>3, <3>1
    <3>2. CASE toDevice'[s] = Append(toDevice[s], request[s])
      <4>1. /\ Len(toDevice'[s]) = Len(toDevice[s]) + 1 /\ Len(toDevice[s]) \in Nat
            /\ toDevice'[s][Len(toDevice[s]) + 1] = request[s]
            /\ \A i \in 1 .. Len(toDevice[s]) : toDevice'[s][i] = toDevice[s][i]
        BY <1>2, <3>2, AppendFacts
      <4>2. ASSUME NEW i \in 1 .. Len(toDevice'[s])
            PROVE  toDevice'[s][i].tag \in Waiting(s) \cup {request[s].tag}
        <5>1. CASE i = Len(toDevice[s]) + 1
          BY <4>1, <5>1
        <5>2. CASE i \in 1 .. Len(toDevice[s])
          BY <4>1, <5>2 DEF Waiting
        <5> QED
          BY <4>1, <5>1, <5>2
      <4> QED
        BY <4>2 DEF Waiting
    <3> QED
      BY <2>1, <3>1, <3>2
  <2>3. pc[s] \in Unwritten /\ pc'[s] \notin Unwritten
    BY <2>1 DEF Unwritten
  <2> QED
    BY <1>1, <2>2, <2>3 DEF Outstanding
<1>5. CASE HeaderRead(s) \/ PayloadRead(s)
  <2>1. toDevice'[s] = toDevice[s] /\ pc'[s] \notin Unwritten
    BY <1>2, <1>5 DEF HeaderRead, PayloadRead, Return, Goto, Unwritten
  <2> QED
    BY <1>1, <1>3, <2>1 DEF Outstanding
<1>6. CASE DevicePayload(s)
  <2>1. toDevice'[s] = toDevice[s] /\ pc' = pc
    BY <1>6 DEF DevicePayload
  <2> QED
    BY <1>1, <1>3, <2>1 DEF Outstanding
<1>7. CASE Unplug(s)
  <2>1. toDevice'[s] = <<>> /\ pc' = pc
    BY <1>2, <1>7 DEF Unplug
  <2>2. Waiting(s)' = {}
    <3>1. 1 .. Len(toDevice'[s]) = {}
      BY <2>1
    <3> QED
      BY <3>1 DEF Waiting
  <2> QED
    BY <1>1, <2>1, <2>2 DEF Outstanding
<1> QED
  BY <1>1, <1>4, <1>5, <1>6, <1>7

\* A new request is newer than every other.
LEMMA StampOnce ==
    ASSUME TypeOK, OnceInv, NEW s \in Sessions, CallStamp(s),
           \A r \in Sessions : r # s => Quiet(r)
    PROVE  OnceInv'
<1>1. made \in Nat /\ made' = made + 1 /\ executed' = executed /\ executed \subseteq Int
  BY ExchangeAssumption DEF CallStamp, TypeOK, Tags, device
<1>2. toDevice'[s] = toDevice[s] /\ request'[s].tag = made + 1
  BY DEF CallStamp, pipes, TypeOK
<1>3. Outstanding(s)' \subseteq Outstanding(s) \cup {made + 1}
  <2>1. Waiting(s)' = Waiting(s)
    BY <1>2 DEF Waiting
  <2> QED
    BY <1>2, <2>1 DEF Outstanding
<1>4. \A r \in Sessions : r # s => Outstanding(r)' \subseteq Outstanding(r)
  BY QuietOutstanding
<1>5. \A t \in executed : t <= made /\ t \in Int
  BY <1>1 DEF OnceInv
<1>6. made + 1 \notin executed /\ \A r \in Sessions : made + 1 \notin Outstanding(r)
  <2>1. ~(made + 1 <= made)
    BY <1>1
  <2> QED
    BY <2>1 DEF OnceInv
<1>7. ASSUME NEW r \in Sessions, NEW t \in Outstanding(r)'
      PROVE  t <= made' /\ t \notin executed
  <2>1. CASE t = made + 1
    BY <1>1, <1>6, <2>1
  <2>2. CASE t \in Outstanding(r)
    <3>1. t <= made /\ t \notin executed
      BY <2>2 DEF OnceInv
    <3>2. t \in Int
      <4>1. toDevice[r] \in Seq(Requests) /\ \A i \in 1 .. Len(toDevice[r]) : toDevice[r][i].tag \in Int
        BY LocalTypes, TagTypes
      <4>2. request[r].tag \in Int
        BY LocalTypes
      <4> QED
        BY <2>2, <4>1, <4>2 DEF Outstanding, Waiting
    <3> QED
      BY <1>1, <3>1, <3>2
  <2> QED
    BY <1>3, <1>4, <1>7, <2>1, <2>2
<1>8. \A r, q \in Sessions : r # q => Outstanding(r)' \cap Outstanding(q)' = {}
  BY <1>3, <1>4, <1>6 DEF OnceInv
<1>9. \A t \in executed' : t <= made'
  BY <1>1, <1>5
<1> QED
  BY <1>1, <1>7, <1>8, <1>9 DEF OnceInv

\* What the device executes is the first in its pipe, and nowhere else.
LEMMA AnswerOnce ==
    ASSUME TypeOK, OnceInv, NEW s \in Sessions, Local(s), DeviceAnswer(s),
           \A r \in Sessions : r # s => Quiet(r)
    PROVE  OnceInv'
<1> DEFINE q == toDevice[s]
           first == q[1].tag
<1>1. /\ q \in Seq(Requests) /\ q # <<>> /\ s \in DOMAIN toDevice
      /\ toDevice'[s] = Tail(q) /\ made' = made /\ pc' = pc /\ request' = request
  BY DEF DeviceAnswer, TypeOK, calling
<1>2. /\ Len(q) \in Nat \ {0} /\ Len(Tail(q)) = Len(q) - 1 /\ Head(q) = q[1]
      /\ \A i \in 1 .. Len(q) - 1 : Tail(q)[i] = q[i + 1]
  BY <1>1, TailFacts
<1>3. executed' \subseteq executed \cup {first}
  BY <1>2 DEF DeviceAnswer, Answers
<1>4. /\ \A i \in 1 .. Len(q) : q[i].tag \in Nat /\ first \in Nat
      /\ \A i, j \in 1 .. Len(q) : i < j => q[i].tag < q[j].tag
      /\ \A i \in 1 .. Len(q) : q[i].tag <= Bound(s)
      /\ Bound(s) \in Int /\ request[s].tag \in Nat
  BY <1>2, TagBounds, LocalTypes DEF Local, Ordered, QueueInv
<1>5. first \in Outstanding(s)
  BY <1>2 DEF Outstanding, Waiting
<1> HIDE DEF first
<1>6. Waiting(s)' \subseteq Waiting(s) \ {first}
  <2>1. ASSUME NEW i \in 1 .. Len(Tail(q))
        PROVE  Tail(q)[i].tag \in Waiting(s) /\ Tail(q)[i].tag # first
    <3>1. i + 1 \in 1 .. Len(q) /\ 1 \in 1 .. Len(q) /\ 1 < i + 1 /\ Tail(q)[i] = q[i + 1]
      BY <1>2
    <3>2. first < q[i + 1].tag
      BY <1>4, <3>1 DEF first
    <3> QED
      BY <1>4, <3>1, <3>2 DEF Waiting
  <2> QED
    BY <1>1, <2>1 DEF Waiting
<1>7. Outstanding(s)' \subseteq Outstanding(s) \ {first}
  <2>1. pc[s] \in Unwritten => request[s].tag # first
    BY <1>2, <1>4 DEF Bound, first
  <2> QED
    BY <1>1, <1>6, <2>1 DEF Outstanding
<1>8. \A r \in Sessions : r # s => Outstanding(r)' \subseteq Outstanding(r)
  BY QuietOutstanding
<1>9. \A r \in Sessions : first \notin Outstanding(r)'
  BY <1>5, <1>7, <1>8 DEF OnceInv
<1>10. \A r \in Sessions : Outstanding(r)' \subseteq Outstanding(r)
  BY <1>7, <1>8
<1>11. first <= made /\ \A t \in executed' : t <= made'
  BY <1>1, <1>3, <1>5 DEF OnceInv
<1>12. \A r \in Sessions : \A t \in Outstanding(r)' : t <= made' /\ t \notin executed'
  BY <1>1, <1>3, <1>9, <1>10 DEF OnceInv
<1>13. \A r, u \in Sessions : r # u => Outstanding(r)' \cap Outstanding(u)' = {}
  BY <1>10 DEF OnceInv
<1> QED
  BY <1>11, <1>12, <1>13 DEF OnceInv

\* The steps preserve it.
LEMMA NextOnce ==
    ASSUME TypeOK, \A s \in Sessions : Local(s), OnceInv, [Next]_vars
    PROVE  OnceInv'
<1>1. CASE UNCHANGED vars
  <2>1. toDevice' = toDevice /\ pc' = pc /\ request' = request /\ made' = made /\ executed' = executed
    BY <1>1 DEF vars, calling, device, pipes
  <2>2. \A s \in Sessions : Outstanding(s)' = Outstanding(s)
    BY <2>1 DEF Outstanding, Waiting
  <2> QED
    BY <2>1, <2>2, OnceShrinks
<1>2. ASSUME NEW s \in Sessions, Call(s) \/ Step(s) \/ Environment(s)
      PROVE  OnceInv'
  <2>1. \A r \in Sessions : r # s => Quiet(r)
    BY <1>2, OthersQuiet
  <2>2. CASE CallStamp(s)
    BY <2>1, <2>2, StampOnce
  <2>3. CASE DeviceAnswer(s)
    BY <2>1, <2>3, AnswerOnce
  <2>4. CASE QuietStep(s)
    <3>1. made' = made /\ executed' = executed
      BY <2>4 DEF QuietStep, CallRefused, CreateStep, CallExpect, CallLoad, CallStore,
           WriteReconnected, WriteLost, HeaderTimeout, HeaderLost, PayloadTimeout,
           PayloadReconnected, PayloadLost, Fault, Plug, calling, device
    <3>2. \A r \in Sessions : Quiet(r)
      BY <2>1, <2>4, OwnQuiet
    <3> QED
      BY <3>1, <3>2, QuietOutstanding, OnceShrinks
  <2>5. CASE \/ WriteSent(s) \/ WriteTimeout(s) \/ HeaderRead(s) \/ PayloadRead(s)
             \/ DevicePayload(s) \/ Unplug(s)
    <3>1. Outstanding(s)' \subseteq Outstanding(s) /\ made' = made /\ executed' = executed
      BY <2>5, TransferOutstanding
    <3>2. \A r \in Sessions : Outstanding(r)' \subseteq Outstanding(r)
      BY <2>1, <3>1, QuietOutstanding
    <3> QED
      BY <3>1, <3>2, OnceShrinks
  <2> QED
    BY <1>2, <2>2, <2>3, <2>4, <2>5
    DEF Call, Step, WriteStep, HeaderStep, PayloadStep, Environment, QuietStep
<1> QED
  BY <1>1, <1>2 DEF Next

\* In every state a request that waits for the device waits once and was not executed
\* before: no timeout and no reconnect makes the library send one again (usb_write, usb.c:125).
THEOREM ExecutedOnce == Spec => []AtMostOnce
<1> DEFINE Inv == TypeOK /\ \A s \in Sessions : Local(s)
<1>1. Init => OnceInv
  <2> SUFFICES ASSUME Init PROVE OnceInv
    OBVIOUS
  <2>1. executed = {}
    BY DEF Init
  <2>2. ASSUME NEW s \in Sessions PROVE Outstanding(s) = {}
    <3>1. toDevice[s] = <<>> /\ pc[s] = "idle"
      BY DEF Init
    <3>2. 1 .. Len(toDevice[s]) = {}
      BY <3>1
    <3> QED
      BY <3>1, <3>2 DEF Outstanding, Waiting, Unwritten
  <2> QED
    BY <2>1, <2>2 DEF OnceInv
<1>2. Inv /\ OnceInv /\ [Next]_vars => OnceInv'
  BY NextOnce
<1>3. Inv /\ OnceInv => AtMostOnce
  <2> SUFFICES ASSUME Inv, OnceInv, NEW s \in Sessions, NEW r \in Sessions,
                      NEW i \in 1 .. Len(toDevice[s]), NEW j \in 1 .. Len(toDevice[r])
               PROVE  /\ toDevice[s][i].tag \notin executed
                      /\ toDevice[s][i].tag = toDevice[r][j].tag => s = r /\ i = j
    BY DEF AtMostOnce
  <2>1. toDevice[s][i].tag \in Outstanding(s) /\ toDevice[r][j].tag \in Outstanding(r)
    BY DEF Outstanding, Waiting
  <2>2. toDevice[s][i].tag \notin executed
    BY <2>1 DEF OnceInv
  <2>3. toDevice[s][i].tag = toDevice[r][j].tag => s = r
    BY <2>1 DEF OnceInv
  <2>4. ASSUME s = r, i # j PROVE toDevice[s][i].tag # toDevice[s][j].tag
    <3>1. /\ \A k, l \in 1 .. Len(toDevice[s]) : k < l => toDevice[s][k].tag < toDevice[s][l].tag
          /\ \A k \in 1 .. Len(toDevice[s]) : toDevice[s][k].tag \in Nat
      BY TagBounds DEF Local, Ordered, QueueInv
    <3>2. i \in Int /\ j \in Int /\ (i < j \/ j < i)
      BY <2>4
    <3> QED
      BY <2>4, <3>1, <3>2
  <2> QED
    BY <2>2, <2>3, <2>4
<1> QED
  BY <1>1, <1>2, <1>3, LocalCorrect, PTL DEF Spec

-----------------------------------------------------------------------------
(***************************************************************************)
(* Why a call returns: no timeout and no reconnect takes it back to a      *)
(* point that it has left.                                                 *)
(***************************************************************************)

\* The most steps that a call at this point has still to do.
StepsLeft ==
    [idle |-> 0, payload |-> 1, header |-> 2, write |-> 3, store |-> 4, load |-> 5, expect |-> 6]

\* A call only moves forward, keeps its request, and returns its own result, once.
CallAdvances ==
    \A s \in Sessions : pc[s] # "idle" =>
        /\ pc'[s] # pc[s] => StepsLeft[pc'[s]] < StepsLeft[pc[s]]
        /\ request'[s].tag = request[s].tag
        /\ IF pc'[s] = "idle" THEN result'[s].tag = request[s].tag ELSE result'[s] = result[s]

\* What the steps of a session's caller do to its call.
LEMMA OwnCallAdvances ==
    ASSUME TypeOK, NEW s \in Sessions, Step(s)
    PROVE  /\ StepsLeft[pc'[s]] < StepsLeft[pc[s]]
           /\ request'[s].tag = request[s].tag
           /\ IF pc'[s] = "idle" THEN result'[s].tag = request[s].tag ELSE result'[s] = result[s]
<1> USE DEF TypeOK, StepsLeft, calling, Return, Goto, Failed
<1>1. CASE CreateStep(s)
  BY <1>1 DEF CreateStep, CallExpect, CallLoad, CallStore, Requests
<1>2. CASE WriteStep(s)
  BY <1>2 DEF WriteStep, WriteSent, WriteTimeout, WriteReconnected, WriteLost
<1>3. CASE HeaderStep(s)
  BY <1>3 DEF HeaderStep, HeaderRead, HeaderTimeout, HeaderLost, Succeeded
<1>4. CASE PayloadStep(s)
  BY <1>4
  DEF PayloadStep, PayloadRead, PayloadTimeout, PayloadReconnected, PayloadLost, Outcome, Succeeded
<1> QED
  BY <1>1, <1>2, <1>3, <1>4 DEF Step

\* Every call goes forward through create_request_packet and at most three transfers, and
\* returns the result of its own request (send_command, sensact.c:305), whatever the device
\* and the cable do: the safety behind CallReturns.
THEOREM CallsEnd == Spec => [][CallAdvances]_vars
<1>1. TypeOK /\ [Next]_vars => [CallAdvances]_vars
  <2> SUFFICES ASSUME TypeOK, Next, NEW s \in Sessions, pc[s] # "idle"
               PROVE  /\ pc'[s] # pc[s] => StepsLeft[pc'[s]] < StepsLeft[pc[s]]
                      /\ request'[s].tag = request[s].tag
                      /\ IF pc'[s] = "idle" THEN result'[s].tag = request[s].tag
                         ELSE result'[s] = result[s]
    BY DEF CallAdvances
  <2>1. PICK r \in Sessions : Call(r) \/ Step(r) \/ Environment(r)
    BY DEF Next
  <2>2. CASE r # s
    BY <2>1, <2>2, OthersQuiet
  <2>3. CASE Step(s) /\ r = s
    BY <2>3, OwnCallAdvances
  <2>4. CASE Environment(s) /\ r = s
    BY <2>4
    DEF Environment, DeviceAnswer, DevicePayload, Unplug, Fault, Plug, calling
  <2>5. ~Call(s)
    BY DEF Call, CallRefused, CallStamp, MayCall
  <2> QED
    BY <2>1, <2>2, <2>3, <2>4, <2>5
<1> QED
  BY <1>1, TypeCorrect, PTL DEF Spec

=============================================================================
