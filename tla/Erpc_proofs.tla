---------------------------- MODULE Erpc_proofs ----------------------------
(***************************************************************************)
(* Proofs about the PSA client API over eRPC: for any number of            *)
(* connections, vectors, calls and failures, no buffer is overrun, no      *)
(* block is kept, the server's loop ends only after a failure, client and  *)
(* secure side agree about the connections, and the client API implements  *)
(* the abstract remote call.                                               *)
(*                                                                         *)
(* All rest on one fact: there is one message at a time, it belongs to the *)
(* call in progress, and where it is says whether the call was executed.   *)
(***************************************************************************)
EXTENDS Erpc, WellFoundedInduction, FiniteSetTheorems, TLAPS

-----------------------------------------------------------------------------
(* Natural numbers. *)

(***************************************************************************)
(* The least-number principle, for a set of natural numbers.               *)
(***************************************************************************)
LEMMA LeastNumber ==
    ASSUME NEW S, S \subseteq Nat, S # {}
    PROVE  \E i \in S : \A j \in S : i <= j
<1>. DEFINE Less == {ss \in Nat \X Nat : ss[1] < ss[2]}
<1>1. IsWellFoundedOn(Less, Nat)
  BY NatLessThanWellFounded DEF OpToRel
<1>2. \E i \in S : \A j \in S : <<j, i>> \notin Less
  <2>. HIDE DEF Less
  <2>. QED BY <1>1, WFMin
<1>3. PICK i \in S : \A j \in S : <<j, i>> \notin Less
  BY <1>2
<1>4. ASSUME NEW j \in S PROVE i <= j
  <2>1. i \in Nat /\ j \in Nat
    OBVIOUS
  <2>2. ~(j < i)
    BY <1>3, <2>1
  <2>. QED
    BY <2>1, <2>2
<1>. QED
  BY <1>4

-----------------------------------------------------------------------------
(* The inductive invariant. *)

\* The message of a request, and any message as it arrives, intact or not.
Ints(r) ==
    CASE r.method = "psa_framework_version" -> <<>>
      [] r.method = "psa_version" -> <<r.sid>>
      [] r.method = "psa_connect" -> <<r.sid, r.ver>>
      [] r.method = "psa_close" -> <<r.handle>>
      [] r.method = "erpc_psa_call" -> <<r.handle, r.type>>

Sent(r) == Encode(r.method, Ints(r), IF r.method = "erpc_psa_call" THEN <<r.in, r.out>> ELSE <<>>)

Arrived(m, intact) ==
    [kind |-> m.kind, method |-> m.method, ints |-> m.ints, lists |-> m.lists,
     words |-> m.words, crc |-> intact]

Unexecuted == spm.done = <<>>
Executed(o) ==
    /\ o \in PsaOutcomes(client.req)
    /\ spm.done = <<[req |-> client.req, outcome |-> o]>>

FaultKinds ==
    {"client_transport", "client_codec", "client_send", "server_transport", "server_service",
     "server_codec", "server_malloc", "server_elements", "server_prepare", "server_send",
     "lost", "damaged"}

\* The records of the two programs.
RecordsOK ==
    /\ client \in [pc : {"idle"}, req : {<<>>}] \cup [pc : {"wait", "failed"}, req : Requests]
    /\ server = [pc |-> server.pc, service |-> server.service, msg |-> server.msg]
    /\ server.pc \in {"off", "receive", "shim", "send", "stopped", "undefined"}
    /\ server.service \in BOOLEAN
    /\ spm = [conns |-> spm.conns, done |-> spm.done]
    /\ spm.conns \subseteq 1 .. MaxHandle
    /\ known \subseteq 1 .. MaxHandle
    /\ faults \in Seq(FaultKinds)
    /\ overrun \in BOOLEAN

\* A call in progress was executed once or not at all, and it fits the buffer
\* if it was sent; without one nothing is executed.
CallOK ==
    /\ client.pc = "idle" => Unexecuted
    /\ client.pc # "idle" => Unexecuted \/ \E o : Executed(o)
    /\ client.pc = "wait" => MessageSize(Sent(client.req)) <= BufferSize

\* The one message under way.
WireOK ==
    wire # <<>> =>
        /\ client.pc = "wait" /\ server.pc \notin {"shim", "send"}
        /\ \E intact \in BOOLEAN :
              /\ ~intact => faults # <<>>
              /\ \/ Unexecuted /\ wire = <<Arrived(Sent(client.req), intact)>>
                 \/ \E o : Executed(o) /\ wire = <<Arrived(Reply(client.req, o), intact)>>

\* The one message in the server.
ServerOK ==
    /\ server.pc \in {"shim", "send"} => client.pc = "wait" /\ wire = <<>>
    /\ server.pc = "shim" => Unexecuted /\ server.msg = Sent(client.req)
    /\ server.pc = "send" => \E o : Executed(o) /\ server.msg = Reply(client.req, o)
    /\ ~server.service => faults # <<>>

\* Connections.  A connection that only one side has is the one that the call in
\* progress closes or has opened, or is due to a failure.
Closing == client.pc = "wait" /\ client.req.method = "psa_close" /\ Unexecuted
Opened == client.pc = "wait" /\ client.req.method = "psa_connect"
            /\ ~Unexecuted /\ spm.done[1].outcome.value > 0
Intact == wire = <<>> \/ Head(wire).crc

ConnectionsOK ==
    /\ known \subseteq spm.conns
    /\ spm.conns # {} => BufferSize >= 4
    /\ Closing => client.req.handle \in spm.conns \ known
    /\ Opened => spm.done[1].outcome.value \in spm.conns \ known
    /\ Cardinality(spm.conns \ known) <=
          Len(faults) + (IF Intact /\ (Closing \/ Opened) THEN 1 ELSE 0)

EInv ==
    /\ RecordsOK /\ CallOK /\ WireOK /\ ServerOK /\ ConnectionsOK
    /\ NoOverrun /\ HeapBalanced /\ StopsOnlyOnFault

-----------------------------------------------------------------------------
(* The size of a message. *)

\* s is the function that Total(f, n) defines by recursion.
IsSum(s, f, n) == s = [k \in 0 .. n |-> IF k = 0 THEN 0 ELSE s[k - 1] + f[k]]

(***************************************************************************)
(* The recursion of Total defines a function of natural numbers.           *)
(***************************************************************************)
LEMMA SumsExist ==
    ASSUME NEW n \in Nat, NEW f \in [1 .. n -> Nat]
    PROVE  \E s \in [0 .. n -> Nat] : IsSum(s, f, n)
<1>. DEFINE Good(m) == \E s \in [0 .. m -> Nat] :
                          \A k \in 0 .. m : s[k] = IF k = 0 THEN 0 ELSE s[k - 1] + f[k]
            Bad == {m \in 0 .. n : ~Good(m)}
<1>1. Good(0)
  <2>. DEFINE s == [k \in 0 .. 0 |-> 0]
  <2>1. s \in [0 .. 0 -> Nat]
    OBVIOUS
  <2>2. \A k \in 0 .. 0 : s[k] = 0 /\ k = 0
    OBVIOUS
  <2>. HIDE DEF s
  <2>. QED BY <2>1, <2>2
<1>2. ASSUME NEW m \in 1 .. n, Good(m - 1) PROVE Good(m)
  <2>1. PICK s \in [0 .. m - 1 -> Nat] :
               \A k \in 0 .. m - 1 : s[k] = IF k = 0 THEN 0 ELSE s[k - 1] + f[k]
    BY <1>2
  <2>. DEFINE t == [k \in 0 .. m |-> IF k = m THEN s[m - 1] + f[m] ELSE s[k]]
  <2>2. t \in [0 .. m -> Nat]
    OBVIOUS
  <2>3. ASSUME NEW k \in 0 .. m PROVE t[k] = IF k = 0 THEN 0 ELSE t[k - 1] + f[k]
    <3>1. CASE k = m
      <4>1. t[k] = s[m - 1] + f[m] /\ t[m - 1] = s[m - 1]
        BY <3>1
      <4>. QED BY <3>1, <4>1
    <3>2. CASE k = 0
      <4>1. t[k] = s[0]
        BY <3>2
      <4>. QED BY <2>1, <3>2, <4>1
    <3>3. CASE k \in 1 .. m - 1
      <4>1. t[k] = s[k] /\ t[k - 1] = s[k - 1]
        BY <3>3
      <4>2. k \in 0 .. m - 1 /\ k # 0
        BY <3>3
      <4>3. s[k] = s[k - 1] + f[k]
        BY <2>1, <4>2
      <4>. HIDE DEF t
      <4>. QED BY <4>1, <4>2, <4>3
    <3>. QED BY <3>1, <3>2, <3>3
  <2>. QED BY <2>2, <2>3
<1>. HIDE DEF Good
<1>3. Bad = {}
  <2>. SUFFICES ASSUME Bad # {} PROVE FALSE
    OBVIOUS
  <2>1. PICK i \in Bad : \A j \in Bad : i <= j
    <3>1. Bad \subseteq Nat
      OBVIOUS
    <3>. HIDE DEF Bad
    <3>. QED BY <3>1, LeastNumber
  <2>2. i \in 1 .. n /\ ~Good(i)
    BY <1>1
  <2>3. i - 1 \in 0 .. n /\ i - 1 \notin Bad
    BY <2>1, <2>2
  <2>4. Good(i - 1)
    BY <2>3
  <2>. QED BY <1>2, <2>2, <2>4
<1>4. Good(n)
  <2>1. n \in 0 .. n
    OBVIOUS
  <2>. QED BY <1>3, <2>1
<1>5. PICK s \in [0 .. n -> Nat] :
             \A k \in 0 .. n : s[k] = IF k = 0 THEN 0 ELSE s[k - 1] + f[k]
  BY <1>4 DEF Good
<1>6. s = [k \in 0 .. n |-> IF k = 0 THEN 0 ELSE s[k - 1] + f[k]]
  BY <1>5
<1>. QED BY <1>6 DEF IsSum

(***************************************************************************)
(* A total is the last of its partial sums.                                *)
(***************************************************************************)
LEMMA TotalIsSum ==
    ASSUME NEW n \in Nat, NEW f \in [1 .. n -> Nat]
    PROVE  \E s : /\ s \in [0 .. n -> Int] /\ s[0] = 0 /\ Total(f, n) = s[n]
                  /\ \A k \in 1 .. n : s[k] = s[k - 1] + f[k]
<1>. DEFINE u == CHOOSE t : t = [k \in 0 .. n |-> IF k = 0 THEN 0 ELSE t[k - 1] + f[k]]
            Bad == {k \in 0 .. n : u[k] \notin Int}
<1>1. u = [k \in 0 .. n |-> IF k = 0 THEN 0 ELSE u[k - 1] + f[k]]
  <2>1. \E t : t = [k \in 0 .. n |-> IF k = 0 THEN 0 ELSE t[k - 1] + f[k]]
    BY SumsExist DEF IsSum
  <2>. QED BY <2>1
<1>2. Total(f, n) = u[n]
  BY Zenon DEF Total
<1>. HIDE DEF u
<1>3. u[0] = 0 /\ \A k \in 1 .. n : u[k] = u[k - 1] + f[k]
  BY <1>1
<1>4. Bad = {}
  <2>. SUFFICES ASSUME Bad # {} PROVE FALSE
    OBVIOUS
  <2>1. PICK i \in Bad : \A j \in Bad : i <= j
    <3>1. Bad \subseteq Nat
      OBVIOUS
    <3>. HIDE DEF Bad
    <3>. QED BY <3>1, LeastNumber
  <2>2. i \in 1 .. n
    BY <1>3
  <2>3. i - 1 \in 0 .. n /\ i - 1 \notin Bad
    BY <2>1, <2>2
  <2>4. u[i - 1] \in Int /\ f[i] \in Int
    BY <2>2, <2>3
  <2>. QED BY <1>3, <2>2, <2>4
<1>5. u \in [0 .. n -> Int]
  BY <1>1, <1>4
<1>. QED BY <1>2, <1>3, <1>5

(***************************************************************************)
(* Totals of up to two terms, which are those of the lists of a message.   *)
(***************************************************************************)
LEMMA SmallTotals ==
    /\ \A f \in [1 .. 0 -> Nat] : Total(f, 0) = 0
    /\ \A f \in [1 .. 1 -> Nat] : Total(f, 1) = f[1]
    /\ \A f \in [1 .. 2 -> Nat] : Total(f, 2) = f[1] + f[2]
<1>1. ASSUME NEW f \in [1 .. 0 -> Nat] PROVE Total(f, 0) = 0
  BY TotalIsSum
<1>2. ASSUME NEW f \in [1 .. 1 -> Nat] PROVE Total(f, 1) = f[1]
  <2>. 1 \in Nat
    OBVIOUS
  <2>1. PICK s : /\ s \in [0 .. 1 -> Int] /\ s[0] = 0 /\ Total(f, 1) = s[1]
                 /\ \A k \in 1 .. 1 : s[k] = s[k - 1] + f[k]
    BY TotalIsSum, Zenon
  <2>2. s[1] = s[0] + f[1]
    BY <2>1
  <2>. QED BY <2>1, <2>2
<1>3. ASSUME NEW f \in [1 .. 2 -> Nat] PROVE Total(f, 2) = f[1] + f[2]
  <2>. 2 \in Nat
    OBVIOUS
  <2>1. PICK s : /\ s \in [0 .. 2 -> Int] /\ s[0] = 0 /\ Total(f, 2) = s[2]
                 /\ \A k \in 1 .. 2 : s[k] = s[k - 1] + f[k]
    BY TotalIsSum, Zenon
  <2>2. s[1] = s[0] + f[1] /\ s[2] = s[1] + f[2]
    BY <2>1
  <2>. QED BY <2>1, <2>2
<1>. QED BY <1>1, <1>2, <1>3

(***************************************************************************)
(* A total of natural numbers is one, and grows with its terms.            *)
(***************************************************************************)
LEMMA TotalMonotone ==
    ASSUME NEW n \in Nat, NEW f \in [1 .. n -> Nat], NEW g \in [1 .. n -> Nat],
           \A k \in 1 .. n : f[k] <= g[k]
    PROVE  Total(f, n) \in Nat /\ Total(g, n) \in Nat /\ Total(f, n) <= Total(g, n)
<1>1. PICK s : /\ s \in [0 .. n -> Int] /\ s[0] = 0 /\ Total(f, n) = s[n]
               /\ \A k \in 1 .. n : s[k] = s[k - 1] + f[k]
  BY TotalIsSum
<1>2. PICK t : /\ t \in [0 .. n -> Int] /\ t[0] = 0 /\ Total(g, n) = t[n]
               /\ \A k \in 1 .. n : t[k] = t[k - 1] + g[k]
  BY TotalIsSum
<1>. DEFINE Bad == {k \in 0 .. n : ~(0 <= s[k] /\ s[k] <= t[k])}
<1>3. Bad = {}
  <2>. SUFFICES ASSUME Bad # {} PROVE FALSE
    OBVIOUS
  <2>1. PICK i \in Bad : \A j \in Bad : i <= j
    <3>1. Bad \subseteq Nat
      OBVIOUS
    <3>. HIDE DEF Bad
    <3>. QED BY <3>1, LeastNumber
  <2>2. i \in 1 .. n
    BY <1>1, <1>2
  <2>3. i - 1 \in 0 .. n /\ i - 1 \notin Bad
    BY <2>1, <2>2
  <2>4. 0 <= s[i - 1] /\ s[i - 1] <= t[i - 1]
    BY <2>3
  <2>5. s[i] = s[i - 1] + f[i] /\ t[i] = t[i - 1] + g[i]
    BY <1>1, <1>2, <2>2
  <2>6. f[i] \in Nat /\ g[i] \in Nat /\ f[i] <= g[i]
    BY <2>2
  <2>7. s[i - 1] \in Int /\ t[i - 1] \in Int
    BY <1>1, <1>2, <2>2, <2>3
  <2>8. 0 <= s[i] /\ s[i] <= t[i]
    BY <2>4, <2>5, <2>6, <2>7
  <2>. QED BY <2>8
<1>4. 0 <= s[n] /\ s[n] <= t[n]
  BY <1>3
<1>5. s[n] \in Int /\ t[n] \in Int
  BY <1>1, <1>2
<1>. QED BY <1>1, <1>2, <1>4, <1>5

(***************************************************************************)
(* The vectors of a caller are sequences of known lengths.                 *)
(***************************************************************************)
LEMMA CallerVecsType ==
    ASSUME NEW tag, NEW v \in CallerVecs(tag)
    PROVE  \E n \in Nat : v \in [1 .. n -> [data : {tag}, len : Nat]]
<1>1. PICK lens \in BoundedSeq(Lengths, MaxVecs) : v = [i \in DOMAIN lens |-> Vec(tag, lens[i])]
  BY DEF CallerVecs
<1>2. PICK m \in 0 .. MaxVecs : lens \in [1 .. m -> Lengths]
  BY <1>1 DEF BoundedSeq, SeqOf
<1>3. m \in Nat /\ Lengths \subseteq Nat
  BY <1>2, ErpcAssumption
<1>4. v \in [1 .. m -> [data : {tag}, len : Nat]]
  BY <1>1, <1>2, <1>3 DEF Vec
<1>. QED BY <1>3, <1>4

(***************************************************************************)
(* The size of a list is that of a count and of its elements; shorter      *)
(* elements make a shorter list.                                           *)
(***************************************************************************)
LEMMA ListSize ==
    ASSUME NEW n \in Nat, NEW d, NEW e,
           NEW v \in [1 .. n -> [data : d, len : Nat]],
           NEW w \in [1 .. n -> [data : e, len : Nat]],
           \A i \in 1 .. n : v[i].len <= w[i].len
    PROVE  /\ list_binary_size(v) \in Nat /\ list_binary_size(w) \in Nat
           /\ list_binary_size(v) <= list_binary_size(w) /\ 1 <= list_binary_size(v)
<1>. DEFINE f == [i \in 1 .. n |-> 1 + v[i].len]
            g == [i \in 1 .. n |-> 1 + w[i].len]
<1>1. Len(v) = n /\ DOMAIN v = 1 .. n /\ Len(w) = n /\ DOMAIN w = 1 .. n
  OBVIOUS
<1>2. list_binary_size(v) = 1 + Total(f, n) /\ list_binary_size(w) = 1 + Total(g, n)
  BY <1>1 DEF list_binary_size
<1>3. ASSUME NEW i \in 1 .. n PROVE v[i].len \in Nat /\ w[i].len \in Nat
  <2>1. v[i] \in [data : d, len : Nat] /\ w[i] \in [data : e, len : Nat]
    OBVIOUS
  <2>. QED BY <2>1
<1>4. f \in [1 .. n -> Nat] /\ g \in [1 .. n -> Nat]
  BY <1>3
<1>5. \A i \in 1 .. n : f[i] <= g[i]
  BY <1>3
<1>6. Total(f, n) \in Nat /\ Total(g, n) \in Nat /\ Total(f, n) <= Total(g, n)
  <2>. HIDE DEF f, g
  <2>. QED BY <1>4, <1>5, TotalMonotone
<1>. HIDE DEF f, g
<1>. QED BY <1>2, <1>6

(***************************************************************************)
(* The size of a message with no list, with one and with two.              *)
(***************************************************************************)
LEMMA SizeByLists ==
    ASSUME NEW msg, msg.words \in Nat
    PROVE  /\ msg.lists = <<>> => MessageSize(msg) = 2 + msg.words
           /\ \A a : list_binary_size(a) \in Nat /\ msg.lists = <<a>> =>
                MessageSize(msg) = 2 + msg.words + list_binary_size(a)
           /\ \A a, b : list_binary_size(a) \in Nat /\ list_binary_size(b) \in Nat
                          /\ msg.lists = <<a, b>> =>
                MessageSize(msg) = 2 + msg.words + (list_binary_size(a) + list_binary_size(b))
<1>. DEFINE f == [i \in DOMAIN msg.lists |-> list_binary_size(msg.lists[i])]
<1>1. MessageSize(msg) = 2 + msg.words + Total(f, Len(msg.lists))
  BY DEF MessageSize
<1>2. CASE msg.lists = <<>>
  <2>1. f \in [1 .. 0 -> Nat] /\ Len(msg.lists) = 0
    BY <1>2
  <2>2. msg.lists # <<>> => FALSE
    BY <1>2
  <2>3. \A a, b : msg.lists # <<a>> /\ msg.lists # <<a, b>>
    BY <1>2
  <2>. HIDE DEF f
  <2>4. Total(f, 0) = 0
    BY <2>1, SmallTotals
  <2>. QED BY <1>1, <2>1, <2>3, <2>4
<1>3. ASSUME NEW a, list_binary_size(a) \in Nat, msg.lists = <<a>>
      PROVE  MessageSize(msg) = 2 + msg.words + list_binary_size(a)
  <2>1. f \in [1 .. 1 -> Nat] /\ Len(msg.lists) = 1 /\ f[1] = list_binary_size(a)
    BY <1>3
  <2>. HIDE DEF f
  <2>2. Total(f, 1) = f[1]
    BY <2>1, SmallTotals
  <2>. QED BY <1>1, <2>1, <2>2
<1>4. ASSUME NEW a, NEW b, list_binary_size(a) \in Nat, list_binary_size(b) \in Nat,
             msg.lists = <<a, b>>
      PROVE  MessageSize(msg) = 2 + msg.words + (list_binary_size(a) + list_binary_size(b))
  <2>1. f \in [1 .. 2 -> Nat] /\ Len(msg.lists) = 2
    BY <1>4
  <2>2. f[1] = list_binary_size(a) /\ f[2] = list_binary_size(b)
    BY <1>4
  <2>. HIDE DEF f
  <2>3. Total(f, 2) = f[1] + f[2]
    BY <2>1, SmallTotals
  <2>. QED BY <1>1, <2>1, <2>2, <2>3
<1>. QED BY <1>2, <1>3, <1>4

-----------------------------------------------------------------------------
(* Requests, and what the secure side answers. *)

(***************************************************************************)
(* The requests of the five methods.                                       *)
(***************************************************************************)
LEMMA RequestType ==
    ASSUME NEW r \in Requests
    PROVE  \/ r = [method |-> "psa_framework_version", out |-> <<>>]
           \/ \E sid \in Sids : r = [method |-> "psa_version", sid |-> sid, out |-> <<>>]
           \/ \E sid \in Sids, ver \in {1, 2} :
                 r = [method |-> "psa_connect", sid |-> sid, ver |-> ver, out |-> <<>>]
           \/ \E h \in 1 .. MaxHandle : r = [method |-> "psa_close", handle |-> h, out |-> <<>>]
           \/ \E h \in 1 .. MaxHandle, type \in Types,
                 in \in CallerVecs("in"), out \in CallerVecs("old") :
                 /\ r = [method |-> "erpc_psa_call", handle |-> h, type |-> type,
                         in |-> in, out |-> out]
                 /\ Len(in) + Len(out) <= PSA_MAX_IOVEC
<1>. DEFINE Call == [method : {"erpc_psa_call"}, handle : 1 .. MaxHandle, type : Types,
                     in : CallerVecs("in"), out : CallerVecs("old")]
<1>1. CASE r \in [method : {"psa_framework_version"}, out : {<<>>}]
  BY <1>1
<1>2. CASE r \in [method : {"psa_version"}, sid : Sids, out : {<<>>}]
  BY <1>2
<1>3. CASE r \in [method : {"psa_connect"}, sid : Sids, ver : {1, 2}, out : {<<>>}]
  BY <1>3
<1>4. CASE r \in [method : {"psa_close"}, handle : 1 .. MaxHandle, out : {<<>>}]
  BY <1>4
<1>5. CASE r \in Call /\ Len(r.in) + Len(r.out) <= PSA_MAX_IOVEC
  <2>1. r = [method |-> "erpc_psa_call", handle |-> r.handle, type |-> r.type,
             in |-> r.in, out |-> r.out]
    BY <1>5
  <2>2. /\ r.handle \in 1 .. MaxHandle /\ r.type \in Types
        /\ r.in \in CallerVecs("in") /\ r.out \in CallerVecs("old")
    BY <1>5
  <2>. QED BY <1>5, <2>1, <2>2
<1>. QED BY <1>1, <1>2, <1>3, <1>4, <1>5, Zenon DEF Requests

(***************************************************************************)
(* What the secure side may answer to each of them: the output vectors of  *)
(* a call are as many as the caller's, and no longer.                      *)
(***************************************************************************)
LEMMA OutcomeType ==
    ASSUME NEW r \in Requests, NEW o \in PsaOutcomes(r)
    PROVE  /\ o = [value |-> o.value, outs |-> o.outs]
           /\ o.value \in Int
           /\ r.method = "psa_close" => o.value = 0
           /\ r.method = "psa_connect" => o.value \in 1 .. MaxHandle \/ o.value < 0
           /\ r.method # "erpc_psa_call" => o.outs = <<>>
           /\ r.method = "erpc_psa_call" =>
                 \E n \in Nat : /\ o.outs \in [1 .. n -> [data : {"new"}, len : Nat]]
                                /\ r.out \in [1 .. n -> [data : {"old"}, len : Nat]]
                                /\ \A i \in 1 .. n : o.outs[i].len <= r.out[i].len
<1>1. CASE r.method = "psa_framework_version"
  BY <1>1 DEF PsaOutcomes
<1>2. CASE r.method = "psa_version"
  <2>1. o \in [value : {0, 1}, outs : {<<>>}]
    BY <1>2 DEF PsaOutcomes
  <2>. QED BY <1>2, <2>1
<1>3. CASE r.method = "psa_connect"
  <2>1. o \in [value : 1 .. MaxHandle \cup {PSA_ERROR_CONNECTION_REFUSED}, outs : {<<>>}]
    BY <1>3 DEF PsaOutcomes
  <2>. QED BY <1>3, <2>1 DEF PSA_ERROR_CONNECTION_REFUSED
<1>4. CASE r.method = "psa_close"
  <2>1. o = [value |-> 0, outs |-> <<>>]
    BY <1>4 DEF PsaOutcomes
  <2>. QED BY <1>4, <2>1
<1>5. CASE r.method = "erpc_psa_call"
  <2>1. o \in [value : {PSA_SUCCESS, PSA_ERROR_PROGRAMMER_ERROR}, outs : OutsFor(r.out)]
    BY <1>5 DEF PsaOutcomes
  <2>2. PICK n \in Nat : r.out \in [1 .. n -> [data : {"old"}, len : Nat]]
    <3>1. r.out \in CallerVecs("old")
      BY <1>5, RequestType
    <3>. QED BY <3>1, CallerVecsType
  <2>3. DOMAIN r.out = 1 .. n
    BY <2>2
  <2>4. /\ o.outs \in [1 .. n -> [data : {"new"}, len : Lengths]]
        /\ \A i \in 1 .. n : o.outs[i].len <= r.out[i].len
    <3>1. o.outs \in OutsFor(r.out)
      BY <2>1
    <3>. QED BY <2>3, <3>1 DEF OutsFor
  <2>5. o.outs \in [1 .. n -> [data : {"new"}, len : Nat]]
    <3>1. [data : {"new"}, len : Lengths] \subseteq [data : {"new"}, len : Nat]
      BY ErpcAssumption
    <3>. QED BY <2>4, <3>1
  <2>6. o = [value |-> o.value, outs |-> o.outs] /\ o.value \in Int
    BY <2>1 DEF PSA_SUCCESS, PSA_ERROR_PROGRAMMER_ERROR
  <2>. QED BY <1>5, <2>2, <2>4, <2>5, <2>6
<1>. QED BY <1>1, <1>2, <1>3, <1>4, <1>5, RequestType

(***************************************************************************)
(* Of a request that fits the buffer the reply fits too, so that the       *)
(* server never drops the result of a legal call.                          *)
(***************************************************************************)
LEMMA ReplyFits ==
    ASSUME NEW r \in Requests, NEW o \in PsaOutcomes(r),
           MessageSize(Sent(r)) <= BufferSize
    PROVE  MessageSize(Reply(r, o)) \in Int /\ MessageSize(Reply(r, o)) <= BufferSize
<1>. DEFINE s == Sent(r)
            a == Reply(r, o)
<1>1. BufferSize \in Nat /\ BufferSize >= 3
  BY ErpcAssumption
<1>2. CASE r.method # "erpc_psa_call"
  <2>1. a.lists = <<>> /\ a.words \in {0, 1}
    BY <1>2 DEF Reply, EncodeReply, Encode
  <2>. HIDE DEF a
  <2>2. MessageSize(a) = 2 + a.words
    BY <2>1, SizeByLists
  <2>. QED BY <1>1, <2>1, <2>2 DEF a
<1>3. CASE r.method = "erpc_psa_call"
  <2>1. a.lists = <<o.outs>> /\ a.words = 1
    BY <1>3 DEF Reply, EncodeReply, Encode
  <2>2. s.lists = <<r.in, r.out>> /\ s.words = 2
    BY <1>3 DEF Sent, Encode, Ints
  <2>3. PICK n \in Nat : /\ o.outs \in [1 .. n -> [data : {"new"}, len : Nat]]
                         /\ r.out \in [1 .. n -> [data : {"old"}, len : Nat]]
                         /\ \A i \in 1 .. n : o.outs[i].len <= r.out[i].len
    BY <1>3, OutcomeType
  <2>4. PICK m \in Nat : r.in \in [1 .. m -> [data : {"in"}, len : Nat]]
    <3>1. r.in \in CallerVecs("in")
      BY <1>3, RequestType
    <3>. QED BY <3>1, CallerVecsType
  <2>5. /\ list_binary_size(o.outs) \in Nat /\ list_binary_size(r.out) \in Nat
        /\ list_binary_size(o.outs) <= list_binary_size(r.out)
    BY <2>3, ListSize
  <2>6. list_binary_size(r.in) \in Nat
    <3>1. ASSUME NEW i \in 1 .. m PROVE r.in[i].len <= r.in[i].len
      <4>1. r.in[i] \in [data : {"in"}, len : Nat]
        BY <2>4
      <4>. QED BY <4>1
    <3>. QED BY <2>4, <3>1, ListSize
  <2>. HIDE DEF a, s
  <2>7. MessageSize(a) = 3 + list_binary_size(o.outs)
    BY <2>1, <2>5, SizeByLists
  <2>8. MessageSize(s) = 4 + (list_binary_size(r.in) + list_binary_size(r.out))
    BY <2>2, <2>5, <2>6, SizeByLists
  <2>. QED BY <1>1, <2>5, <2>6, <2>7, <2>8 DEF a, s
<1>. QED BY <1>2, <1>3

-----------------------------------------------------------------------------
(* Reading the lists of a request into allocated memory. *)

\* What is true while the lists are read: every live block will be freed, and
\* an error is due to an allocation that failed.
ReadOK(st, failing) ==
    /\ st \in [ok : BOOLEAN, live : SUBSET freed(st), count : [{"in", "out"} -> Nat],
               undefined : BOOLEAN]
    /\ st.ok => ~st.undefined
    /\ ~st.ok => failing # {}
    /\ st.undefined => {<<"in", 0>>, <<"out", 0>>} \cap failing # {}

(***************************************************************************)
(* read_list keeps it, whichever of its allocations fail.                  *)
(***************************************************************************)
LEMMA ReadListOK ==
    ASSUME NEW name \in {"in", "out"}, NEW list, Len(list) \in Nat, NEW failing, NEW st,
           ReadOK(st, failing), st.count[name] = 0
    PROVE  /\ ReadOK(read_list(name, list, failing, st), failing)
           /\ \A other \in {"in", "out"} \ {name} :
                 read_list(name, list, failing, st).count[other] = st.count[other]
<1>. DEFINE count == IF st.ok THEN Len(list) ELSE 0
            new == read_list(name, list, failing, st)
<1>1. /\ st.ok \in BOOLEAN /\ st.undefined \in BOOLEAN /\ st.count \in [{"in", "out"} -> Nat]
      /\ st.live \subseteq freed(st) /\ count \in Nat
  BY DEF ReadOK
<1>2. st = [ok |-> st.ok, live |-> st.live, count |-> st.count, undefined |-> st.undefined]
  BY DEF ReadOK
<1>3. CASE <<name>> \notin st.live
  BY <1>3 DEF read_list
<1>4. CASE <<name>> \in st.live /\ <<name, 0>> \in failing
  <2>1. new = [st EXCEPT !.ok = @ /\ count = 0, !.undefined = @ \/ count > 0]
    BY <1>4 DEF read_list
  <2>. HIDE DEF new, count
  <2>2. /\ new.ok = (st.ok /\ count = 0) /\ new.undefined = (st.undefined \/ count > 0)
        /\ new.live = st.live /\ new.count = st.count
        /\ new = [ok |-> new.ok, live |-> new.live, count |-> new.count,
                  undefined |-> new.undefined]
    BY <1>2, <2>1
  <2>3. freed(new) = freed(st)
    BY <2>2 DEF freed
  <2>4. {<<"in", 0>>, <<"out", 0>>} \cap failing # {} /\ failing # {}
    BY <1>4
  <2>5. new.ok \in BOOLEAN /\ new.undefined \in BOOLEAN /\ (new.ok => ~new.undefined)
    <3>1. st.ok => ~st.undefined
      BY DEF ReadOK
    <3>2. ~(count = 0 /\ count > 0)
      BY <1>1
    <3>. QED BY <2>2, <3>1, <3>2, Zenon
  <2>6. new \in [ok : BOOLEAN, live : SUBSET freed(new), count : [{"in", "out"} -> Nat],
                undefined : BOOLEAN]
    BY <1>1, <2>2, <2>3, <2>5
  <2>7. ReadOK(new, failing)
    BY <2>4, <2>5, <2>6 DEF ReadOK
  <2>. QED BY <2>2, <2>7 DEF new
<1>5. CASE <<name>> \in st.live /\ <<name, 0>> \notin failing
  <2>. DEFINE blocks == {<<name, i>> : i \in 0 .. count} \ failing
  <2>1. new = [st EXCEPT !.ok = @ /\ ~read_binary_failed(name, list, failing),
                         !.live = @ \cup blocks, !.count[name] = count]
    BY <1>5 DEF read_list
  <2>. HIDE DEF new
  <2>2. /\ new.ok = (st.ok /\ ~read_binary_failed(name, list, failing))
        /\ new.undefined = st.undefined /\ new.live = st.live \cup blocks
        /\ new.count = [st.count EXCEPT ![name] = count]
        /\ new = [ok |-> new.ok, live |-> new.live, count |-> new.count,
                  undefined |-> new.undefined]
    <3>. HIDE DEF blocks, count
    <3>. QED BY <1>2, <2>1
  <2>. HIDE DEF count
  <2>3. new.count \in [{"in", "out"} -> Nat] /\ new.count[name] = count
    BY <1>1, <2>2
  <2>4. \A other \in {"in", "out"} \ {name} : new.count[other] = st.count[other]
    BY <1>1, <2>2
  <2>5. freed(st) \subseteq freed(new)
    <3>. SUFFICES ASSUME NEW x \in freed(st) PROVE x \in freed(new)
      OBVIOUS
    <3>1. PICK other \in {"in", "out"} :
                 x \in {<<other>>} \cup {<<other, i>> : i \in 0 .. st.count[other]}
      BY DEF freed
    <3>2. 0 .. st.count[other] \subseteq 0 .. new.count[other]
      BY <1>1, <2>3, <2>4
    <3>3. x \in {<<other>>} \cup {<<other, i>> : i \in 0 .. new.count[other]}
      BY <3>1, <3>2
    <3>. QED BY <3>3 DEF freed
  <2>6. blocks \subseteq freed(new)
    <3>. SUFFICES ASSUME NEW x \in blocks PROVE x \in freed(new)
      OBVIOUS
    <3>1. x \in {<<name>>} \cup {<<name, i>> : i \in 0 .. new.count[name]}
      BY <2>3
    <3>. QED BY <3>1 DEF freed
  <2>7. read_binary_failed(name, list, failing) => failing # {}
    BY DEF read_binary_failed
  <2>8. new.live \subseteq freed(new)
    BY <1>1, <2>2, <2>5, <2>6
  <2>9. new.ok \in BOOLEAN
    BY <2>2
  <2>. HIDE DEF blocks
  <2>10. ReadOK(new, failing)
    BY <1>1, <2>2, <2>3, <2>7, <2>8, <2>9 DEF ReadOK
  <2>. QED BY <2>4, <2>10 DEF new
<1>. QED BY <1>3, <1>4, <1>5

(***************************************************************************)
(* So does the whole reading of a request.                                 *)
(***************************************************************************)
LEMMA ReadRequestOK ==
    ASSUME NEW in, Len(in) \in Nat, NEW out, Len(out) \in Nat, NEW failing
    PROVE  ReadOK(read_list("out", out, failing,
                            read_list("in", in, failing, ReadStart(failing))), failing)
<1>. DEFINE start == ReadStart(failing)
            first == read_list("in", in, failing, start)
<1>1. ReadOK(start, failing) /\ start.count["in"] = 0 /\ start.count["out"] = 0
  <2>1. start.count \in [{"in", "out"} -> Nat] /\ start.count["in"] = 0 /\ start.count["out"] = 0
    BY DEF ReadStart
  <2>2. start = [ok |-> start.ok, live |-> start.live, count |-> start.count, undefined |-> FALSE]
        /\ start.ok \in BOOLEAN /\ start.undefined = FALSE
    BY DEF ReadStart
  <2>3. start.live \subseteq {<<"in">>, <<"out">>} /\ (~start.ok => failing # {})
    BY DEF ReadStart
  <2>4. {<<"in">>, <<"out">>} \subseteq freed(start)
    BY DEF freed
  <2>. HIDE DEF start
  <2>5. start.live \subseteq freed(start)
    BY <2>3, <2>4
  <2>. QED BY <2>1, <2>2, <2>3, <2>5 DEF ReadOK
<1>. HIDE DEF start
<1>2. ReadOK(first, failing) /\ first.count["out"] = 0
  <2>1. "out" \in {"in", "out"} \ {"in"}
    OBVIOUS
  <2>. QED BY <1>1, <2>1, ReadListOK
<1>. HIDE DEF first
<1>3. ReadOK(read_list("out", out, failing, first), failing)
  BY <1>2, ReadListOK
<1>. QED BY <1>3 DEF first, start

-----------------------------------------------------------------------------
(* The invariant is inductive. *)

(***************************************************************************)
(* The sizes of the requests that open and close a connection.             *)
(***************************************************************************)
LEMMA ConnectionSizes ==
    ASSUME NEW r \in Requests
    PROVE  /\ r.method = "psa_connect" => MessageSize(Sent(r)) = 4
           /\ r.method = "psa_close" => MessageSize(Sent(r)) = 3
<1>. DEFINE s == Sent(r)
<1>1. r.method = "psa_connect" => s.lists = <<>> /\ s.words = 2
  BY DEF Sent, Encode, Ints
<1>2. r.method = "psa_close" => s.lists = <<>> /\ s.words = 1
  BY DEF Sent, Encode, Ints
<1>. HIDE DEF s
<1>3. s.words \in Nat /\ s.lists = <<>> => MessageSize(s) = 2 + s.words
  BY SizeByLists
<1>. QED BY <1>1, <1>2, <1>3 DEF s

(***************************************************************************)
(* Requests and replies are records, and intact when they are sent.        *)
(***************************************************************************)
LEMMA MessagesIntact ==
    /\ \A r : Arrived(Sent(r), TRUE) = Sent(r) /\ Sent(r).kind = "invocation"
              /\ Sent(r).method = r.method
    /\ \A r, o : Arrived(Reply(r, o), TRUE) = Reply(r, o) /\ Reply(r, o).kind = "reply"
                 /\ Reply(r, o).method = r.method
<1>1. ASSUME NEW r PROVE Arrived(Sent(r), TRUE) = Sent(r) /\ Sent(r).kind = "invocation"
                         /\ Sent(r).method = r.method
  BY DEF Arrived, Sent, Encode
<1>2. ASSUME NEW r, NEW o PROVE Arrived(Reply(r, o), TRUE) = Reply(r, o) /\ Reply(r, o).kind = "reply"
                                /\ Reply(r, o).method = r.method
  <2>. DEFINE ints == IF r.method = "psa_close" THEN <<>> ELSE <<o.value>>
              lists == IF r.method = "erpc_psa_call" THEN <<o.outs>> ELSE <<>>
  <2>1. Reply(r, o) = EncodeReply(r.method, ints, lists)
    BY DEF Reply
  <2>. HIDE DEF ints, lists
  <2>. QED BY <2>1 DEF Arrived, EncodeReply, Encode
<1>. QED BY <1>1, <1>2

(***************************************************************************)
(* There are finitely many connections.                                    *)
(***************************************************************************)
LEMMA ConnectionsFinite ==
    ASSUME NEW S, S \subseteq 1 .. MaxHandle
    PROVE  /\ IsFiniteSet(S) /\ Cardinality(S) \in Nat
           /\ \A x \in 1 .. MaxHandle :
                 /\ Cardinality(S \cup {x}) <= Cardinality(S) + 1
                 /\ x \in S => Cardinality(S \ {x}) = Cardinality(S) - 1
<1>1. IsFiniteSet(S)
  <2>1. MaxHandle \in Int /\ 1 \in Int
    BY ErpcAssumption
  <2>2. IsFiniteSet(1 .. MaxHandle)
    BY <2>1, FS_Interval
  <2>. QED BY <2>2, FS_Subset
<1>2. Cardinality(S) \in Nat
  BY <1>1, FS_CardinalityType
<1>3. ASSUME NEW x \in 1 .. MaxHandle
      PROVE  /\ Cardinality(S \cup {x}) <= Cardinality(S) + 1
             /\ x \in S => Cardinality(S \ {x}) = Cardinality(S) - 1
  <2>1. Cardinality(S \cup {x}) = IF x \in S THEN Cardinality(S) ELSE Cardinality(S) + 1
    BY <1>1, FS_AddElement
  <2>2. Cardinality(S \ {x}) = IF x \in S THEN Cardinality(S) - 1 ELSE Cardinality(S)
    BY <1>1, FS_RemoveElement
  <2>. QED BY <1>2, <2>1, <2>2
<1>. QED BY <1>1, <1>2, <1>3

(***************************************************************************)
(* The size of a request is a number.                                      *)
(***************************************************************************)
LEMMA SizesInt ==
    ASSUME NEW r \in Requests
    PROVE  MessageSize(Sent(r)) \in Int
<1>. DEFINE s == Sent(r)
<1>1. CASE r.method # "erpc_psa_call"
  <2>1. s.lists = <<>> /\ s.words \in Nat
    BY <1>1, RequestType DEF Sent, Encode, Ints
  <2>. HIDE DEF s
  <2>. QED BY <2>1, SizeByLists DEF s
<1>2. CASE r.method = "erpc_psa_call"
  <2>1. s.lists = <<r.in, r.out>> /\ s.words = 2
    BY <1>2 DEF Sent, Encode, Ints
  <2>2. r.in \in CallerVecs("in") /\ r.out \in CallerVecs("old")
    BY <1>2, RequestType
  <2>3. ASSUME NEW tag, NEW v \in CallerVecs(tag) PROVE list_binary_size(v) \in Nat
    <3>1. PICK n \in Nat : v \in [1 .. n -> [data : {tag}, len : Nat]]
      BY CallerVecsType
    <3>2. ASSUME NEW i \in 1 .. n PROVE v[i].len <= v[i].len
      <4>1. v[i] \in [data : {tag}, len : Nat]
        BY <3>1
      <4>. QED BY <4>1
    <3>. QED BY <3>1, <3>2, ListSize
  <2>. HIDE DEF s
  <2>4. MessageSize(s) = 2 + 2 + (list_binary_size(r.in) + list_binary_size(r.out))
    BY <2>1, <2>2, <2>3, SizeByLists
  <2>. QED BY <2>2, <2>3, <2>4 DEF s
<1>. QED BY <1>1, <1>2

\* The invariant holds before the host has started its client.
LEMMA InitEInv ==
    ASSUME Init
    PROVE  EInv
<1>1. RecordsOK /\ CallOK /\ WireOK /\ ServerOK
  <2>1. RecordsOK
    <3>1. client \in [pc : {"idle"}, req : {<<>>}] /\ faults \in Seq(FaultKinds)
      BY DEF Init
    <3>2. server = [pc |-> "off", service |-> TRUE, msg |-> <<>>]
          /\ spm = [conns |-> {}, done |-> <<>>] /\ known = {} /\ overrun = FALSE
      BY DEF Init
    <3>. QED BY <3>1, <3>2 DEF RecordsOK
  <2>2. CallOK /\ WireOK /\ ServerOK
    BY DEF Init, CallOK, WireOK, ServerOK, Unexecuted
  <2>. QED BY <2>1, <2>2
<1>2. ConnectionsOK
  <2>1. spm.conns = {} /\ known = {} /\ faults = <<>> /\ client.pc = "idle"
    BY DEF Init
  <2>2. Cardinality(spm.conns \ known) = 0
    BY <2>1, FS_EmptySet
  <2>. QED BY <2>1, <2>2 DEF ConnectionsOK, Closing, Opened
<1>3. NoOverrun /\ HeapBalanced /\ StopsOnlyOnFault
  BY DEF Init, NoOverrun, HeapBalanced, StopsOnlyOnFault
<1>. QED BY <1>1, <1>2, <1>3 DEF EInv

\* The failures of a step are added to the earlier ones.
FaultsKept ==
    /\ faults' \in Seq(FaultKinds) /\ Len(faults') >= Len(faults)
    /\ \A i \in DOMAIN faults : i \in DOMAIN faults' /\ faults'[i] = faults[i]

\* The history of faults only grows: whatever it showed before, it still
\* shows.
LEMMA FaultsAdded ==
    ASSUME faults \in Seq(FaultKinds), NEW more \in Seq(FaultKinds), faults' = faults \o more
    PROVE  FaultsKept /\ Len(faults') = Len(faults) + Len(more)
<1>1. /\ faults' \in Seq(FaultKinds) /\ Len(faults') = Len(faults) + Len(more)
      /\ Len(faults) \in Nat /\ Len(more) \in Nat
  OBVIOUS
<1>2. ASSUME NEW i \in DOMAIN faults PROVE i \in DOMAIN faults' /\ faults'[i] = faults[i]
  BY <1>1
<1>. QED BY <1>1, <1>2 DEF FaultsKept

\* A fault that is recorded can be found in the history.
LEMMA FaultAdded ==
    ASSUME faults \in Seq(FaultKinds), NEW kind \in FaultKinds, Fault(kind)
    PROVE  /\ FaultsKept /\ Len(faults') = Len(faults) + 1 /\ faults' # <<>>
           /\ \E i \in DOMAIN faults' : faults'[i] = kind
<1>1. /\ faults' = Append(faults, kind) /\ faults' \in Seq(FaultKinds)
      /\ Len(faults') = Len(faults) + 1 /\ Len(faults) \in Nat
  BY DEF Fault
<1>2. ASSUME NEW i \in DOMAIN faults PROVE i \in DOMAIN faults' /\ faults'[i] = faults[i]
  BY <1>1
<1>3. Len(faults) + 1 \in DOMAIN faults' /\ faults'[Len(faults) + 1] = kind
  BY <1>1
<1>. QED BY <1>1, <1>2, <1>3 DEF FaultsKept

\* A step without a fault keeps the history.
LEMMA FaultsUnchanged ==
    ASSUME faults \in Seq(FaultKinds), faults' = faults
    PROVE  FaultsKept
BY DEF FaultsKept

(***************************************************************************)
(* What the failures so far explain stays explained.                       *)
(***************************************************************************)
LEMMA StopsKept ==
    ASSUME faults \in Seq(FaultKinds), FaultsKept, StopsOnlyOnFault,
           server'.pc = server.pc \/ server'.pc \notin {"stopped", "undefined"}
    PROVE  StopsOnlyOnFault' /\ (faults # <<>> => faults' # <<>>)
<1>1. faults # <<>> => faults' # <<>>
  <2>1. Len(faults) \in Nat /\ Len(faults') \in Nat /\ Len(faults') >= Len(faults)
    BY DEF FaultsKept
  <2>2. faults # <<>> => Len(faults) > 0
    OBVIOUS
  <2>3. Len(faults') > 0 => faults' # <<>>
    OBVIOUS
  <2>. QED BY <2>1, <2>2, <2>3
<1>2. (\E i \in DOMAIN faults : faults[i] \in {"server_elements", "server_transport"}) =>
      \E i \in DOMAIN faults' : faults'[i] \in {"server_elements", "server_transport"}
  BY DEF FaultsKept
<1>. QED BY <1>1, <1>2 DEF StopsOnlyOnFault

(***************************************************************************)
(* A shim up to performRequest, of a request that closes no connection or  *)
(* one that the client gives up.                                           *)
(***************************************************************************)
LEMMA PerformEInv ==
    ASSUME EInv, NEW req \in Requests, Perform(req, Sent(req)),
           overrun' = FALSE,
           \/ req.method # "psa_close" /\ known' = known
           \/ req.method = "psa_close" /\ req.handle \in known /\ known' = known \ {req.handle}
    PROVE  EInv'
<1>1. /\ client.pc = "idle" /\ server' = server /\ heap' = heap /\ spm' = spm
      /\ wire = <<>> /\ Unexecuted /\ server.pc \notin {"shim", "send"}
  BY DEF EInv, Perform, WireOK, CallOK, ServerOK
<1>2. faults \in Seq(FaultKinds) /\ Len(faults) \in Nat
  BY DEF EInv, RecordsOK
<1>3. \/ /\ client' = [pc |-> "wait", req |-> req] /\ wire' = <<Sent(req)>> /\ faults' = faults
         /\ ~(MessageSize(Sent(req)) > BufferSize)
      \/ /\ client' = [pc |-> "failed", req |-> req] /\ wire' = <<>>
         /\ \/ faults' = faults /\ MessageSize(Sent(req)) > BufferSize
            \/ FaultsKept /\ Len(faults') = Len(faults) + 1
  <2>1. CASE MessageSize(Sent(req)) > BufferSize
    BY <1>1, <2>1 DEF Perform
  <2>2. CASE ~(MessageSize(Sent(req)) > BufferSize)
    <3>1. CASE client' = [pc |-> "wait", req |-> req] /\ wire' = Append(wire, Sent(req))
               /\ faults' = faults
      BY <1>1, <2>2, <3>1
    <3>2. ASSUME NEW kind \in FaultKinds, Fault(kind), wire' = wire
          PROVE  wire' = <<>> /\ FaultsKept /\ Len(faults') = Len(faults) + 1
      BY <1>1, <1>2, <3>2, FaultAdded
    <3>3. "client_codec" \in FaultKinds /\ "client_send" \in FaultKinds
      BY DEF FaultKinds
    <3>. QED BY <2>2, <3>1, <3>2, <3>3, Zenon DEF Perform
  <2>. QED BY <2>1, <2>2
<1>4. FaultsKept
  BY <1>2, <1>3, FaultsUnchanged
<1>5. /\ client' \in [pc : {"wait", "failed"}, req : Requests] /\ client'.req = req
      /\ client'.pc \in {"wait", "failed"}
  BY <1>3
<1>6. known \subseteq 1 .. MaxHandle /\ known' \subseteq known /\ known' \subseteq 1 .. MaxHandle
  BY DEF EInv, RecordsOK
<1>7. RecordsOK'
  BY <1>1, <1>4, <1>5, <1>6 DEF EInv, RecordsOK, FaultsKept
<1>8. Unexecuted'
  BY <1>1 DEF Unexecuted
<1>9. CallOK'
  <2>1. client'.pc = "wait" => ~(MessageSize(Sent(req)) > BufferSize)
    BY <1>3
  <2>2. MessageSize(Sent(req)) \in Int /\ BufferSize \in Int
    BY SizesInt, ErpcAssumption
  <2>3. Sent(client'.req) = Sent(req)
    BY <1>5
  <2>4. client'.pc = "wait" => MessageSize(Sent(client'.req)) <= BufferSize
    BY <2>1, <2>2, <2>3
  <2>. QED BY <1>5, <1>8, <2>4 DEF CallOK
<1>10. WireOK'
  <2>1. Arrived(Sent(client'.req), TRUE) = Sent(req)
    <3>1. Sent(client'.req) = Sent(req)
      BY <1>5
    <3>2. Arrived(Sent(client'.req), TRUE) = Sent(client'.req)
      BY MessagesIntact, Zenon
    <3>. QED BY <3>1, <3>2
  <2>2. wire' # <<>> => client'.pc = "wait" /\ wire' = <<Arrived(Sent(client'.req), TRUE)>>
    <3>1. wire' # <<>> => client'.pc = "wait" /\ wire' = <<Sent(req)>>
      BY <1>3
    <3>. QED BY <2>1, <3>1, Zenon
  <2>. QED BY <1>1, <1>8, <2>2 DEF WireOK
<1>11. StopsOnlyOnFault' /\ (faults # <<>> => faults' # <<>>)
  BY <1>1, <1>2, <1>4, StopsKept DEF EInv
<1>12. ServerOK'
  BY <1>1, <1>11 DEF EInv, ServerOK
<1>13. NoOverrun' /\ HeapBalanced'
  BY <1>1 DEF EInv, NoOverrun, HeapBalanced
<1>14. ConnectionsOK'
  <2>. DEFINE left == spm.conns \ known
  <2>1. /\ known \subseteq spm.conns /\ spm.conns \subseteq 1 .. MaxHandle
        /\ (spm.conns # {} => BufferSize >= 4) /\ Cardinality(left) <= Len(faults)
    BY <1>1, <1>2 DEF EInv, RecordsOK, ConnectionsOK, Closing, Opened
  <2>2. ~Opened'
    BY <1>8 DEF Opened
  <2>3. Closing' => client'.req.handle \in spm'.conns \ known'
    BY <1>1, <1>5, <2>1 DEF Closing
  <2>4. Len(faults') \in Nat /\ Len(faults') >= Len(faults) /\ Cardinality(left) \in Nat
    BY <1>4, <2>1, ConnectionsFinite DEF FaultsKept
  <2>5. Cardinality(spm'.conns \ known') <=
          Len(faults') + (IF Intact' /\ (Closing' \/ Opened') THEN 1 ELSE 0)
    <3>1. CASE req.method # "psa_close"
      <4>1. Cardinality(spm'.conns \ known') = Cardinality(left)
        BY <1>1, <3>1
      <4>2. (IF Intact' /\ (Closing' \/ Opened') THEN 1 ELSE 0) \in {0, 1}
        OBVIOUS
      <4>. HIDE DEF left
      <4>. QED BY <1>2, <2>1, <2>4, <4>1, <4>2
    <3>2. CASE req.method = "psa_close"
      <4>1. spm'.conns \ known' = left \cup {req.handle}
        BY <1>1, <2>1, <3>2
      <4>2. Cardinality(spm'.conns \ known') <= Cardinality(left) + 1
            /\ Cardinality(spm'.conns \ known') \in Nat
        <5>1. left \subseteq 1 .. MaxHandle /\ req.handle \in 1 .. MaxHandle
              /\ left \cup {req.handle} \subseteq 1 .. MaxHandle
          BY <2>1, <3>2
        <5>. HIDE DEF left
        <5>. QED BY <4>1, <5>1, ConnectionsFinite
      <4>3. CASE client'.pc = "wait"
        <5>1. wire' = <<Sent(req)>> /\ Sent(req).crc = TRUE
          BY <1>3, <4>3 DEF Sent, Encode
        <5>2. Intact' /\ Closing'
          BY <1>5, <1>8, <3>2, <4>3, <5>1 DEF Intact, Closing
        <5>. HIDE DEF left
        <5>. QED BY <1>2, <2>1, <2>4, <4>2, <5>2
      <4>4. CASE client'.pc = "failed"
        <5>1. BufferSize >= 4 /\ MessageSize(Sent(req)) = 3 /\ BufferSize \in Nat
          BY <2>1, <3>2, ConnectionSizes, ErpcAssumption
        <5>2. Len(faults') = Len(faults) + 1
          BY <1>3, <4>4, <5>1
        <5>. HIDE DEF left
        <5>. QED BY <1>2, <2>1, <2>4, <4>2, <5>2
      <4>. QED BY <1>5, <4>3, <4>4
    <3>. QED BY <3>1, <3>2
  <2>6. known' \subseteq spm'.conns
    BY <1>1, <1>6, <2>1
  <2>7. spm'.conns # {} => BufferSize >= 4
    BY <1>1, <2>1
  <2>. QED BY <2>2, <2>3, <2>5, <2>6, <2>7 DEF ConnectionsOK
<1>. QED BY <1>7, <1>9, <1>10, <1>11, <1>12, <1>13, <1>14 DEF EInv

(***************************************************************************)
(* A step that changes neither the client nor the connections keeps        *)
(* ConnectionsOK: a message that is damaged is one failure more.           *)
(***************************************************************************)
LEMMA ConnectionsKept ==
    ASSUME RecordsOK, ConnectionsOK, FaultsKept, UNCHANGED <<client, spm, known>>,
           Intact' \/ ~Intact \/ Len(faults') = Len(faults) + 1
    PROVE  ConnectionsOK'
<1>1. Closing' = Closing /\ Opened' = Opened
  BY DEF Closing, Opened, Unexecuted
<1>2. /\ Len(faults) \in Nat /\ Len(faults') \in Nat /\ Len(faults') >= Len(faults)
  BY DEF RecordsOK, FaultsKept
<1>3. Cardinality(spm.conns \ known) \in Nat
  <2>1. spm.conns \ known \subseteq 1 .. MaxHandle
    BY DEF RecordsOK
  <2>. QED BY <2>1, ConnectionsFinite
<1>. DEFINE before == IF Intact /\ (Closing \/ Opened) THEN 1 ELSE 0
            after == IF Intact' /\ (Closing' \/ Opened') THEN 1 ELSE 0
<1>4. before \in {0, 1} /\ after \in {0, 1}
  OBVIOUS
<1>5. before <= after \/ Len(faults') = Len(faults) + 1
  <2>1. (Intact => Intact') => before <= after
    BY <1>1
  <2>. QED BY <2>1
<1>6. Cardinality(spm.conns \ known) <= Len(faults) + before
  BY DEF ConnectionsOK
<1>7. Cardinality(spm'.conns \ known') = Cardinality(spm.conns \ known)
  OBVIOUS
<1>. HIDE DEF before, after
<1>8. Cardinality(spm'.conns \ known') <= Len(faults') + after
  BY <1>2, <1>3, <1>4, <1>5, <1>6, <1>7
<1>9. /\ known' \subseteq spm'.conns
      /\ spm'.conns # {} => BufferSize >= 4
      /\ Closing' => client'.req.handle \in spm'.conns \ known'
      /\ Opened' => spm'.done[1].outcome.value \in spm'.conns \ known'
  BY <1>1 DEF ConnectionsOK
<1>. QED BY <1>8, <1>9 DEF ConnectionsOK, after

(***************************************************************************)
(* A step that changes nothing of what the invariant is about, but that    *)
(* may fail: main, and a psa_call that is refused.                         *)
(***************************************************************************)
LEMMA FrameEInv ==
    ASSUME EInv, FaultsKept, UNCHANGED <<client, wire, server, heap, spm, known, overrun>>
    PROVE  EInv'
<1>1. faults \in Seq(FaultKinds)
  BY DEF EInv, RecordsOK
<1>2. StopsOnlyOnFault' /\ (faults # <<>> => faults' # <<>>)
  BY <1>1, StopsKept DEF EInv
<1>3. Unexecuted' = Unexecuted /\ \A o : Executed(o)' = Executed(o)
  BY DEF Unexecuted, Executed, PsaOutcomes, OutsFor
<1>4. RecordsOK'
  BY DEF EInv, RecordsOK, FaultsKept
<1>5. CallOK'
  BY <1>3 DEF EInv, CallOK
<1>6. WireOK'
  BY <1>2, <1>3 DEF EInv, WireOK
<1>7. ServerOK'
  BY <1>2, <1>3 DEF EInv, ServerOK
<1>8. ConnectionsOK'
  <2>1. Intact' = Intact
    BY DEF Intact
  <2>. QED BY <2>1, ConnectionsKept DEF EInv
<1>9. NoOverrun' /\ HeapBalanced'
  BY DEF EInv, NoOverrun, HeapBalanced
<1>. QED BY <1>2, <1>4, <1>5, <1>6, <1>7, <1>8, <1>9 DEF EInv

\* Starting the client, before the first call.
LEMMA HostEInv ==
    ASSUME EInv, host_main \/ erpc_client_start
    PROVE  EInv'
<1>1. faults \in Seq(FaultKinds)
  BY DEF EInv, RecordsOK
<1>2. faults' = faults \/ Fault("client_transport")
  BY DEF host_main, erpc_client_start
<1>3. UNCHANGED <<client, wire, server, heap, spm, known, overrun>>
  BY DEF host_main, erpc_client_start
<1>4. FaultsKept
  <2>1. "client_transport" \in FaultKinds
    BY DEF FaultKinds
  <2>. QED BY <1>1, <1>2, <2>1, FaultAdded, FaultsUnchanged
<1>. QED BY <1>3, <1>4, FrameEInv

(***************************************************************************)
(* A call of a client performs a request, or psa_call refuses it.          *)
(***************************************************************************)
LEMMA CallMade ==
    ASSUME EInv, ClientCalls
    PROVE  \/ \E r \in Requests :
                 /\ Perform(r, Sent(r)) /\ overrun' = FALSE
                 /\ \/ r.method # "psa_close" /\ known' = known
                    \/ r.method = "psa_close" /\ r.handle \in known
                       /\ known' = known \ {r.handle}
           \/ /\ UNCHANGED <<client, wire, server, heap, spm, known, faults, overrun>>
              /\ client.pc = "idle" /\ ret' \in Refusals
<1>1. overrun = FALSE
  BY DEF EInv, NoOverrun, RecordsOK
<1>2. known \subseteq 1 .. MaxHandle /\ faults \in Seq(FaultKinds)
  BY DEF EInv, RecordsOK
<1>3. CASE psa_framework_version
  <2>. DEFINE r == [method |-> "psa_framework_version", out |-> <<>>]
  <2>1. r \in Requests
    BY DEF Requests
  <2>2. Sent(r) = Encode("psa_framework_version", <<>>, <<>>) /\ r.method # "psa_close"
    BY DEF Sent, Ints
  <2>. HIDE DEF r
  <2>3. Perform(r, Sent(r)) /\ known' = known /\ overrun' = FALSE
    BY <1>1, <1>3, <2>2 DEF psa_framework_version, r
  <2>. QED BY <2>1, <2>2, <2>3
<1>4. CASE psa_version
  <2>1. PICK sid \in Sids : Perform([method |-> "psa_version", sid |-> sid, out |-> <<>>],
                                    Encode("psa_version", <<sid>>, <<>>))
    BY <1>4 DEF psa_version
  <2>. DEFINE r == [method |-> "psa_version", sid |-> sid, out |-> <<>>]
  <2>2. r \in Requests
    BY DEF Requests
  <2>3. Sent(r) = Encode("psa_version", <<sid>>, <<>>) /\ r.method # "psa_close"
    BY DEF Sent, Ints
  <2>. HIDE DEF r
  <2>4. Perform(r, Sent(r)) /\ known' = known /\ overrun' = FALSE
    BY <1>1, <1>4, <2>1, <2>3 DEF psa_version, r
  <2>. QED BY <2>2, <2>3, <2>4
<1>5. CASE psa_connect
  <2>1. PICK sid \in Sids, ver \in {1, 2} :
               Perform([method |-> "psa_connect", sid |-> sid, ver |-> ver, out |-> <<>>],
                       Encode("psa_connect", <<sid, ver>>, <<>>))
    BY <1>5 DEF psa_connect
  <2>. DEFINE r == [method |-> "psa_connect", sid |-> sid, ver |-> ver, out |-> <<>>]
  <2>2. r \in Requests
    BY DEF Requests
  <2>3. Sent(r) = Encode("psa_connect", <<sid, ver>>, <<>>) /\ r.method # "psa_close"
    BY DEF Sent, Ints
  <2>. HIDE DEF r
  <2>4. Perform(r, Sent(r)) /\ known' = known /\ overrun' = FALSE
    BY <1>1, <1>5, <2>1, <2>3 DEF psa_connect, r
  <2>. QED BY <2>2, <2>3, <2>4
<1>6. CASE psa_close
  <2>1. PICK h \in known : /\ Perform([method |-> "psa_close", handle |-> h, out |-> <<>>],
                                      Encode("psa_close", <<h>>, <<>>))
                           /\ known' = known \ {h}
    BY <1>6 DEF psa_close
  <2>. DEFINE r == [method |-> "psa_close", handle |-> h, out |-> <<>>]
  <2>2. r \in Requests
    BY <1>2 DEF Requests
  <2>3. Sent(r) = Encode("psa_close", <<h>>, <<>>) /\ r.method = "psa_close" /\ r.handle = h
    BY DEF Sent, Ints
  <2>. HIDE DEF r
  <2>4. Perform(r, Sent(r)) /\ known' = known \ {r.handle} /\ overrun' = FALSE
    BY <1>1, <1>6, <2>1, <2>3 DEF psa_close, r
  <2>. QED BY <2>1, <2>2, <2>3, <2>4
<1>7. CASE psa_call
  <2>1. PICK h \in known, type \in Types, in_vec \in CallerVecs("in"),
             out_vec \in CallerVecs("old") :
               IF Len(in_vec) + Len(out_vec) > PSA_MAX_IOVEC
               THEN /\ UNCHANGED <<client, wire, server, heap, spm, faults, overrun>>
                    /\ client.pc = "idle"
                    /\ ret' = [value |-> PSA_ERROR_PROGRAMMER_ERROR, outs |-> out_vec]
               ELSE /\ erpc_psa_call(h, type, in_vec, out_vec)
                    /\ overrun' = (overrun \/ CopiedPastEnd(in_vec, out_vec))
    BY <1>7 DEF psa_call
  <2>2. known' = known
    BY <1>7 DEF psa_call
  <2>3. CASE Len(in_vec) + Len(out_vec) > PSA_MAX_IOVEC
    BY <2>1, <2>2, <2>3 DEF Refusals
  <2>4. CASE ~(Len(in_vec) + Len(out_vec) > PSA_MAX_IOVEC)
    <3>. DEFINE r == [method |-> "erpc_psa_call", handle |-> h, type |-> type,
                      in |-> in_vec, out |-> out_vec]
    <3>1. Len(in_vec) \in Nat /\ Len(out_vec) \in Nat /\ PSA_MAX_IOVEC \in Nat
      BY CallerVecsType, ErpcAssumption
    <3>2. r \in Requests
      BY <1>2, <2>4, <3>1 DEF Requests
    <3>3. Sent(r) = Encode("erpc_psa_call", <<h, type>>, <<in_vec, out_vec>>)
          /\ r.method # "psa_close"
      BY DEF Sent, Ints
    <3>4. ~CopiedPastEnd(in_vec, out_vec)
      BY <2>4, <3>1 DEF CopiedPastEnd
    <3>. HIDE DEF r
    <3>5. Perform(r, Sent(r)) /\ overrun' = FALSE
      BY <1>1, <2>1, <2>4, <3>3, <3>4 DEF erpc_psa_call, r
    <3>. QED BY <2>2, <3>2, <3>3, <3>5
  <2>. QED BY <2>3, <2>4
<1>. QED BY <1>3, <1>4, <1>5, <1>6, <1>7 DEF ClientCalls

\* The client encodes a call and hands it to the transport.
LEMMA ClientCallsEInv ==
    ASSUME EInv, ClientCalls
    PROVE  EInv'
<1>1. CASE \E r \in Requests :
              /\ Perform(r, Sent(r)) /\ overrun' = FALSE
              /\ \/ r.method # "psa_close" /\ known' = known
                 \/ r.method = "psa_close" /\ r.handle \in known /\ known' = known \ {r.handle}
  BY <1>1, PerformEInv
<1>2. CASE UNCHANGED <<client, wire, server, heap, spm, known, faults, overrun>>
  <2>1. faults \in Seq(FaultKinds) /\ faults' = faults
    BY <1>2 DEF EInv, RecordsOK
  <2>. QED BY <1>2, <2>1, FaultsUnchanged, FrameEInv
<1>. QED BY <1>1, <1>2, CallMade

\* A call that failed in the client's codec or transport returns as an
\* error.
LEMMA ShimErrorEInv ==
    ASSUME EInv, shim_error
    PROVE  EInv'
<1>1. /\ client.pc = "failed" /\ client' = [pc |-> "idle", req |-> <<>>]
      /\ spm' = [spm EXCEPT !.done = <<>>]
      /\ UNCHANGED <<wire, server, heap, known, faults, overrun>>
  BY DEF shim_error, Finish
<1>2. wire = <<>> /\ server.pc \notin {"shim", "send"}
  BY <1>1 DEF EInv, WireOK, ServerOK
<1>3. /\ spm'.conns = spm.conns /\ spm'.done = <<>> /\ spm' = [conns |-> spm.conns, done |-> <<>>]
      /\ spm.conns \subseteq 1 .. MaxHandle /\ known \subseteq 1 .. MaxHandle
      /\ faults \in Seq(FaultKinds)
  BY <1>1 DEF EInv, RecordsOK
<1>4. client'.pc = "idle" /\ client' \in [pc : {"idle"}, req : {<<>>}]
  BY <1>1
<1>5. RecordsOK'
  BY <1>1, <1>3, <1>4 DEF EInv, RecordsOK
<1>6. CallOK' /\ WireOK' /\ ServerOK'
  BY <1>1, <1>2, <1>3, <1>4 DEF EInv, CallOK, WireOK, ServerOK, Unexecuted
<1>7. ConnectionsOK'
  <2>1. ~Closing /\ ~Opened /\ ~Closing' /\ ~Opened'
    BY <1>1, <1>4 DEF Closing, Opened
  <2>2. Cardinality(spm'.conns \ known') = Cardinality(spm.conns \ known)
    BY <1>1, <1>3
  <2>3. Cardinality(spm.conns \ known) <= Len(faults) + 0
    BY <2>1 DEF EInv, ConnectionsOK
  <2>. QED BY <1>1, <1>3, <2>1, <2>2, <2>3 DEF EInv, ConnectionsOK
<1>8. NoOverrun' /\ HeapBalanced' /\ StopsOnlyOnFault'
  BY <1>1 DEF EInv, NoOverrun, HeapBalanced, StopsOnlyOnFault
<1>. QED BY <1>5, <1>6, <1>7, <1>8 DEF EInv

(***************************************************************************)
(* What the client finds on the wire when a reply has come: the reply to   *)
(* its request.                                                            *)
(***************************************************************************)
LEMMA ReplyArrived ==
    ASSUME EInv, wire # <<>>, Head(wire).kind = "reply"
    PROVE  /\ client.pc = "wait" /\ client.req \in Requests
           /\ server.pc \notin {"shim", "send"}
           /\ \E o : \E intact \in BOOLEAN :
                 /\ Executed(o) /\ wire = <<Arrived(Reply(client.req, o), intact)>>
                 /\ ~intact => faults # <<>>
<1>1. client.pc = "wait" /\ server.pc \notin {"shim", "send"}
  BY DEF EInv, WireOK
<1>2. client.req \in Requests
  BY <1>1 DEF EInv, RecordsOK
<1>3. PICK intact \in BOOLEAN :
             /\ ~intact => faults # <<>>
             /\ \/ Unexecuted /\ wire = <<Arrived(Sent(client.req), intact)>>
                \/ \E o : Executed(o) /\ wire = <<Arrived(Reply(client.req, o), intact)>>
  BY DEF EInv, WireOK
<1>4. wire # <<Arrived(Sent(client.req), intact)>>
  <2>1. Arrived(Sent(client.req), intact).kind = "invocation"
    <3>1. Sent(client.req).kind = "invocation"
      BY MessagesIntact, Zenon
    <3>. QED BY <3>1 DEF Arrived
  <2>. QED BY <2>1
<1>. QED BY <1>1, <1>2, <1>3, <1>4

(***************************************************************************)
(* And when a request has come, the server finds the request of the call   *)
(* in progress.                                                            *)
(***************************************************************************)
LEMMA RequestArrived ==
    ASSUME EInv, wire # <<>>, Head(wire).kind = "invocation"
    PROVE  /\ client.pc = "wait" /\ client.req \in Requests /\ Unexecuted
           /\ server.pc \notin {"shim", "send"}
           /\ \E intact \in BOOLEAN :
                 /\ wire = <<Arrived(Sent(client.req), intact)>>
                 /\ ~intact => faults # <<>>
<1>1. client.pc = "wait" /\ server.pc \notin {"shim", "send"}
  BY DEF EInv, WireOK
<1>2. client.req \in Requests
  BY <1>1 DEF EInv, RecordsOK
<1>3. PICK intact \in BOOLEAN :
             /\ ~intact => faults # <<>>
             /\ \/ Unexecuted /\ wire = <<Arrived(Sent(client.req), intact)>>
                \/ \E o : Executed(o) /\ wire = <<Arrived(Reply(client.req, o), intact)>>
  BY DEF EInv, WireOK
<1>4. ASSUME NEW o PROVE wire # <<Arrived(Reply(client.req, o), intact)>>
  <2>1. Arrived(Reply(client.req, o), intact).kind = "reply"
    <3>1. Reply(client.req, o).kind = "reply"
      BY MessagesIntact, Zenon
    <3>. QED BY <3>1 DEF Arrived
  <2>. QED BY <2>1
<1>. QED BY <1>1, <1>2, <1>3, <1>4

(***************************************************************************)
(* What is in a reply: the value and the vectors of the outcome.           *)
(***************************************************************************)
LEMMA ReplyContent ==
    ASSUME NEW r \in Requests, NEW o \in PsaOutcomes(r), NEW msg, NEW intact,
           msg = Arrived(Reply(r, o), intact)
    PROVE  /\ msg.crc = intact /\ msg.kind = "reply" /\ msg.method = r.method
           /\ (IF msg.ints = <<>> THEN 0 ELSE msg.ints[1]) = o.value
           /\ r.method # "erpc_psa_call" => msg.lists = <<>> /\ o.outs = <<>>
           /\ r.method = "erpc_psa_call" => msg.lists = <<o.outs>>
<1>. DEFINE ints == IF r.method = "psa_close" THEN <<>> ELSE <<o.value>>
            lists == IF r.method = "erpc_psa_call" THEN <<o.outs>> ELSE <<>>
<1>1. Reply(r, o) = EncodeReply(r.method, ints, lists)
  BY DEF Reply
<1>2. ints # <<>> => ints = <<o.value>>
  OBVIOUS
<1>3. ints = <<>> => o.value = 0
  BY OutcomeType
<1>4. msg.ints = ints /\ msg.lists = lists /\ msg.crc = intact /\ msg.kind = "reply"
      /\ msg.method = r.method
  <2>. HIDE DEF ints, lists
  <2>. QED BY <1>1 DEF Arrived, EncodeReply, Encode
<1>5. (IF ints = <<>> THEN 0 ELSE ints[1]) = o.value
  BY <1>3
<1>6. r.method # "erpc_psa_call" => lists = <<>> /\ o.outs = <<>>
  BY OutcomeType
<1>. HIDE DEF ints
<1>7. (IF msg.ints = <<>> THEN 0 ELSE msg.ints[1]) = o.value
  BY <1>4, <1>5, Zenon
<1>8. r.method = "erpc_psa_call" => lists = <<o.outs>>
  OBVIOUS
<1>. HIDE DEF lists
<1>. QED BY <1>4, <1>6, <1>7, <1>8

(***************************************************************************)
(* The end of a shim whose reply has come: the outcome fits the caller's   *)
(* buffers, and a connection that was opened is now the client's too.      *)
(***************************************************************************)
LEMMA ShimResultEInv ==
    ASSUME EInv, shim_result
    PROVE  EInv'
<1>1. /\ client.pc = "wait" /\ wire # <<>> /\ Head(wire).kind = "reply" /\ wire' = Tail(wire)
      /\ UNCHANGED <<server, heap, faults>>
  BY DEF shim_result
<1>2. client.req \in Requests /\ server.pc \notin {"shim", "send"}
  BY <1>1, ReplyArrived
<1>3. PICK o : \E intact \in BOOLEAN :
                 /\ Executed(o) /\ wire = <<Arrived(Reply(client.req, o), intact)>>
                 /\ ~intact => faults # <<>>
  BY <1>1, ReplyArrived
<1>4. PICK intact \in BOOLEAN : wire = <<Arrived(Reply(client.req, o), intact)>>
  BY <1>3
<1>5. wire' = <<>> /\ Head(wire) = Arrived(Reply(client.req, o), intact)
  BY <1>1, <1>4
<1>6. o \in PsaOutcomes(client.req) /\ spm.done = <<[req |-> client.req, outcome |-> o]>>
  BY <1>3 DEF Executed
<1>. DEFINE msg == Head(wire)
            value == IF msg.ints = <<>> THEN 0 ELSE msg.ints[1]
            outs == IF msg.lists = <<>> THEN <<>> ELSE read_list_binary(msg.lists[1])
<1>7. /\ msg.crc = intact /\ msg.method = client.req.method /\ value = o.value
      /\ client.req.method # "erpc_psa_call" => msg.lists = <<>> /\ o.outs = <<>>
      /\ client.req.method = "erpc_psa_call" => msg.lists = <<o.outs>>
  <2>. HIDE DEF msg
  <2>. QED BY <1>2, <1>5, <1>6, ReplyContent DEF msg
<1>8. StopsOnlyOnFault' /\ HeapBalanced' /\ ServerOK'
  BY <1>1, <1>2 DEF EInv, StopsOnlyOnFault, HeapBalanced, ServerOK
<1>9. WireOK'
  BY <1>5 DEF WireOK
<1>10. /\ spm.conns \subseteq 1 .. MaxHandle /\ known \subseteq 1 .. MaxHandle
       /\ known \subseteq spm.conns /\ (spm.conns # {} => BufferSize >= 4)
       /\ Len(faults) \in Nat /\ overrun = FALSE
       /\ spm = [conns |-> spm.conns, done |-> spm.done]
  BY DEF EInv, RecordsOK, ConnectionsOK, NoOverrun
<1>11. ~Closing /\ (Intact => intact)
  <2>1. ~Closing
    BY <1>6 DEF Closing, Unexecuted
  <2>2. Intact => intact
    BY <1>1, <1>7 DEF Intact
  <2>. QED BY <2>1, <2>2
<1>12. CASE ~intact
  <2>1. /\ client' = [client EXCEPT !.pc = "failed"]
        /\ UNCHANGED <<ret, spm, known, calls, overrun>>
    BY <1>7, <1>12 DEF shim_result
  <2>2. /\ client'.pc = "failed" /\ client'.req = client.req
        /\ client' \in [pc : {"wait", "failed"}, req : Requests]
    BY <1>1, <1>2, <2>1 DEF EInv, RecordsOK
  <2>3. RecordsOK'
    BY <1>1, <2>1, <2>2 DEF EInv, RecordsOK
  <2>4. CallOK'
    <3>1. Executed(o)'
      BY <1>6, <2>1, <2>2 DEF Executed, PsaOutcomes, OutsFor
    <3>. QED BY <2>2, <3>1 DEF CallOK
  <2>5. ConnectionsOK'
    <3>1. ~Closing' /\ ~Opened'
      BY <2>2 DEF Closing, Opened
    <3>2. Cardinality(spm.conns \ known) <= Len(faults) + 0
      BY <1>11, <1>12 DEF EInv, ConnectionsOK
    <3>3. Cardinality(spm'.conns \ known') = Cardinality(spm.conns \ known)
      BY <2>1
    <3>. QED BY <1>1, <1>10, <2>1, <3>1, <3>2, <3>3 DEF ConnectionsOK
  <2>6. NoOverrun'
    BY <2>1 DEF EInv, NoOverrun
  <2>. QED BY <1>8, <1>9, <2>3, <2>4, <2>5, <2>6 DEF EInv
<1>13. CASE intact
  <2>1. /\ Finish(value, CallerOuts(value, outs))
        /\ known' = known \cup (IF msg.method = "psa_connect" /\ value > 0 THEN {value} ELSE {})
        /\ overrun' = (overrun \/ \E i \in DOMAIN outs : outs[i].len > client.req.out[i].len)
    BY <1>7, <1>13 DEF shim_result
  <2>2. client' = [pc |-> "idle", req |-> <<>>] /\ spm' = [conns |-> spm.conns, done |-> <<>>]
    BY <1>10, <2>1 DEF Finish
  <2>3. client'.pc = "idle" /\ client' \in [pc : {"idle"}, req : {<<>>}]
    BY <2>2
  <2>4. overrun' = FALSE
    <3>1. CASE client.req.method # "erpc_psa_call"
      <4>1. DOMAIN outs = {}
        BY <1>7, <3>1
      <4>. HIDE DEF outs
      <4>. QED BY <1>10, <2>1, <4>1
    <3>2. CASE client.req.method = "erpc_psa_call"
      <4>1. PICK n \in Nat : /\ o.outs \in [1 .. n -> [data : {"new"}, len : Nat]]
                             /\ client.req.out \in [1 .. n -> [data : {"old"}, len : Nat]]
                             /\ \A i \in 1 .. n : o.outs[i].len <= client.req.out[i].len
        BY <1>2, <1>6, <3>2, OutcomeType
      <4>2. outs = [i \in 1 .. n |-> Vec(o.outs[i].data, o.outs[i].len)]
        <5>1. outs = read_list_binary(o.outs)
          <6>1. msg.lists # <<>> /\ msg.lists[1] = o.outs
            BY <1>7, <3>2
          <6>. HIDE DEF msg
          <6>. QED BY <6>1, Zenon
        <5>. QED BY <4>1, <5>1 DEF read_list_binary
      <4>. HIDE DEF outs
      <4>3. ASSUME NEW i \in DOMAIN outs PROVE ~(outs[i].len > client.req.out[i].len)
        <5>1. i \in 1 .. n /\ outs[i].len = o.outs[i].len
          BY <4>2 DEF Vec
        <5>2. o.outs[i] \in [data : {"new"}, len : Nat]
              /\ client.req.out[i] \in [data : {"old"}, len : Nat]
          BY <4>1, <5>1
        <5>. QED BY <4>1, <5>1, <5>2
      <4>. QED BY <1>10, <2>1, <4>3
    <3>. QED BY <3>1, <3>2
  <2>5. /\ spm'.conns = spm.conns /\ spm'.done = <<>>
    BY <2>2
  <2>6. ~Closing' /\ ~Opened'
    BY <2>3 DEF Closing, Opened
  <2>. HIDE DEF value, outs, msg
  <2>7. CASE client.req.method = "psa_connect" /\ o.value > 0
    <3>1. known' = known \cup {o.value}
      BY <1>7, <2>1, <2>7
    <3>2. Opened /\ spm.done[1].outcome.value = o.value
      BY <1>1, <1>6, <2>7 DEF Opened, Unexecuted
    <3>3. o.value \in spm.conns \ known
      BY <3>2 DEF EInv, ConnectionsOK
    <3>. DEFINE left == spm.conns \ known
    <3>4. Cardinality(left) <= Len(faults) + 1 /\ Cardinality(left) \in Nat
      <4>1. left \subseteq 1 .. MaxHandle
        BY <1>10
      <4>2. Cardinality(left) \in Nat
        <5>. HIDE DEF left
        <5>. QED BY <4>1, ConnectionsFinite
      <4>3. (IF Intact /\ (Closing \/ Opened) THEN 1 ELSE 0) \in {0, 1}
        OBVIOUS
      <4>4. Cardinality(left) <= Len(faults) + (IF Intact /\ (Closing \/ Opened) THEN 1 ELSE 0)
        BY DEF EInv, ConnectionsOK
      <4>. HIDE DEF left
      <4>. QED BY <1>10, <4>2, <4>3, <4>4
    <3>5. spm'.conns \ known' = left \ {o.value}
      BY <2>5, <3>1
    <3>6. Cardinality(left \ {o.value}) = Cardinality(left) - 1
      <4>1. left \subseteq 1 .. MaxHandle /\ o.value \in left /\ o.value \in 1 .. MaxHandle
        BY <1>10, <3>3
      <4>. HIDE DEF left
      <4>. QED BY <4>1, ConnectionsFinite
    <3>7. Cardinality(spm'.conns \ known') <= Len(faults)
      <4>. HIDE DEF left
      <4>1. Cardinality(spm'.conns \ known') = Cardinality(left \ {o.value})
        BY <3>5, Zenon
      <4>. HIDE DEF left
      <4>. QED BY <1>10, <3>4, <3>6, <4>1
    <3>8. ConnectionsOK'
      BY <1>1, <1>10, <2>5, <2>6, <3>1, <3>3, <3>7 DEF ConnectionsOK
    <3>9. RecordsOK'
      BY <1>1, <1>10, <2>2, <2>3, <2>4, <3>1, <3>3 DEF EInv, RecordsOK
    <3>10. CallOK'
      BY <2>3, <2>5 DEF CallOK, Unexecuted
    <3>. QED BY <1>8, <1>9, <2>4, <3>8, <3>9, <3>10 DEF EInv, NoOverrun
  <2>8. CASE ~(client.req.method = "psa_connect" /\ o.value > 0)
    <3>1. known' = known
      BY <1>7, <2>1, <2>8
    <3>2. ~Opened
      BY <1>6, <2>8 DEF Opened
    <3>3. Cardinality(spm.conns \ known) <= Len(faults) + 0
      BY <1>11, <3>2 DEF EInv, ConnectionsOK
    <3>4. Cardinality(spm'.conns \ known') = Cardinality(spm.conns \ known)
      BY <2>5, <3>1
    <3>5. ConnectionsOK'
      BY <1>1, <1>10, <2>5, <2>6, <3>1, <3>3, <3>4 DEF ConnectionsOK
    <3>6. RecordsOK'
      BY <1>1, <1>10, <2>2, <2>3, <2>4, <3>1 DEF EInv, RecordsOK
    <3>7. CallOK'
      BY <2>3, <2>5 DEF CallOK, Unexecuted
    <3>. QED BY <1>8, <1>9, <2>4, <3>5, <3>6, <3>7 DEF EInv, NoOverrun
  <2>. QED BY <2>7, <2>8
<1>. QED BY <1>12, <1>13

(***************************************************************************)
(* The start of the server and its loop around the shims.                  *)
(***************************************************************************)
LEMMA ServerStartEInv ==
    ASSUME EInv, erpc_server_start
    PROVE  EInv'
<1>1. server.pc = "off" /\ UNCHANGED <<client, wire, heap, spm, known, overrun>>
  BY DEF erpc_server_start
<1>2. /\ faults \in Seq(FaultKinds) /\ server.service \in BOOLEAN
      /\ server = [pc |-> server.pc, service |-> server.service, msg |-> server.msg]
  BY DEF EInv, RecordsOK
<1>3. /\ server' = [pc |-> server'.pc, service |-> server'.service, msg |-> server'.msg]
      /\ server'.pc \in {"receive", "undefined"} /\ server'.service \in BOOLEAN
  BY <1>2 DEF erpc_server_start
<1>4. /\ FaultsKept /\ (~server'.service => server.service = FALSE \/ faults' # <<>>)
      /\ server'.pc = "undefined" =>
            \E i \in DOMAIN faults' : faults'[i] = "server_transport"
  <2>1. CASE UNCHANGED faults /\ server' = [server EXCEPT !.pc = "receive"]
    BY <1>2, <2>1, FaultsUnchanged
  <2>2. CASE Fault("server_transport") /\ server' = [server EXCEPT !.pc = "undefined"]
    <3>1. "server_transport" \in FaultKinds
      BY DEF FaultKinds
    <3>. QED BY <1>2, <2>2, <3>1, FaultAdded
  <2>3. CASE Fault("server_service") /\ server' = [server EXCEPT !.pc = "receive", !.service = FALSE]
    <3>1. "server_service" \in FaultKinds
      BY DEF FaultKinds
    <3>2. server'.pc = "receive"
      BY <1>2, <2>3
    <3>. QED BY <1>2, <2>3, <3>1, <3>2, FaultAdded
  <2>. QED BY <2>1, <2>2, <2>3 DEF erpc_server_start
<1>5. faults # <<>> => faults' # <<>>
  <2>1. Len(faults) \in Nat /\ Len(faults') \in Nat /\ Len(faults') >= Len(faults)
    BY <1>2, <1>4 DEF FaultsKept
  <2>2. faults # <<>> => Len(faults) > 0
    BY <1>2
  <2>. QED BY <2>1, <2>2
<1>6. Unexecuted' = Unexecuted /\ \A o : Executed(o)' = Executed(o)
  BY <1>1 DEF Unexecuted, Executed, PsaOutcomes, OutsFor
<1>7. RecordsOK'
  BY <1>1, <1>3, <1>4 DEF EInv, RecordsOK, FaultsKept
<1>8. CallOK'
  BY <1>1, <1>6 DEF EInv, CallOK
<1>9. WireOK'
  BY <1>1, <1>3, <1>5, <1>6 DEF EInv, WireOK
<1>10. ServerOK'
  BY <1>1, <1>3, <1>4, <1>5 DEF EInv, ServerOK
<1>11. ConnectionsOK'
  <2>1. Intact' = Intact
    BY <1>1 DEF Intact
  <2>. QED BY <1>1, <1>4, <2>1, ConnectionsKept DEF EInv
<1>12. NoOverrun' /\ HeapBalanced'
  BY <1>1 DEF EInv, NoOverrun, HeapBalanced
<1>13. StopsOnlyOnFault'
  BY <1>3, <1>4 DEF StopsOnlyOnFault
<1>. QED BY <1>7, <1>8, <1>9, <1>10, <1>11, <1>12, <1>13 DEF EInv

\* The server takes a message off the wire, whole or damaged.
LEMMA ServerReceiveEInv ==
    ASSUME EInv, server_receive
    PROVE  EInv'
<1>1. /\ server.pc = "receive" /\ wire # <<>> /\ Head(wire).kind = "invocation"
      /\ wire' = Tail(wire) /\ UNCHANGED <<client, heap, spm, known, overrun>>
  BY DEF server_receive
<1>2. client.pc = "wait" /\ client.req \in Requests /\ Unexecuted
  BY <1>1, RequestArrived
<1>3. PICK intact \in BOOLEAN : /\ wire = <<Arrived(Sent(client.req), intact)>>
                                /\ ~intact => faults # <<>>
  BY <1>1, RequestArrived
<1>4. wire' = <<>> /\ Head(wire) = Arrived(Sent(client.req), intact) /\ Head(wire).crc = intact
  BY <1>1, <1>3 DEF Arrived
<1>5. /\ faults \in Seq(FaultKinds) /\ server.service \in BOOLEAN
      /\ server = [pc |-> server.pc, service |-> server.service, msg |-> server.msg]
      /\ ~server.service => faults # <<>>
  BY DEF EInv, RecordsOK, ServerOK
<1>6. \/ /\ server' = [pc |-> "shim", service |-> server.service, msg |-> Sent(client.req)]
         /\ faults' = faults
      \/ /\ server' = [pc |-> "stopped", service |-> server.service, msg |-> server'.msg]
         /\ FaultsKept /\ faults' # <<>>
  <2>1. CASE /\ server' = [server EXCEPT !.msg = Head(wire),
                             !.pc = IF Head(wire).crc /\ server.service THEN "shim" ELSE "stopped"]
             /\ UNCHANGED faults
    <3>1. CASE intact /\ server.service
      <4>1. Head(wire) = Sent(client.req)
        <5>1. intact = TRUE
          BY <3>1
        <5>2. Arrived(Sent(client.req), TRUE) = Sent(client.req)
          BY MessagesIntact, Zenon
        <5>. QED BY <1>4, <5>1, <5>2, Zenon
      <4>2. server' = [server EXCEPT !.msg = Sent(client.req), !.pc = "shim"]
        BY <1>4, <2>1, <3>1, <4>1
      <4>. QED BY <1>5, <2>1, <4>2
    <3>2. CASE ~(intact /\ server.service)
      <4>1. server' = [server EXCEPT !.msg = Head(wire), !.pc = "stopped"]
        BY <1>4, <2>1, <3>2
      <4>2. faults' # <<>>
        BY <1>3, <1>5, <2>1, <3>2
      <4>3. server'.pc = "stopped" /\ server'.service = server.service
            /\ server' = [pc |-> "stopped", service |-> server.service, msg |-> server'.msg]
        BY <1>5, <4>1
      <4>. QED BY <1>5, <2>1, <4>2, <4>3, FaultsUnchanged
    <3>. QED BY <3>1, <3>2
  <2>2. CASE Fault("server_codec") /\ server' = [server EXCEPT !.pc = "stopped"]
    <3>1. "server_codec" \in FaultKinds
      BY DEF FaultKinds
    <3>2. FaultsKept /\ faults' # <<>>
      BY <1>5, <2>2, <3>1, FaultAdded
    <3>3. server' = [pc |-> "stopped", service |-> server.service, msg |-> server'.msg]
      BY <1>5, <2>2
    <3>. QED BY <3>2, <3>3
  <2>. QED BY <2>1, <2>2 DEF server_receive
<1>7. /\ FaultsKept /\ server'.service = server.service /\ server'.pc \in {"shim", "stopped"}
      /\ server' = [pc |-> server'.pc, service |-> server'.service, msg |-> server'.msg]
      /\ server'.pc = "shim" => server'.msg = Sent(client.req)
      /\ server'.pc = "stopped" => faults' # <<>>
  BY <1>5, <1>6, FaultsUnchanged
<1>8. faults # <<>> => faults' # <<>>
  BY <1>6
<1>9. Unexecuted' /\ \A o : Executed(o)' = Executed(o)
  BY <1>1, <1>2 DEF Unexecuted, Executed, PsaOutcomes, OutsFor
<1>10. RecordsOK'
  BY <1>1, <1>5, <1>7 DEF EInv, RecordsOK, FaultsKept
<1>11. CallOK'
  BY <1>1, <1>9 DEF EInv, CallOK
<1>12. WireOK'
  BY <1>4 DEF WireOK
<1>13. ServerOK'
  BY <1>1, <1>2, <1>4, <1>5, <1>7, <1>8, <1>9 DEF ServerOK
<1>14. ConnectionsOK'
  <2>1. Intact'
    BY <1>4 DEF Intact
  <2>. QED BY <1>1, <1>7, <2>1, ConnectionsKept DEF EInv
<1>15. NoOverrun' /\ HeapBalanced'
  BY <1>1 DEF EInv, NoOverrun, HeapBalanced
<1>16. StopsOnlyOnFault'
  BY <1>7 DEF StopsOnlyOnFault
<1>. QED BY <1>10, <1>11, <1>12, <1>13, <1>14, <1>15, <1>16 DEF EInv

\* The server's answer goes back to the client.
LEMMA ServerSendEInv ==
    ASSUME EInv, server_send
    PROVE  EInv'
<1>1. server.pc = "send" /\ UNCHANGED <<client, heap, spm, known, overrun>>
  BY DEF server_send
<1>2. client.pc = "wait" /\ wire = <<>>
  BY <1>1 DEF EInv, ServerOK
<1>3. PICK o : Executed(o) /\ server.msg = Reply(client.req, o)
  BY <1>1 DEF EInv, ServerOK
<1>4. /\ faults \in Seq(FaultKinds) /\ server.service \in BOOLEAN
      /\ server = [pc |-> server.pc, service |-> server.service, msg |-> server.msg]
      /\ ~server.service => faults # <<>>
  BY DEF EInv, RecordsOK, ServerOK
<1>5. \/ /\ wire' = <<Arrived(Reply(client.req, o), TRUE)>>
         /\ server' = [server EXCEPT !.pc = "receive"] /\ faults' = faults
      \/ /\ wire' = <<>> /\ server' = [server EXCEPT !.pc = "stopped"]
         /\ FaultsKept /\ faults' # <<>>
  <2>1. Arrived(Reply(client.req, o), TRUE) = Reply(client.req, o)
    BY MessagesIntact, Zenon
  <2>2. CASE wire' = Append(wire, server.msg) /\ server' = [server EXCEPT !.pc = "receive"]
             /\ UNCHANGED faults
    <3>1. wire' = <<server.msg>>
      BY <1>2, <2>2
    <3>2. wire' = <<Arrived(Reply(client.req, o), TRUE)>>
      BY <1>3, <2>1, <3>1, Zenon
    <3>. QED BY <2>2, <3>2
  <2>3. CASE Fault("server_send") /\ server' = [server EXCEPT !.pc = "stopped"]
             /\ UNCHANGED wire
    <3>1. "server_send" \in FaultKinds
      BY DEF FaultKinds
    <3>. QED BY <1>2, <1>4, <2>3, <3>1, FaultAdded
  <2>. QED BY <2>2, <2>3 DEF server_send
<1>6. /\ FaultsKept /\ server'.service = server.service /\ server'.pc \in {"receive", "stopped"}
      /\ server' = [pc |-> server'.pc, service |-> server'.service, msg |-> server'.msg]
      /\ server'.pc = "stopped" => faults' # <<>>
  <2>1. server'.service = server.service /\ server'.pc \in {"receive", "stopped"}
        /\ server' = [pc |-> server'.pc, service |-> server'.service, msg |-> server'.msg]
    BY <1>4, <1>5
  <2>2. server'.pc = "stopped" => faults' # <<>>
    BY <1>4, <1>5
  <2>. QED BY <1>4, <1>5, <2>1, <2>2, FaultsUnchanged
<1>7. faults # <<>> => faults' # <<>>
  BY <1>5
<1>8. Executed(o)' /\ (Unexecuted' = Unexecuted)
  BY <1>1, <1>3 DEF Unexecuted, Executed, PsaOutcomes, OutsFor
<1>9. RecordsOK'
  BY <1>1, <1>4, <1>6 DEF EInv, RecordsOK, FaultsKept
<1>10. CallOK'
  BY <1>1, <1>8 DEF EInv, CallOK
<1>11. WireOK'
  <2>1. CASE wire' = <<>>
    BY <2>1 DEF WireOK
  <2>2. CASE wire' = <<Arrived(Reply(client.req, o), TRUE)>>
    <3>1. wire' = <<Arrived(Reply(client'.req, o), TRUE)>>
      BY <1>1, <2>2, Zenon
    <3>2. client'.pc = "wait" /\ server'.pc \notin {"shim", "send"}
      BY <1>1, <1>2, <1>6
    <3>. QED BY <1>8, <3>1, <3>2 DEF WireOK
  <2>. QED BY <1>5, <2>1, <2>2
<1>12. ServerOK'
  BY <1>4, <1>6, <1>7 DEF ServerOK
<1>13. ConnectionsOK'
  <2>1. Intact'
    BY <1>5 DEF Intact, Arrived
  <2>. QED BY <1>1, <1>6, <2>1, ConnectionsKept DEF EInv
<1>14. NoOverrun' /\ HeapBalanced'
  BY <1>1 DEF EInv, NoOverrun, HeapBalanced
<1>15. StopsOnlyOnFault'
  BY <1>6 DEF StopsOnlyOnFault
<1>. QED BY <1>9, <1>10, <1>11, <1>12, <1>13, <1>14, <1>15 DEF EInv

\* Damage changes a message in nothing but whether its CRC agrees.
LEMMA MessageDamaged ==
    ASSUME NEW m, NEW crc, NEW damaged
    PROVE  [Arrived(m, crc) EXCEPT !.crc = damaged] = Arrived(m, damaged)
BY DEF Arrived

(***************************************************************************)
(* A message is lost or damaged.                                           *)
(***************************************************************************)
LEMMA WireEInv ==
    ASSUME EInv, wire_lose \/ wire_damage
    PROVE  EInv'
<1>1. wire # <<>> /\ UNCHANGED <<client, server, heap, spm, known, overrun>>
  BY DEF wire_lose, wire_damage
<1>2. client.pc = "wait" /\ server.pc \notin {"shim", "send"}
  BY <1>1 DEF EInv, WireOK
<1>3. faults \in Seq(FaultKinds)
  BY DEF EInv, RecordsOK
<1>4. FaultsKept /\ faults' # <<>> /\ Len(faults') = Len(faults) + 1
  <2>1. "lost" \in FaultKinds /\ "damaged" \in FaultKinds
    BY DEF FaultKinds
  <2>. QED BY <1>3, <2>1, FaultAdded DEF wire_lose, wire_damage
<1>5. Unexecuted' = Unexecuted /\ \A o : Executed(o)' = Executed(o)
  BY <1>1 DEF Unexecuted, Executed, PsaOutcomes, OutsFor
<1>6. RecordsOK'
  BY <1>1, <1>4 DEF EInv, RecordsOK, FaultsKept
<1>7. CallOK'
  BY <1>1, <1>5 DEF EInv, CallOK
<1>8. WireOK'
  <2>1. ASSUME NEW m, NEW intact \in BOOLEAN, wire = <<Arrived(m, intact)>>
        PROVE  wire' = <<>> \/ wire' = <<Arrived(m, FALSE)>>
    <3>1. CASE wire_lose
      BY <2>1, <3>1 DEF wire_lose
    <3>2. CASE wire_damage
      <4>1. Head(wire) = Arrived(m, intact) /\ Tail(wire) = <<>>
        BY <2>1
      <4>2. [Head(wire) EXCEPT !.crc = FALSE] = Arrived(m, FALSE)
        <5>1. [Arrived(m, intact) EXCEPT !.crc = FALSE] = Arrived(m, FALSE)
          BY MessageDamaged, Zenon
        <5>. QED BY <4>1, <5>1, Zenon
      <4>3. wire' = <<Arrived(m, FALSE)>> \o <<>>
        <5>1. wire' = <<[Head(wire) EXCEPT !.crc = FALSE]>> \o Tail(wire)
          BY <3>2 DEF wire_damage
        <5>. QED BY <4>1, <4>2, <5>1, Zenon
      <4>. QED BY <4>3
    <3>. QED BY <3>1, <3>2
  <2>2. PICK intact \in BOOLEAN :
               \/ Unexecuted /\ wire = <<Arrived(Sent(client.req), intact)>>
               \/ \E o : Executed(o) /\ wire = <<Arrived(Reply(client.req, o), intact)>>
    BY <1>1 DEF EInv, WireOK
  <2>3. client' = client /\ server' = server
    BY <1>1
  <2>4. CASE Unexecuted /\ wire = <<Arrived(Sent(client.req), intact)>>
    <3>1. wire' = <<>> \/ wire' = <<Arrived(Sent(client'.req), FALSE)>>
      BY <2>1, <2>3, <2>4, Zenon
    <3>. QED BY <1>2, <1>4, <1>5, <2>3, <2>4, <3>1 DEF WireOK
  <2>5. ASSUME NEW o, Executed(o), wire = <<Arrived(Reply(client.req, o), intact)>>
        PROVE  WireOK'
    <3>1. wire' = <<>> \/ wire' = <<Arrived(Reply(client'.req, o), FALSE)>>
      BY <2>1, <2>3, <2>5, Zenon
    <3>. QED BY <1>2, <1>4, <1>5, <2>3, <2>5, <3>1 DEF WireOK
  <2>. QED BY <2>2, <2>4, <2>5
<1>9. ServerOK'
  BY <1>1, <1>2, <1>4 DEF ServerOK
<1>10. ConnectionsOK'
  BY <1>1, <1>4, ConnectionsKept DEF EInv
<1>11. NoOverrun' /\ HeapBalanced'
  BY <1>1 DEF EInv, NoOverrun, HeapBalanced
<1>12. StopsOnlyOnFault'
  BY <1>1, <1>3, <1>4, StopsKept DEF EInv
<1>. QED BY <1>6, <1>7, <1>8, <1>9, <1>10, <1>11, <1>12 DEF EInv

(***************************************************************************)
(* A request in the server's shim is the client's, not executed so far.    *)
(***************************************************************************)
LEMMA InShim ==
    ASSUME EInv, server.pc = "shim"
    PROVE  /\ client.pc = "wait" /\ client.req \in Requests /\ wire = <<>> /\ Unexecuted
           /\ server.msg = Sent(client.req) /\ server.msg.method = client.req.method
           /\ MessageSize(Sent(client.req)) <= BufferSize
<1>1. client.pc = "wait" /\ wire = <<>> /\ Unexecuted /\ server.msg = Sent(client.req)
  BY DEF EInv, ServerOK
<1>2. client.req \in Requests /\ MessageSize(Sent(client.req)) <= BufferSize
  BY <1>1 DEF EInv, RecordsOK, CallOK
<1>3. Sent(client.req).method = client.req.method
  BY MessagesIntact, Zenon
<1>. QED BY <1>1, <1>2, <1>3

(***************************************************************************)
(* The secure side executes a request: what becomes of the connections.    *)
(***************************************************************************)
LEMMA ExecuteConnections ==
    ASSUME EInv, server.pc = "shim", NEW o \in PsaOutcomes(client.req),
           PsaExecute(client.req, o), UNCHANGED <<client, wire, known>>, FaultsKept
    PROVE  /\ ConnectionsOK' /\ spm'.conns \subseteq 1 .. MaxHandle
           /\ spm' = [conns |-> spm'.conns, done |-> spm'.done] /\ Executed(o)'
<1>. DEFINE r == client.req
            left == spm.conns \ known
<1>1. /\ client.pc = "wait" /\ r \in Requests /\ wire = <<>> /\ Unexecuted
      /\ MessageSize(Sent(r)) <= BufferSize
  BY InShim
<1>2. spm'.done = <<[req |-> r, outcome |-> o]>>
  BY <1>1 DEF PsaExecute, Unexecuted
<1>3. spm' = [conns |-> spm'.conns, done |-> spm'.done]
  BY DEF PsaExecute
<1>4. Executed(o)'
  BY <1>2 DEF Executed, PsaOutcomes, OutsFor
<1>5. /\ known \subseteq spm.conns /\ spm.conns \subseteq 1 .. MaxHandle
      /\ (spm.conns # {} => BufferSize >= 4)
      /\ Len(faults) \in Nat /\ Len(faults') \in Nat /\ Len(faults') >= Len(faults)
  BY DEF EInv, RecordsOK, ConnectionsOK, FaultsKept
<1>6. left \subseteq 1 .. MaxHandle /\ Cardinality(left) \in Nat
  <2>1. left \subseteq 1 .. MaxHandle
    BY <1>5
  <2>. HIDE DEF left
  <2>. QED BY <2>1, ConnectionsFinite
<1>7. Intact /\ Intact' /\ ~Opened /\ ~Closing'
  BY <1>1, <1>2 DEF Intact, Opened, Closing, Unexecuted
<1>8. Opened' <=> (r.method = "psa_connect" /\ o.value > 0)
  BY <1>1, <1>2 DEF Opened, Unexecuted
<1>9. Closing <=> r.method = "psa_close"
  BY <1>1 DEF Closing
<1>10. r.method = "psa_connect" /\ o.value > 0 => o.value \in 1 .. MaxHandle
  BY <1>1, OutcomeType
<1>11. CASE r.method = "psa_connect" /\ o.value > 0
  <2>1. spm'.conns = spm.conns \cup {o.value} /\ o.value \notin spm.conns
    BY <1>11 DEF PsaExecute
  <2>2. BufferSize >= 4
    BY <1>1, <1>11, ConnectionSizes, ErpcAssumption
  <2>3. Cardinality(left) <= Len(faults) + 0
    BY <1>7, <1>9, <1>11 DEF EInv, ConnectionsOK
  <2>4. spm'.conns \ known' = left \cup {o.value}
    BY <1>5, <2>1
  <2>5. Cardinality(spm'.conns \ known') <= Cardinality(left) + 1
        /\ Cardinality(spm'.conns \ known') \in Nat
    <3>. HIDE DEF left
    <3>1. left \cup {o.value} \subseteq 1 .. MaxHandle
      BY <1>6, <1>10, <1>11
    <3>2. Cardinality(left \cup {o.value}) <= Cardinality(left) + 1
          /\ Cardinality(left \cup {o.value}) \in Nat
      BY <1>6, <1>10, <1>11, <3>1, ConnectionsFinite
    <3>. QED BY <2>4, <3>2, Zenon
  <2>6. Cardinality(spm'.conns \ known') <= Len(faults') + 1
    <3>. HIDE DEF left
    <3>. QED BY <1>5, <1>6, <2>3, <2>5
  <2>7. Opened' => spm'.done[1].outcome.value \in spm'.conns \ known'
    BY <1>2, <1>5, <2>1
  <2>8. ConnectionsOK'
    BY <1>5, <1>7, <1>8, <1>11, <2>1, <2>2, <2>6, <2>7 DEF ConnectionsOK
  <2>. QED BY <1>3, <1>4, <1>5, <1>10, <1>11, <2>1, <2>8
<1>12. CASE r.method = "psa_close"
  <2>1. spm'.conns = spm.conns \ {r.handle}
    BY <1>12 DEF PsaExecute
  <2>2. r.handle \in left
    BY <1>9, <1>12 DEF EInv, ConnectionsOK
  <2>3. Cardinality(left) <= Len(faults) + 1
    BY <1>7, <1>9, <1>12 DEF EInv, ConnectionsOK
  <2>4. spm'.conns \ known' = left \ {r.handle}
    BY <2>1
  <2>5. Cardinality(spm'.conns \ known') = Cardinality(left) - 1
    <3>. HIDE DEF left
    <3>1. r.handle \in 1 .. MaxHandle
      BY <1>6, <2>2
    <3>2. Cardinality(left \ {r.handle}) = Cardinality(left) - 1
      BY <1>6, <2>2, <3>1, ConnectionsFinite
    <3>. QED BY <2>4, <3>2, Zenon
  <2>6. Cardinality(spm'.conns \ known') <= Len(faults')
    <3>. HIDE DEF left
    <3>. QED BY <1>5, <1>6, <2>3, <2>5
  <2>7. ~Opened'
    BY <1>8, <1>12
  <2>8. ConnectionsOK'
    BY <1>5, <1>7, <2>1, <2>2, <2>6, <2>7 DEF ConnectionsOK
  <2>. QED BY <1>3, <1>4, <1>5, <2>1, <2>8
<1>13. CASE ~(r.method = "psa_connect" /\ o.value > 0) /\ r.method # "psa_close"
  <2>1. spm'.conns = spm.conns
    BY <1>13 DEF PsaExecute
  <2>2. Cardinality(left) <= Len(faults) + 0
    BY <1>7, <1>9, <1>13 DEF EInv, ConnectionsOK
  <2>3. Cardinality(spm'.conns \ known') = Cardinality(left)
    BY <2>1
  <2>4. Cardinality(spm'.conns \ known') <= Len(faults')
    <3>. HIDE DEF left
    <3>. QED BY <1>5, <1>6, <2>2, <2>3
  <2>5. ~Opened'
    BY <1>8, <1>13
  <2>6. ConnectionsOK'
    BY <1>5, <1>7, <2>1, <2>4, <2>5 DEF ConnectionsOK
  <2>. QED BY <1>3, <1>4, <1>5, <2>1, <2>6
<1>. QED BY <1>11, <1>12, <1>13

(***************************************************************************)
(* A shim whose arguments were read.                                       *)
(***************************************************************************)
LEMMA ServedEInv ==
    ASSUME EInv, server.pc = "shim", NEW failed \in Seq(FaultKinds), Served(client.req, failed),
           UNCHANGED <<client, wire, known>>, overrun' = FALSE, heap' = {}
    PROVE  EInv'
<1>1. /\ client.pc = "wait" /\ client.req \in Requests /\ wire = <<>> /\ Unexecuted
      /\ MessageSize(Sent(client.req)) <= BufferSize
  BY InShim
<1>2. /\ faults \in Seq(FaultKinds) /\ server.service \in BOOLEAN
      /\ server = [pc |-> server.pc, service |-> server.service, msg |-> server.msg]
      /\ ~server.service => faults # <<>>
  BY DEF EInv, RecordsOK, ServerOK
<1>3. PICK o \in PsaOutcomes(client.req) :
        /\ PsaExecute(client.req, o)
        /\ \/ /\ server' = [server EXCEPT !.msg = Reply(client.req, o),
                                !.pc = IF MessageSize(Reply(client.req, o)) > BufferSize
                                       THEN "stopped" ELSE "send"]
              /\ faults' = faults \o failed
           \/ /\ faults' = faults \o failed \o <<"server_prepare">>
              /\ server' = [server EXCEPT !.pc = "stopped"]
  BY DEF Served
<1>4. MessageSize(Reply(client.req, o)) \in Int /\ MessageSize(Reply(client.req, o)) <= BufferSize
  BY <1>1, ReplyFits
<1>5. \/ /\ server' = [pc |-> "send", service |-> server.service, msg |-> Reply(client.req, o)]
         /\ FaultsKept
      \/ /\ server' = [pc |-> "stopped", service |-> server.service, msg |-> server.msg]
         /\ FaultsKept /\ faults' # <<>>
  <2>1. CASE /\ server' = [server EXCEPT !.msg = Reply(client.req, o),
                                !.pc = IF MessageSize(Reply(client.req, o)) > BufferSize
                                       THEN "stopped" ELSE "send"]
             /\ faults' = faults \o failed
    <3>1. ~(MessageSize(Reply(client.req, o)) > BufferSize)
      BY <1>4, ErpcAssumption
    <3>2. server' = [server EXCEPT !.msg = Reply(client.req, o), !.pc = "send"]
      BY <2>1, <3>1
    <3>. QED BY <1>2, <2>1, <3>2, FaultsAdded
  <2>2. CASE /\ faults' = faults \o failed \o <<"server_prepare">>
             /\ server' = [server EXCEPT !.pc = "stopped"]
    <3>. DEFINE more == failed \o <<"server_prepare">>
    <3>1. "server_prepare" \in FaultKinds
      BY DEF FaultKinds
    <3>2. more \in Seq(FaultKinds) /\ Len(more) = Len(failed) + 1 /\ faults' = faults \o more
      BY <1>2, <2>2, <3>1
    <3>. HIDE DEF more
    <3>3. FaultsKept /\ Len(faults') = Len(faults) + Len(more)
      BY <1>2, <3>2, FaultsAdded
    <3>4. Len(faults) \in Nat /\ Len(failed) \in Nat
      BY <1>2
    <3>5. Len(faults') > 0
      BY <3>2, <3>3, <3>4
    <3>6. faults' # <<>>
      BY <3>5
    <3>. QED BY <1>2, <2>2, <3>3, <3>6
  <2>. QED BY <1>3, <2>1, <2>2
<1>6. /\ FaultsKept /\ server'.service = server.service /\ server'.pc \in {"send", "stopped"}
      /\ server' = [pc |-> server'.pc, service |-> server'.service, msg |-> server'.msg]
      /\ server'.pc = "send" => server'.msg = Reply(client.req, o)
      /\ server'.pc = "stopped" => faults' # <<>>
  BY <1>5
<1>7. faults # <<>> => faults' # <<>>
  <2>1. Len(faults) \in Nat /\ Len(faults') \in Nat /\ Len(faults') >= Len(faults)
    BY <1>2, <1>6 DEF FaultsKept
  <2>2. faults # <<>> => Len(faults) > 0
    BY <1>2
  <2>. QED BY <2>1, <2>2
<1>8. /\ ConnectionsOK' /\ spm'.conns \subseteq 1 .. MaxHandle
      /\ spm' = [conns |-> spm'.conns, done |-> spm'.done] /\ Executed(o)'
  BY <1>3, <1>6, ExecuteConnections
<1>9. RecordsOK'
  BY <1>2, <1>6, <1>8 DEF EInv, RecordsOK, FaultsKept
<1>10. CallOK'
  BY <1>1, <1>8 DEF CallOK
<1>11. WireOK'
  BY <1>1 DEF WireOK
<1>12. ServerOK'
  BY <1>1, <1>2, <1>6, <1>7, <1>8 DEF ServerOK
<1>13. NoOverrun' /\ HeapBalanced'
  BY DEF NoOverrun, HeapBalanced
<1>14. StopsOnlyOnFault'
  BY <1>6 DEF StopsOnlyOnFault
<1>. QED BY <1>8, <1>9, <1>10, <1>11, <1>12, <1>13, <1>14 DEF EInv

(***************************************************************************)
(* The shims with integers only execute the client's request.              *)
(***************************************************************************)
LEMMA SimpleShimServes ==
    ASSUME EInv,
           \/ psa_framework_version_shim \/ psa_version_shim
           \/ psa_connect_shim \/ psa_close_shim
    PROVE  Served(client.req, <<>>)
<1>1. server.pc = "shim"
  BY DEF psa_framework_version_shim, psa_version_shim, psa_connect_shim, psa_close_shim, SimpleShim
<1>2. client.req \in Requests /\ server.msg = Sent(client.req)
      /\ server.msg.method = client.req.method
  BY <1>1, InShim
<1>3. server.msg.ints = Ints(client.req)
  BY <1>2 DEF Sent, Encode
<1>4. CASE psa_framework_version_shim
  <2>1. client.req.method = "psa_framework_version"
    BY <1>2, <1>4 DEF psa_framework_version_shim, SimpleShim
  <2>2. client.req = [method |-> "psa_framework_version", out |-> <<>>]
    BY <1>2, <2>1, RequestType
  <2>. QED BY <1>4, <2>2 DEF psa_framework_version_shim, SimpleShim
<1>5. CASE psa_version_shim
  <2>1. client.req.method = "psa_version"
    BY <1>2, <1>5 DEF psa_version_shim, SimpleShim
  <2>2. server.msg.ints[1] = client.req.sid
    BY <1>3, <2>1 DEF Ints
  <2>3. client.req = [method |-> "psa_version", sid |-> server.msg.ints[1], out |-> <<>>]
    BY <1>2, <2>1, <2>2, RequestType
  <2>. QED BY <1>5, <2>3 DEF psa_version_shim, SimpleShim
<1>6. CASE psa_connect_shim
  <2>1. client.req.method = "psa_connect"
    BY <1>2, <1>6 DEF psa_connect_shim, SimpleShim
  <2>2. server.msg.ints[1] = client.req.sid /\ server.msg.ints[2] = client.req.ver
    BY <1>3, <2>1 DEF Ints
  <2>3. client.req = [method |-> "psa_connect", sid |-> server.msg.ints[1],
                      ver |-> server.msg.ints[2], out |-> <<>>]
    BY <1>2, <2>1, <2>2, RequestType
  <2>. QED BY <1>6, <2>3 DEF psa_connect_shim, SimpleShim
<1>7. CASE psa_close_shim
  <2>1. client.req.method = "psa_close"
    BY <1>2, <1>7 DEF psa_close_shim, SimpleShim
  <2>2. server.msg.ints[1] = client.req.handle
    BY <1>3, <2>1 DEF Ints
  <2>3. client.req = [method |-> "psa_close", handle |-> server.msg.ints[1], out |-> <<>>]
    BY <1>2, <2>1, <2>2, RequestType
  <2>. QED BY <1>7, <2>3 DEF psa_close_shim, SimpleShim
<1>. QED BY <1>4, <1>5, <1>6, <1>7

\* The shims on the server that move no vectors.
LEMMA SimpleShimsEInv ==
    ASSUME EInv,
           \/ psa_framework_version_shim \/ psa_version_shim
           \/ psa_connect_shim \/ psa_close_shim
    PROVE  EInv'
<1>1. /\ server.pc = "shim" /\ heap' = heap /\ overrun' = overrun
      /\ UNCHANGED <<client, wire, known>>
  BY DEF psa_framework_version_shim, psa_version_shim, psa_connect_shim, psa_close_shim, SimpleShim
<1>2. heap' = {} /\ overrun' = FALSE
  BY <1>1 DEF EInv, HeapBalanced, NoOverrun, RecordsOK
<1>3. <<>> \in Seq(FaultKinds)
  OBVIOUS
<1>. QED BY <1>1, <1>2, <1>3, SimpleShimServes, ServedEInv

(***************************************************************************)
(* The blocks of a list are finitely many.                                 *)
(***************************************************************************)
LEMMA BlocksFinite ==
    ASSUME NEW name, NEW n \in Nat
    PROVE  IsFiniteSet({<<name, i>> : i \in 0 .. n})
<1>. DEFINE f == [i \in 0 .. n |-> <<name, i>>]
            T == {<<name, i>> : i \in 0 .. n}
<1>1. IsFiniteSet(0 .. n)
  BY FS_Interval
<1>2. f \in [0 .. n -> T] /\ \A x \in T : \E i \in 0 .. n : f[i] = x
  OBVIOUS
<1>3. f \in Surjection(0 .. n, T)
  <2>. HIDE DEF f, T
  <2>. QED BY <1>2 DEF Surjection
<1>. HIDE DEF f, T
<1>4. IsFiniteSet(T)
  BY <1>1, <1>3, FS_Surjection
<1>. QED BY <1>4 DEF T

(***************************************************************************)
(* The shim of erpc_psa_call.                                              *)
(***************************************************************************)
LEMMA CallShimEInv ==
    ASSUME EInv, erpc_psa_call_shim
    PROVE  EInv'
<1>. DEFINE r == client.req
            blocks == {<<"in">>, <<"out">>} \cup {<<"in", i>> : i \in 0 .. Len(r.in)}
                         \cup {<<"out", i>> : i \in 0 .. Len(r.out)}
<1>1. server.pc = "shim" /\ server.msg.method = "erpc_psa_call" /\ UNCHANGED <<client, wire, known>>
  BY DEF erpc_psa_call_shim
<1>2. /\ client.pc = "wait" /\ r \in Requests /\ wire = <<>> /\ Unexecuted
      /\ server.msg = Sent(r) /\ r.method = "erpc_psa_call"
  BY <1>1, InShim
<1>3. /\ server.msg.lists[1] = r.in /\ server.msg.lists[2] = r.out
      /\ server.msg.ints[1] = r.handle /\ server.msg.ints[2] = r.type
  BY <1>2 DEF Sent, Encode, Ints
<1>4. /\ r = [method |-> "erpc_psa_call", handle |-> r.handle, type |-> r.type,
              in |-> r.in, out |-> r.out]
      /\ r.in \in CallerVecs("in") /\ r.out \in CallerVecs("old")
      /\ Len(r.in) + Len(r.out) <= PSA_MAX_IOVEC
  <2>1. PICK h \in 1 .. MaxHandle, type \in Types,
             in \in CallerVecs("in"), out \in CallerVecs("old") :
               /\ r = [method |-> "erpc_psa_call", handle |-> h, type |-> type,
                       in |-> in, out |-> out]
               /\ Len(in) + Len(out) <= PSA_MAX_IOVEC
    BY <1>2, RequestType
  <2>2. r.handle = h /\ r.type = type /\ r.in = in /\ r.out = out
    BY <2>1
  <2>. QED BY <2>1, <2>2
<1>5. Len(r.in) \in Nat /\ Len(r.out) \in Nat /\ PSA_MAX_IOVEC \in Nat
  BY <1>4, CallerVecsType, ErpcAssumption
<1>6. /\ faults \in Seq(FaultKinds) /\ server.service \in BOOLEAN /\ overrun = FALSE
      /\ server = [pc |-> server.pc, service |-> server.service, msg |-> server.msg]
      /\ ~server.service => faults # <<>>
  BY DEF EInv, RecordsOK, ServerOK, NoOverrun
<1>. DEFINE State(failing) ==
              read_list("out", r.out, failing, read_list("in", r.in, failing, ReadStart(failing)))
            Mallocs(failing) ==
              [i \in 1 .. Cardinality(failing) |->
                 IF {<<"in", 0>>, <<"out", 0>>} \cap failing # {}
                 THEN "server_elements" ELSE "server_malloc"]
<1>7. PICK failing \in SUBSET blocks :
        /\ IF State(failing).ok
           THEN /\ Served(r, Mallocs(failing))
                /\ overrun' = (overrun \/ CopiedPastEnd(r.in, r.out))
           ELSE /\ server' = [server EXCEPT !.pc = IF State(failing).undefined THEN "undefined"
                                                   ELSE "stopped"]
                /\ faults' = faults \o Mallocs(failing)
                /\ UNCHANGED <<spm, overrun>>
        /\ heap' = heap \cup (State(failing).live \ freed(State(failing)))
  <2>1. r = [method |-> "erpc_psa_call", handle |-> server.msg.ints[1],
             type |-> server.msg.ints[2], in |-> server.msg.lists[1],
             out |-> server.msg.lists[2]]
    BY <1>3, <1>4
  <2>. QED BY <1>3, <2>1, Zenon DEF erpc_psa_call_shim
<1>. DEFINE st == State(failing)
            mallocs == Mallocs(failing)
<1>8. ReadOK(st, failing)
  BY <1>5, ReadRequestOK
<1>9. Cardinality(failing) \in Nat /\ (failing # {} => Cardinality(failing) > 0)
  <2>1. IsFiniteSet({<<"in">>, <<"out">>})
    <3>1. IsFiniteSet({<<"in">>}) /\ IsFiniteSet({<<"out">>})
      BY FS_Singleton
    <3>2. IsFiniteSet({<<"in">>} \cup {<<"out">>})
      BY <3>1, FS_Union
    <3>3. {<<"in">>, <<"out">>} = {<<"in">>} \cup {<<"out">>}
      OBVIOUS
    <3>. QED BY <3>2, <3>3, Zenon
  <2>2. IsFiniteSet(blocks)
    BY <1>5, <2>1, BlocksFinite, FS_Union
  <2>3. IsFiniteSet(failing)
    <3>. HIDE DEF blocks
    <3>. QED BY <2>2, FS_Subset
  <2>. QED BY <2>3, FS_CardinalityType, FS_EmptySet
<1>10. /\ mallocs \in Seq(FaultKinds) /\ Len(mallocs) = Cardinality(failing)
       /\ {<<"in", 0>>, <<"out", 0>>} \cap failing # {} /\ Len(mallocs) > 0 =>
             mallocs[1] = "server_elements"
  <2>. DEFINE kind == IF {<<"in", 0>>, <<"out", 0>>} \cap failing # {}
                      THEN "server_elements" ELSE "server_malloc"
              n == Cardinality(failing)
  <2>1. kind \in FaultKinds /\ ({<<"in", 0>>, <<"out", 0>>} \cap failing # {} => kind = "server_elements")
    BY DEF FaultKinds
  <2>2. mallocs = [i \in 1 .. n |-> kind]
    OBVIOUS
  <2>3. n \in Nat
    BY <1>9
  <2>. HIDE DEF kind, n, mallocs
  <2>4. mallocs \in Seq(FaultKinds) /\ Len(mallocs) = n
    BY <2>1, <2>2, <2>3
  <2>5. Len(mallocs) > 0 => mallocs[1] = kind
    BY <2>2, <2>3, <2>4
  <2>. QED BY <2>1, <2>4, <2>5 DEF n
<1>11. heap' = {}
  <2>1. heap = {}
    BY <1>1 DEF EInv, HeapBalanced
  <2>2. st.live \subseteq freed(st)
    BY <1>8 DEF ReadOK
  <2>. QED BY <1>7, <2>1, <2>2
<1>12. ~CopiedPastEnd(r.in, r.out)
  <2>. HIDE DEF r
  <2>1. ~(Len(r.in) > PSA_MAX_IOVEC) /\ ~(Len(r.out) > PSA_MAX_IOVEC)
    BY <1>4, <1>5
  <2>. QED BY <2>1 DEF CopiedPastEnd
<1>. HIDE DEF st, mallocs
<1>13. CASE st.ok
  <2>1. Served(r, mallocs) /\ overrun' = FALSE
    BY <1>6, <1>7, <1>12, <1>13 DEF st, mallocs
  <2>. QED BY <1>1, <1>10, <1>11, <2>1, ServedEInv
<1>14. CASE ~st.ok
  <2>1. /\ server' = [server EXCEPT !.pc = IF st.undefined THEN "undefined" ELSE "stopped"]
        /\ faults' = faults \o mallocs /\ UNCHANGED <<spm, overrun>>
    BY <1>7, <1>14 DEF st, mallocs
  <2>2. /\ server'.service = server.service /\ server'.pc \in {"undefined", "stopped"}
        /\ server' = [pc |-> server'.pc, service |-> server'.service, msg |-> server'.msg]
        /\ server'.pc = "undefined" => st.undefined
    <3>1. CASE st.undefined
      BY <1>6, <2>1, <3>1
    <3>2. CASE ~st.undefined
      BY <1>6, <2>1, <3>2
    <3>. QED BY <3>1, <3>2
  <2>3. FaultsKept /\ Len(faults') = Len(faults) + Len(mallocs)
    BY <1>6, <1>10, <2>1, FaultsAdded
  <2>4. Len(faults) \in Nat /\ Len(mallocs) \in Nat /\ Len(mallocs) > 0
    BY <1>6, <1>8, <1>9, <1>10, <1>14 DEF ReadOK
  <2>5. faults' # <<>>
    <3>1. Len(faults') > 0
      BY <2>3, <2>4
    <3>. QED BY <3>1
  <2>6. st.undefined => \E i \in DOMAIN faults' : faults'[i] = "server_elements"
    <3>1. st.undefined => mallocs[1] = "server_elements"
      BY <1>8, <1>10, <2>4 DEF ReadOK
    <3>2. Len(faults) + 1 \in DOMAIN faults' /\ faults'[Len(faults) + 1] = mallocs[1]
      BY <1>6, <1>10, <2>1, <2>3, <2>4 DEF FaultsKept
    <3>. QED BY <3>1, <3>2
  <2>7. Unexecuted'
    BY <1>2, <2>1 DEF Unexecuted
  <2>8. RecordsOK'
    BY <1>1, <1>6, <2>1, <2>2, <2>3 DEF EInv, RecordsOK, FaultsKept
  <2>9. CallOK'
    BY <1>1, <2>7 DEF EInv, CallOK
  <2>10. WireOK'
    BY <1>1, <1>2 DEF WireOK
  <2>11. ServerOK'
    BY <2>2, <2>5 DEF ServerOK
  <2>12. ConnectionsOK'
    <3>1. Intact'
      BY <1>1, <1>2 DEF Intact
    <3>. QED BY <1>1, <2>1, <2>3, <3>1, ConnectionsKept DEF EInv
  <2>13. NoOverrun' /\ HeapBalanced'
    BY <1>6, <1>11, <2>1 DEF NoOverrun, HeapBalanced
  <2>14. StopsOnlyOnFault'
    BY <2>2, <2>5, <2>6 DEF StopsOnlyOnFault
  <2>. QED BY <2>8, <2>9, <2>10, <2>11, <2>12, <2>13, <2>14 DEF EInv
<1>. QED BY <1>13, <1>14

\* Every step of host, client, server and wire keeps the invariant.
LEMMA NextEInv ==
    ASSUME EInv, [Next]_vars
    PROVE  EInv'
<1>1. CASE UNCHANGED vars
  <2>1. faults \in Seq(FaultKinds) /\ faults' = faults
    BY <1>1 DEF EInv, RecordsOK, vars
  <2>. QED BY <1>1, <2>1, FaultsUnchanged, FrameEInv DEF vars
<1>2. CASE host_main \/ erpc_client_start
  BY <1>2, HostEInv
<1>3. CASE ClientCalls
  BY <1>3, ClientCallsEInv
<1>4. CASE ClientSteps
  BY <1>4, ShimErrorEInv, ShimResultEInv DEF ClientSteps
<1>5. CASE ServerSteps
  BY <1>5, ServerStartEInv, ServerReceiveEInv, ServerSendEInv, SimpleShimsEInv, CallShimEInv
     DEF ServerSteps, handleInvocation
<1>6. CASE wire_lose \/ wire_damage
  BY <1>6, WireEInv
<1>. QED BY <1>1, <1>2, <1>3, <1>4, <1>5, <1>6 DEF Next

-----------------------------------------------------------------------------
(* The theorems. *)

(***************************************************************************)
(* There is one message at a time, of the call in progress; it carries the *)
(* client's request to the server and what its only execution produced     *)
(* back.  EInv is an invariant.                                            *)
(***************************************************************************)
THEOREM ErpcInvariance == Spec => []EInv
<1>1. Init => EInv
  BY InitEInv
<1>2. EInv /\ [Next]_vars => EInv'
  BY NextEInv
<1>. QED BY <1>1, <1>2, PTL DEF Spec

(***************************************************************************)
(* The check that psa_call of erpc_client_wrapper.c makes protects the     *)
(* arrays of the server too, and no reply overruns a caller's buffer.      *)
(***************************************************************************)
THEOREM NoOverrunHolds == Spec => []NoOverrun
<1>1. EInv => NoOverrun
  BY DEF EInv
<1>. QED BY <1>1, ErpcInvariance, PTL

(***************************************************************************)
(* The shims of the server free every block they allocate, whichever       *)
(* allocations fail, for lists of any length.                              *)
(***************************************************************************)
THEOREM HeapBalancedHolds == Spec => []HeapBalanced
<1>1. EInv => HeapBalanced
  BY DEF EInv
<1>. QED BY <1>1, ErpcInvariance, PTL

(***************************************************************************)
(* The server's loop ends only after a failure: for lists of any length, a *)
(* request that fits the buffer has a reply that fits it.                  *)
(***************************************************************************)
THEOREM StopsOnlyOnFaultHolds == Spec => []StopsOnlyOnFault
<1>1. EInv => StopsOnlyOnFault
  BY DEF EInv
<1>. QED BY <1>1, ErpcInvariance, PTL

(***************************************************************************)
(* The client's connections are open, and each connection that only the    *)
(* secure side has is due to a failure or to the call in progress.         *)
(***************************************************************************)
THEOREM ConnectionsAgreeHolds == Spec => []ConnectionsAgree
<1>1. EInv => ConnectionsAgree
  <2>. SUFFICES ASSUME EInv PROVE ConnectionsAgree
    OBVIOUS
  <2>. DEFINE extra == IF Intact /\ (Closing \/ Opened) THEN 1 ELSE 0
              allowed == IF client.pc = "idle" THEN 0 ELSE 1
  <2>1. known \subseteq spm.conns /\ Cardinality(spm.conns \ known) <= Len(faults) + extra
        /\ Len(faults) \in Nat
    BY DEF EInv, ConnectionsOK, RecordsOK
  <2>2. extra \in {0, 1} /\ allowed \in {0, 1} /\ extra <= allowed
    BY DEF Closing, Opened
  <2>3. Cardinality(spm.conns \ known) \in Nat
    <3>1. spm.conns \ known \subseteq 1 .. MaxHandle
      BY DEF EInv, RecordsOK
    <3>. QED BY <3>1, ConnectionsFinite
  <2>. HIDE DEF extra, allowed
  <2>4. Cardinality(spm.conns \ known) <= Len(faults) + allowed
    BY <2>1, <2>2, <2>3
  <2>. QED BY <2>1, <2>4 DEF ConnectionsAgree, allowed
<1>. QED BY <1>1, ErpcInvariance, PTL

-----------------------------------------------------------------------------
(* The client API implements the abstract remote call. *)

(***************************************************************************)
(* What the refinement mapping makes of a state, and of the next one.      *)
(***************************************************************************)
LEMMA AbstractState ==
    /\ EInv =>
          /\ client.pc = "idle" => /\ AbstractPhase = "idle" /\ client.req = <<>>
                                   /\ AbstractOutcome = RC!Nothing
          /\ client.pc # "idle" /\ Unexecuted =>
                AbstractPhase = "called" /\ AbstractOutcome = RC!Nothing
          /\ \A o : client.pc # "idle" /\ Executed(o) =>
                AbstractPhase = "executed" /\ AbstractOutcome = o
    /\ EInv' =>
          /\ client'.pc = "idle" => /\ AbstractPhase' = "idle" /\ client'.req = <<>>
                                    /\ AbstractOutcome' = RC!Nothing
          /\ client'.pc # "idle" /\ Unexecuted' =>
                AbstractPhase' = "called" /\ AbstractOutcome' = RC!Nothing
          /\ \A o : client'.pc # "idle" /\ Executed(o)' =>
                AbstractPhase' = "executed" /\ AbstractOutcome' = o
<1>1. ASSUME EInv, client.pc = "idle"
      PROVE  AbstractPhase = "idle" /\ client.req = <<>> /\ AbstractOutcome = RC!Nothing
  BY <1>1 DEF EInv, RecordsOK, CallOK, Unexecuted, AbstractPhase, AbstractOutcome, RC!Nothing
<1>2. ASSUME client.pc # "idle", Unexecuted
      PROVE  AbstractPhase = "called" /\ AbstractOutcome = RC!Nothing
  BY <1>2 DEF Unexecuted, AbstractPhase, AbstractOutcome, RC!Nothing
<1>3. ASSUME NEW o, client.pc # "idle", Executed(o)
      PROVE  AbstractPhase = "executed" /\ AbstractOutcome = o
  <2>1. spm.done # <<>> /\ Len(spm.done) = 1
    BY <1>3 DEF Executed
  <2>2. spm.done[1].req = client.req /\ spm.done[1].outcome = o
    BY <1>3 DEF Executed
  <2>. QED BY <1>3, <2>1, <2>2 DEF AbstractPhase, AbstractOutcome
<1>4. ASSUME EInv', client'.pc = "idle"
      PROVE  AbstractPhase' = "idle" /\ client'.req = <<>> /\ AbstractOutcome' = RC!Nothing
  BY <1>4 DEF EInv, RecordsOK, CallOK, Unexecuted, AbstractPhase, AbstractOutcome, RC!Nothing
<1>5. ASSUME client'.pc # "idle", Unexecuted'
      PROVE  AbstractPhase' = "called" /\ AbstractOutcome' = RC!Nothing
  BY <1>5 DEF Unexecuted, AbstractPhase, AbstractOutcome, RC!Nothing
<1>6. ASSUME NEW o, client'.pc # "idle", Executed(o)'
      PROVE  AbstractPhase' = "executed" /\ AbstractOutcome' = o
  <2>1. spm'.done # <<>> /\ Len(spm'.done) = 1
    BY <1>6 DEF Executed
  <2>2. spm'.done[1].req = client'.req /\ spm'.done[1].outcome = o
    BY <1>6 DEF Executed
  <2>. QED BY <1>6, <2>1, <2>2 DEF AbstractPhase, AbstractOutcome
<1>. QED BY <1>1, <1>2, <1>3, <1>4, <1>5, <1>6

(***************************************************************************)
(* A step that leaves the call in progress and its result alone is no step *)
(* of the abstract call.                                                   *)
(***************************************************************************)
LEMMA StutterStep ==
    ASSUME UNCHANGED <<client, spm, ret>>
    PROVE  UNCHANGED RC!remoteVars
BY DEF RC!remoteVars, AbstractPhase, AbstractOutcome

\* A message sent by the client is a call made.
LEMMA PerformRefines ==
    ASSUME EInv, EInv', NEW r \in Requests, Perform(r, Sent(r))
    PROVE  RC!Call
<1>1. client.pc = "idle" /\ spm' = spm /\ ret' = ret /\ client'.req = r /\ client'.pc # "idle"
  BY DEF Perform
<1>2. Unexecuted'
  BY <1>1 DEF EInv, CallOK, Unexecuted
<1>3. AbstractPhase = "idle" /\ AbstractPhase' = "called" /\ AbstractOutcome' = RC!Nothing
  BY <1>1, <1>2, AbstractState
<1>. QED BY <1>1, <1>3 DEF RC!Call

\* A shim that has called the service is a call executed.
LEMMA ServedRefines ==
    ASSUME EInv, EInv', server.pc = "shim", NEW failed, Served(client.req, failed),
           UNCHANGED <<client, ret>>
    PROVE  RC!Execute
<1>1. client.pc = "wait" /\ Unexecuted
  BY InShim
<1>2. PICK o \in PsaOutcomes(client.req) : PsaExecute(client.req, o)
  BY DEF Served
<1>3. spm'.done = <<[req |-> client.req, outcome |-> o]>>
  BY <1>1, <1>2 DEF PsaExecute, Unexecuted
<1>4. Executed(o)'
  BY <1>2, <1>3 DEF Executed, PsaOutcomes, OutsFor
<1>5. AbstractPhase = "called" /\ AbstractPhase' = "executed" /\ AbstractOutcome' = o
  BY <1>1, <1>4, AbstractState
<1>. QED BY <1>2, <1>5 DEF RC!Execute

\* A shim that reports an error is a call that failed.
LEMMA ShimErrorRefines ==
    ASSUME EInv, EInv', shim_error
    PROVE  RC!Fail
<1>1. /\ client.pc = "failed" /\ client'.pc = "idle" /\ client'.req = <<>>
      /\ ret' = [value |-> NoResult, outs |-> client.req.out]
  BY DEF shim_error, Finish
<1>2. AbstractPhase' = "idle" /\ AbstractOutcome' = RC!Nothing
  BY <1>1, AbstractState
<1>3. AbstractPhase \in {"called", "executed"}
  <2>1. Unexecuted \/ \E o : Executed(o)
    BY <1>1 DEF EInv, CallOK
  <2>. QED BY <1>1, <2>1, AbstractState
<1>. QED BY <1>1, <1>2, <1>3 DEF RC!Fail

(***************************************************************************)
(* A reply that is intact ends the call with what was executed; one that   *)
(* is damaged leaves it to the error path.                                 *)
(***************************************************************************)
LEMMA ShimResultRefines ==
    ASSUME EInv, EInv', shim_result
    PROVE  RC!Return \/ UNCHANGED RC!remoteVars
<1>1. client.pc = "wait" /\ wire # <<>> /\ Head(wire).kind = "reply"
  BY DEF shim_result
<1>2. client.req \in Requests
  BY <1>1, ReplyArrived
<1>3. PICK o : \E intact \in BOOLEAN :
                 /\ Executed(o) /\ wire = <<Arrived(Reply(client.req, o), intact)>>
  BY <1>1, ReplyArrived
<1>4. PICK intact \in BOOLEAN : wire = <<Arrived(Reply(client.req, o), intact)>>
  BY <1>3
<1>5. Head(wire) = Arrived(Reply(client.req, o), intact) /\ o \in PsaOutcomes(client.req)
  BY <1>3, <1>4 DEF Executed
<1>. DEFINE msg == Head(wire)
            value == IF msg.ints = <<>> THEN 0 ELSE msg.ints[1]
            outs == IF msg.lists = <<>> THEN <<>> ELSE read_list_binary(msg.lists[1])
<1>6. /\ msg.crc = intact /\ value = o.value
      /\ client.req.method # "erpc_psa_call" => msg.lists = <<>> /\ o.outs = <<>>
      /\ client.req.method = "erpc_psa_call" => msg.lists = <<o.outs>>
  <2>. HIDE DEF msg
  <2>. QED BY <1>2, <1>5, ReplyContent DEF msg
<1>7. AbstractPhase = "executed" /\ AbstractOutcome = o
  BY <1>1, <1>3, AbstractState
<1>8. CASE ~intact
  <2>1. client' = [client EXCEPT !.pc = "failed"] /\ UNCHANGED <<ret, spm>>
    BY <1>6, <1>8 DEF shim_result
  <2>2. client'.pc = "failed" /\ client'.req = client.req
    BY <1>1, <1>2, <2>1 DEF EInv, RecordsOK
  <2>3. Executed(o)'
    BY <1>3, <2>1, <2>2 DEF Executed, PsaOutcomes, OutsFor
  <2>4. AbstractPhase' = "executed" /\ AbstractOutcome' = o
    BY <2>2, <2>3, AbstractState
  <2>. QED BY <1>7, <2>1, <2>2, <2>4 DEF RC!remoteVars
<1>9. CASE intact
  <2>1. Finish(value, CallerOuts(value, outs))
    BY <1>6, <1>9 DEF shim_result
  <2>2. client'.pc = "idle" /\ client'.req = <<>>
        /\ ret' = [value |-> value, outs |-> CallerOuts(value, outs)]
    BY <2>1 DEF Finish
  <2>3. AbstractPhase' = "idle" /\ AbstractOutcome' = RC!Nothing
    BY <2>2, AbstractState
  <2>4. DOMAIN outs = DOMAIN o.outs /\ \A i \in DOMAIN outs : outs[i].data = o.outs[i].data
                                                             /\ outs[i].len = o.outs[i].len
    <3>1. CASE client.req.method # "erpc_psa_call"
      <4>1. outs = <<>> /\ o.outs = <<>>
        BY <1>6, <3>1
      <4>. HIDE DEF outs
      <4>. QED BY <4>1
    <3>2. CASE client.req.method = "erpc_psa_call"
      <4>1. outs = read_list_binary(o.outs)
        <5>1. msg.lists # <<>> /\ msg.lists[1] = o.outs
          BY <1>6, <3>2
        <5>. HIDE DEF msg
        <5>. QED BY <5>1, Zenon
      <4>. HIDE DEF outs
      <4>. QED BY <4>1 DEF read_list_binary, Vec
    <3>. QED BY <3>1, <3>2
  <2>. HIDE DEF outs, value
  <2>5. CallerOuts(value, outs) =
          [i \in DOMAIN o.outs |->
              [data |-> o.outs[i].data,
               len |-> IF o.value = 0 THEN o.outs[i].len ELSE client.req.out[i].len]]
    BY <1>6, <2>4 DEF CallerOuts, Vec, PSA_SUCCESS
  <2>6. ret' = RC!Received(o)
    BY <1>6, <2>2, <2>5, Zenon DEF RC!Received
  <2>. QED BY <1>7, <2>2, <2>3, <2>6 DEF RC!Return
<1>. QED BY <1>8, <1>9

(***************************************************************************)
(* A shim of the server executes the client's request, or nothing.         *)
(***************************************************************************)
LEMMA HandlerRefines ==
    ASSUME EInv, EInv', handleInvocation
    PROVE  RC!Execute \/ UNCHANGED RC!remoteVars
<1>1. CASE \/ psa_framework_version_shim \/ psa_version_shim
           \/ psa_connect_shim \/ psa_close_shim
  <2>1. server.pc = "shim" /\ UNCHANGED <<client, ret>>
    BY <1>1 DEF psa_framework_version_shim, psa_version_shim, psa_connect_shim,
                psa_close_shim, SimpleShim
  <2>2. Served(client.req, <<>>)
    BY <1>1, SimpleShimServes
  <2>. QED BY <2>1, <2>2, ServedRefines
<1>2. CASE erpc_psa_call_shim
  <2>1. server.pc = "shim" /\ server.msg.method = "erpc_psa_call" /\ UNCHANGED <<client, ret>>
    BY <1>2 DEF erpc_psa_call_shim
  <2>2. client.req \in Requests /\ server.msg = Sent(client.req)
        /\ client.req.method = "erpc_psa_call"
    BY <2>1, InShim
  <2>3. /\ server.msg.lists[1] = client.req.in /\ server.msg.lists[2] = client.req.out
        /\ server.msg.ints[1] = client.req.handle /\ server.msg.ints[2] = client.req.type
    BY <2>2 DEF Sent, Encode, Ints
  <2>4. client.req = [method |-> "erpc_psa_call", handle |-> client.req.handle,
                      type |-> client.req.type, in |-> client.req.in, out |-> client.req.out]
    BY <2>2, RequestType
  <2>5. client.req = [method |-> "erpc_psa_call", handle |-> server.msg.ints[1],
                      type |-> server.msg.ints[2], in |-> server.msg.lists[1],
                      out |-> server.msg.lists[2]]
    BY <2>3, <2>4
  <2>6. (\E failed : Served(client.req, failed)) \/ UNCHANGED spm
    BY <1>2, <2>5, Zenon DEF erpc_psa_call_shim
  <2>. QED BY <2>1, <2>6, ServedRefines, StutterStep
<1>. QED BY <1>1, <1>2 DEF handleInvocation

\* Every step is one of the abstract remote call or changes nothing it sees.
LEMMA NextRefines ==
    ASSUME EInv, EInv', [Next]_vars
    PROVE  [RC!RemoteNext]_RC!remoteVars
<1>1. CASE ClientCalls
  <2>1. CASE \E r \in Requests : Perform(r, Sent(r))
    BY <2>1, PerformRefines DEF RC!RemoteNext
  <2>2. CASE UNCHANGED <<client, spm>> /\ client.pc = "idle" /\ ret' \in Refusals
    <3>1. AbstractPhase = "idle"
      BY <2>2, AbstractState
    <3>2. UNCHANGED <<AbstractPhase, client.req, AbstractOutcome>>
      BY <2>2 DEF AbstractPhase, AbstractOutcome
    <3>. QED BY <2>2, <3>1, <3>2 DEF RC!RemoteNext, RC!Refuse
  <2>. QED BY <1>1, <2>1, <2>2, CallMade
<1>2. CASE ClientSteps
  BY <1>2, ShimErrorRefines, ShimResultRefines DEF ClientSteps, RC!RemoteNext
<1>3. CASE handleInvocation
  BY <1>3, HandlerRefines DEF RC!RemoteNext
<1>4. CASE \/ UNCHANGED vars \/ host_main \/ erpc_client_start \/ erpc_server_start
           \/ server_receive \/ server_send \/ wire_lose \/ wire_damage
  <2>1. UNCHANGED <<client, spm, ret>>
    BY <1>4 DEF vars, host_main, erpc_client_start, erpc_server_start, server_receive,
                server_send, wire_lose, wire_damage
  <2>. QED BY <2>1, StutterStep
<1>. QED BY <1>1, <1>2, <1>3, <1>4 DEF Next, ServerSteps

(***************************************************************************)
(* Whatever fails, a call made through the eRPC shims is the abstract      *)
(* remote call: the request executed is the one made, at most once, and    *)
(* its result reaches the caller, or a failure that leaves the caller's    *)
(* vectors as they were.                                                   *)
(***************************************************************************)
THEOREM ErpcImplementsRemoteCall == Spec => RemoteSpec
<1>1. Init => RC!RemoteInit
  BY DEF Init, RC!RemoteInit, RC!Nothing, AbstractPhase, AbstractOutcome
<1>2. EInv /\ EInv' /\ [Next]_vars => [RC!RemoteNext]_RC!remoteVars
  BY NextRefines
<1>. QED BY <1>1, <1>2, ErpcInvariance, PTL DEF Spec, RemoteSpec, RC!RemoteSpec
=============================================================================
