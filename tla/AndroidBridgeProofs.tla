------------------------- MODULE AndroidBridgeProofs -------------------------
(***************************************************************************)
(* Proofs about module AndroidBridge, for any set of cameras and for any   *)
(* bounds: the types, that no two cameras are connected at once, that      *)
(* dispatches to a camera do not overwrite one another, that a reboot      *)
(* invalidates a connection, and that only controlled cameras accept       *)
(* commands.                                                               *)
(***************************************************************************)
EXTENDS AndroidBridge, SequenceTheorems, TLAPS

-----------------------------------------------------------------------------
(* Chains.                                                                 *)

Chain == Seq(Job)
Chains == Seq(Chain) \ {<<>>}

(* Only the first job of a chain has begun.                                *)
OnlyFirstBegun(ch) == \A n \in DOMAIN ch : n # 1 => ch[n].doing = "queued"

(* A job that ends leaves the others of its chain in their order.          *)
LEMMA RemoveAtProperties ==
  ASSUME NEW S, NEW s \in Seq(S), NEW n \in DOMAIN s
  PROVE  /\ RemoveAt(s, n) \in Seq(S)
         /\ Len(RemoveAt(s, n)) = Len(s) - 1
         /\ \A i \in 1 .. Len(s) - 1 : RemoveAt(s, n)[i] = IF i < n THEN s[i] ELSE s[i + 1]
<1> DEFINE before == SubSeq(s, 1, n - 1)
           after == SubSeq(s, n + 1, Len(s))
<1>1. Len(s) \in Nat /\ n \in 1 .. Len(s)
  BY LenProperties
<1>2. \A i \in 1 .. Len(s) : s[i] \in S
  BY ElementOfSeq
<1>3. before \in Seq(S) /\ Len(before) = n - 1
  BY <1>1, <1>2, SubSeqProperties
<1>4. \A i \in 1 .. n - 1 : before[i] = s[i]
  BY <1>1, <1>2, SubSeqProperties
<1>5. after \in Seq(S) /\ Len(after) = Len(s) - n
  BY <1>1, <1>2, SubSeqProperties
<1>6. \A i \in 1 .. Len(s) - n : after[i] = s[n + i]
  BY <1>1, <1>2, SubSeqProperties
<1>7. RemoveAt(s, n) = before \o after
  BY DEF RemoveAt
<1> HIDE DEF before, after
<1>8. Len(before) + Len(after) = Len(s) - 1
  BY <1>1, <1>3, <1>5
<1>9. /\ before \o after \in Seq(S)
      /\ Len(before \o after) = Len(s) - 1
      /\ \A i \in 1 .. Len(s) - 1 :
           (before \o after)[i] = IF i <= Len(before) THEN before[i] ELSE after[i - Len(before)]
  BY <1>3, <1>5, <1>8, ConcatProperties
<1>10. ASSUME NEW i \in 1 .. Len(s) - 1
       PROVE  (before \o after)[i] = IF i < n THEN s[i] ELSE s[i + 1]
  <2>1. CASE i < n
    <3>1. i <= Len(before) /\ i \in 1 .. n - 1
      BY <1>1, <1>3, <2>1
    <3> QED  BY <1>4, <1>9, <2>1, <3>1
  <2>2. CASE ~ i < n
    <3>1. /\ i - Len(before) \in 1 .. Len(s) - n /\ n + (i - Len(before)) = i + 1
          /\ ~ i <= Len(before)
      BY <1>1, <1>3, <2>2
    <3>2. (before \o after)[i] = after[i - Len(before)]
      BY <1>9, <3>1, Zenon
    <3>3. after[i - Len(before)] = s[n + (i - Len(before))]
      BY <1>6, <3>1, Zenon
    <3> QED  BY <2>2, <3>1, <3>2, <3>3, Zenon
  <2> QED  BY <2>1, <2>2
<1> QED  BY <1>7, <1>9, <1>10

(* The jobs of some chains, as Pending has them of a camera.               *)
JobsOf(cs) == UNION {ToSet(cs[k]) : k \in DOMAIN cs}

LEMMA PendingIsJobs ==
  \A c : Pending(c) = JobsOf(chains[c])
BY DEF Pending, JobsOf

LEMMA JobOfChains ==
  ASSUME NEW cs \in Chains, NEW job
  PROVE  job \in JobsOf(cs) <=>
           \E k \in DOMAIN cs : \E n \in DOMAIN cs[k] : job = cs[k][n]
BY DEF JobsOf, ToSet

(* Chains with a job appended to the current one.                          *)
LEMMA EnqueueProperties ==
  ASSUME NEW cs \in Chains, NEW job \in Job, job.doing = "queued",
         \A k \in DOMAIN cs : OnlyFirstBegun(cs[k])
  PROVE  /\ Enqueue(cs, job) \in Chains
         /\ Len(Enqueue(cs, job)) = Len(cs)
         /\ JobsOf(Enqueue(cs, job)) = JobsOf(cs) \union {job}
         /\ \A k \in DOMAIN Enqueue(cs, job) : OnlyFirstBegun(Enqueue(cs, job)[k])
<1> DEFINE l == Len(cs)
           new == Append(cs[l], job)
<1>1. l \in Nat \ {0} /\ DOMAIN cs = 1 .. l /\ l \in DOMAIN cs
  BY EmptySeq, LenProperties DEF Chains
<1>2. cs[l] \in Chain
  BY <1>1, ElementOfSeq DEF Chains
<1>3. /\ new \in Chain /\ Len(new) = Len(cs[l]) + 1
      /\ \A n \in 1 .. Len(cs[l]) : new[n] = cs[l][n]
      /\ new[Len(cs[l]) + 1] = job
      /\ DOMAIN new = 1 .. Len(cs[l]) + 1 /\ DOMAIN cs[l] = 1 .. Len(cs[l])
      /\ Len(cs[l]) \in Nat
  BY <1>2 DEF Chain
<1>4. /\ Enqueue(cs, job) = [cs EXCEPT ![l] = new]
      /\ Enqueue(cs, job) \in Seq(Chain) /\ Len(Enqueue(cs, job)) = l
      /\ DOMAIN Enqueue(cs, job) = 1 .. l
      /\ \A k \in 1 .. l : Enqueue(cs, job)[k] = IF k = l THEN new ELSE cs[k]
  <2>1. Enqueue(cs, job) = [cs EXCEPT ![l] = new]
    BY DEF Enqueue
  <2> HIDE DEF new
  <2> QED  BY <1>1, <1>3, <2>1, ExceptSeq, LenProperties DEF Chains
<1> HIDE DEF l, new
<1>5. Enqueue(cs, job) \in Chains
  BY <1>1, <1>4, EmptySeq DEF Chains
<1>6. ASSUME NEW j PROVE j \in JobsOf(Enqueue(cs, job)) <=> j \in JobsOf(cs) \union {job}
  <2>1. j \in JobsOf(Enqueue(cs, job)) <=>
          \E k \in 1 .. l : \E n \in DOMAIN Enqueue(cs, job)[k] : j = Enqueue(cs, job)[k][n]
    <3>1. DOMAIN Enqueue(cs, job) = 1 .. l
      BY <1>4
    <3> QED  BY <3>1 DEF JobsOf, ToSet
  <2>2. j \in JobsOf(cs) <=> \E k \in 1 .. l : \E n \in DOMAIN cs[k] : j = cs[k][n]
    BY <1>1, JobOfChains
  <2>3. (\E n \in DOMAIN new : j = new[n]) <=> (j = job \/ \E n \in DOMAIN cs[l] : j = cs[l][n])
    BY <1>3
  <2> QED  BY <1>1, <1>4, <2>1, <2>2, <2>3
<1>7. OnlyFirstBegun(new)
  <2> SUFFICES ASSUME NEW n \in DOMAIN new, n # 1 PROVE new[n].doing = "queued"
    BY DEF OnlyFirstBegun
  <2>1. OnlyFirstBegun(cs[l])
    BY <1>1
  <2> QED  BY <1>3, <2>1 DEF OnlyFirstBegun
<1>8. Len(Enqueue(cs, job)) = Len(cs)
  BY <1>4 DEF l
<1> QED  BY <1>1, <1>4, <1>5, <1>6, <1>7, <1>8

(* A first job that has ended leaves its chain, and a chain that is done   *)
(* and not the current one leaves the chains: no job is new, and where     *)
(* there is one chain nothing is running.                                  *)
LEMMA FinishProperties ==
  ASSUME NEW cs \in Chains, NEW k \in DOMAIN cs, NEW n \in DOMAIN cs[k], n = 1,
         \A i \in DOMAIN cs : OnlyFirstBegun(cs[i])
  PROVE  /\ Finish(cs, k, n) \in Chains
         /\ JobsOf(Finish(cs, k, n)) \subseteq JobsOf(cs)
         /\ \A i \in DOMAIN Finish(cs, k, n) : OnlyFirstBegun(Finish(cs, k, n)[i])
         /\ Len(cs) = 1 => /\ Len(Finish(cs, k, n)) = 1
                           /\ \A job \in JobsOf(Finish(cs, k, n)) : job.doing = "queued"
<1> DEFINE l == Len(cs)
           rest == RemoveAt(cs[k], n)
           fin == Finish(cs, k, n)
<1>1. l \in Nat \ {0} /\ DOMAIN cs = 1 .. l /\ k \in 1 .. l
  BY EmptySeq, LenProperties DEF Chains
<1>2. cs[k] \in Chain /\ OnlyFirstBegun(cs[k])
  BY <1>1, ElementOfSeq DEF Chains
<1>3. /\ rest \in Chain /\ Len(rest) = Len(cs[k]) - 1
      /\ \A i \in 1 .. Len(cs[k]) - 1 : rest[i] = cs[k][i + 1]
      /\ DOMAIN rest = 1 .. Len(rest)
      /\ DOMAIN cs[k] = 1 .. Len(cs[k]) /\ Len(cs[k]) \in Nat
  <2>1. /\ rest \in Chain /\ Len(rest) = Len(cs[k]) - 1
        /\ \A i \in 1 .. Len(cs[k]) - 1 : rest[i] = IF i < n THEN cs[k][i] ELSE cs[k][i + 1]
    BY <1>2, RemoveAtProperties DEF Chain
  <2>2. \A i \in 1 .. Len(cs[k]) - 1 : rest[i] = cs[k][i + 1]
    <3> HIDE DEF rest
    <3> QED  BY <2>1
  <2> QED  BY <1>2, <2>1, <2>2, LenProperties DEF Chain
<1>4. \A i \in DOMAIN rest : rest[i].doing = "queued" /\ \E m \in DOMAIN cs[k] : rest[i] = cs[k][m]
  <2> HIDE DEF rest
  <2> SUFFICES ASSUME NEW i \in DOMAIN rest
               PROVE  rest[i].doing = "queued" /\ \E m \in DOMAIN cs[k] : rest[i] = cs[k][m]
    OBVIOUS
  <2>1. i + 1 \in DOMAIN cs[k] /\ i + 1 # 1 /\ rest[i] = cs[k][i + 1]
    BY <1>3
  <2> QED  BY <1>2, <2>1 DEF OnlyFirstBegun
<1>5. /\ fin \in Chains
      /\ \A i \in DOMAIN fin : fin[i] = rest \/ \E j \in DOMAIN cs : fin[i] = cs[j]
      /\ l = 1 => Len(fin) = 1 /\ fin[1] = rest
  <2>1. CASE rest = <<>> /\ k < l
    <3>1. fin = RemoveAt(cs, k)
      BY <2>1 DEF Finish
    <3>2. /\ fin \in Seq(Chain) /\ Len(fin) = l - 1
          /\ \A i \in 1 .. l - 1 : fin[i] = IF i < k THEN cs[i] ELSE cs[i + 1]
      BY <3>1, RemoveAtProperties DEF Chains
    <3>3. DOMAIN fin = 1 .. l - 1 /\ l # 1
      BY <1>1, <2>1, <3>2, LenProperties
    <3> HIDE DEF fin
    <3>4. fin \in Chains
      BY <1>1, <3>2, <3>3, EmptySeq DEF Chains
    <3>5. ASSUME NEW i \in DOMAIN fin PROVE \E j \in DOMAIN cs : fin[i] = cs[j]
      <4>1. i \in 1 .. l /\ i + 1 \in 1 .. l
        BY <1>1, <3>3
      <4> QED  BY <1>1, <3>2, <3>3, <4>1
    <3> QED  BY <3>3, <3>4, <3>5
  <2>2. CASE ~ (rest = <<>> /\ k < l)
    <3>1. fin = [cs EXCEPT ![k] = rest]
      BY <2>2 DEF Finish
    <3>2. /\ fin \in Seq(Chain) /\ Len(fin) = l
          /\ \A i \in 1 .. l : fin[i] = IF i = k THEN rest ELSE cs[i]
      <4> HIDE DEF rest, fin
      <4> QED  BY <1>1, <1>3, <3>1, ExceptSeq DEF Chains
    <3>3. DOMAIN fin = 1 .. l
      BY <3>2, LenProperties
    <3> HIDE DEF fin, rest
    <3>4. fin \in Chains
      BY <1>1, <3>2, EmptySeq DEF Chains
    <3> QED  BY <1>1, <3>2, <3>3, <3>4
  <2> QED  BY <2>1, <2>2
<1> HIDE DEF rest, fin
<1>6. JobsOf(fin) \subseteq JobsOf(cs)
  <2> SUFFICES ASSUME NEW job \in JobsOf(fin) PROVE job \in JobsOf(cs)
    OBVIOUS
  <2>1. PICK i \in DOMAIN fin : \E m \in DOMAIN fin[i] : job = fin[i][m]
    BY DEF JobsOf, ToSet
  <2>2. PICK j \in DOMAIN cs : \E m \in DOMAIN cs[j] : job = cs[j][m]
    BY <1>4, <1>5, <2>1
  <2> QED  BY <2>2 DEF JobsOf, ToSet
<1>7. \A i \in DOMAIN fin : OnlyFirstBegun(fin[i])
  BY <1>4, <1>5 DEF OnlyFirstBegun
<1>8. ASSUME l = 1 PROVE \A job \in JobsOf(fin) : job.doing = "queued"
  <2>1. fin[1] = rest /\ DOMAIN fin = {1}
    <3>1. fin \in Seq(Chain) /\ Len(fin) = 1 /\ fin[1] = rest
      BY <1>5, <1>8 DEF Chains
    <3> QED  BY <3>1, LenProperties
  <2> QED  BY <1>4, <2>1 DEF JobsOf, ToSet
<1>9. Len(cs) = 1 => Len(fin) = 1 /\ \A job \in JobsOf(fin) : job.doing = "queued"
  BY <1>5, <1>8 DEF l
<1> QED  BY <1>5, <1>6, <1>7, <1>9 DEF fin

(* A queue that is dropped takes no job with it.                           *)
LEMMA DetachProperties ==
  ASSUME NEW cs \in Chains, \A k \in DOMAIN cs : OnlyFirstBegun(cs[k])
  PROVE  /\ Detach(cs) \in Chains
         /\ JobsOf(Detach(cs)) = JobsOf(cs)
         /\ \A k \in DOMAIN Detach(cs) : OnlyFirstBegun(Detach(cs)[k])
         /\ Last(cs) = <<>> => Detach(cs) = cs
         /\ Last(cs) = <<>> /\ Len(cs) = 1 => JobsOf(cs) = {}
<1> DEFINE l == Len(cs)
<1>1. l \in Nat \ {0} /\ DOMAIN cs = 1 .. l /\ cs \in Seq(Chain)
  BY EmptySeq, LenProperties DEF Chains
<1>2. CASE Last(cs) = <<>>
  <2>1. Detach(cs) = cs
    BY <1>2 DEF Detach
  <2>2. l = 1 => JobsOf(cs) = {}
    <3>1. l = 1 => DOMAIN cs = {1} /\ cs[1] = <<>>
      BY <1>1, <1>2 DEF Last
    <3>2. DOMAIN <<>> = {}
      OBVIOUS
    <3> QED  BY <3>1, <3>2 DEF JobsOf, ToSet
  <2> QED  BY <2>1, <2>2
<1>3. CASE Last(cs) # <<>>
  <2> DEFINE new == Append(cs, <<>>)
  <2>1. Detach(cs) = new
    BY <1>3 DEF Detach
  <2>2. <<>> \in Chain /\ DOMAIN <<>> = {}
    BY EmptySeq DEF Chain
  <2>3. /\ new \in Seq(Chain) /\ DOMAIN new = 1 .. l + 1
        /\ \A k \in 1 .. l : new[k] = cs[k]
        /\ new[l + 1] = <<>>
        /\ Len(new) = l + 1
    BY <1>1, <2>2
  <2> HIDE DEF new
  <2>4. new \in Chains
    BY <1>1, <2>3, EmptySeq DEF Chains
  <2>5. JobsOf(new) = JobsOf(cs)
    BY <1>1, <2>2, <2>3 DEF JobsOf, ToSet
  <2>6. \A k \in DOMAIN new : OnlyFirstBegun(new[k])
    BY <1>1, <2>2, <2>3 DEF OnlyFirstBegun
  <2> QED  BY <1>3, <2>1, <2>4, <2>5, <2>6
<1> QED  BY <1>2, <1>3

(* A first job that begins its effect is the only one that changes.        *)
BegunJob(job, effect, host) == [job EXCEPT !.doing = effect, !.host = host]
WithBegun(cs, k, n, effect, host) == [cs EXCEPT ![k] = [cs[k] EXCEPT ![n] = BegunJob(cs[k][n], effect, host)]]

LEMMA BeginProperties ==
  ASSUME NEW cs \in Chains, NEW k \in DOMAIN cs, NEW n \in DOMAIN cs[k], n = 1,
         \A i \in DOMAIN cs : OnlyFirstBegun(cs[i]), NEW effect \in Effect,
         NEW host \in Host \union {"none"}
  PROVE  /\ WithBegun(cs, k, n, effect, host) \in Chains
         /\ Len(WithBegun(cs, k, n, effect, host)) = Len(cs)
         /\ JobsOf(WithBegun(cs, k, n, effect, host)) \subseteq JobsOf(cs) \union {BegunJob(cs[k][n], effect, host)}
         /\ \A i \in DOMAIN WithBegun(cs, k, n, effect, host) : OnlyFirstBegun(WithBegun(cs, k, n, effect, host)[i])
         /\ Len(cs) = 1 => \A job \in JobsOf(WithBegun(cs, k, n, effect, host)) :
                              job.doing = "queued" \/ job = BegunJob(cs[k][n], effect, host)
<1> DEFINE l == Len(cs)
           begun == BegunJob(cs[k][n], effect, host)
           first == [cs[k] EXCEPT ![n] = begun]
           new == WithBegun(cs, k, n, effect, host)
<1>1. l \in Nat \ {0} /\ DOMAIN cs = 1 .. l /\ k \in 1 .. l /\ cs \in Seq(Chain)
  BY EmptySeq, LenProperties DEF Chains
<1>2. cs[k] \in Chain /\ OnlyFirstBegun(cs[k])
  BY <1>1, ElementOfSeq
<1>3. Len(cs[k]) \in Nat /\ DOMAIN cs[k] = 1 .. Len(cs[k]) /\ cs[k][n] \in Job
  BY <1>2, LenProperties, ElementOfSeq DEF Chain
<1>4. begun \in Job
  BY <1>3 DEF Job, BegunJob
<1>5. new = [cs EXCEPT ![k] = first]
  BY DEF WithBegun
<1> HIDE DEF begun, first, new
<1>6. /\ first \in Chain /\ Len(first) = Len(cs[k])
      /\ \A i \in 1 .. Len(cs[k]) : first[i] = IF i = n THEN begun ELSE cs[k][i]
      /\ DOMAIN first = DOMAIN cs[k]
  BY <1>2, <1>3, <1>4, ExceptSeq DEF Chain, first
<1>7. /\ new \in Seq(Chain) /\ Len(new) = l
      /\ \A i \in 1 .. l : new[i] = IF i = k THEN first ELSE cs[i]
  BY <1>1, <1>5, <1>6, ExceptSeq
<1>8. DOMAIN new = 1 .. l
  BY <1>7, LenProperties
<1>9. new \in Chains
  BY <1>1, <1>7, EmptySeq DEF Chains
<1>10. \A i \in DOMAIN first : first[i] = begun \/ first[i] = cs[k][i]
  BY <1>3, <1>6
<1>11. JobsOf(new) \subseteq JobsOf(cs) \union {begun}
  <2> SUFFICES ASSUME NEW job \in JobsOf(new), job # begun PROVE job \in JobsOf(cs)
    OBVIOUS
  <2>1. PICK i \in DOMAIN new : \E m \in DOMAIN new[i] : job = new[i][m]
    BY DEF JobsOf, ToSet
  <2>2. \E m \in DOMAIN cs[i] : job = cs[i][m]
    BY <1>6, <1>7, <1>8, <1>10, <2>1
  <2>3. i \in DOMAIN cs
    BY <1>1, <1>8
  <2> QED  BY <2>2, <2>3 DEF JobsOf, ToSet
<1>12. OnlyFirstBegun(first)
  BY <1>2, <1>3, <1>6 DEF OnlyFirstBegun
<1>13. \A i \in DOMAIN new : OnlyFirstBegun(new[i])
  BY <1>1, <1>7, <1>8, <1>12
<1>14. ASSUME l = 1, NEW job \in JobsOf(new) PROVE job.doing = "queued" \/ job = begun
  <2>1. DOMAIN new = {1} /\ new[1] = first
    BY <1>1, <1>7, <1>8, <1>14
  <2>2. PICK m \in DOMAIN first : job = first[m]
    BY <2>1 DEF JobsOf, ToSet
  <2>3. m = 1 => job = begun
    BY <1>3, <1>6, <2>2
  <2> QED  BY <1>12, <2>2, <2>3 DEF OnlyFirstBegun
<1>15. Len(cs) = 1 => \A job \in JobsOf(new) : job.doing = "queued" \/ job = begun
  BY <1>14 DEF l
<1>16. Len(new) = Len(cs)
  BY <1>7 DEF l
<1> QED  BY <1>9, <1>11, <1>13, <1>15, <1>16 DEF new, begun

-----------------------------------------------------------------------------
(* The inductive invariant.                                                *)

(* Chains are sequences of jobs, of which only the first has begun, and    *)
(* the reconcile remembers a registry.                                     *)
Queues ==
  /\ chains \in [Camera -> Chains]
  /\ \A c \in Camera : \A k \in DOMAIN chains[c] : OnlyFirstBegun(chains[c][k])

Shape ==
  /\ Queues
  /\ recon \in [phase : {"rest", "retry", "stray"}, reg : [Camera -> Entry],
                todo : (SUBSET Camera) \union (SUBSET (Camera \X Host))]

(* Only the reconcile asks for connections, of one camera at a time, which *)
(* it read to be controlled, and it does not go on before they have ended. *)
Reconnecting(c) == \E job \in Pending(c) : job.by = "reconcile"

OneReconnection ==
  /\ \A c \in Camera : \A job \in Pending(c) :
       /\ job.event = "ReconnectRequested" => job.by = "reconcile"
       /\ job.doing = "Connect" => job.by = "reconcile"
  /\ \A c \in Camera : Reconnecting(c) => recon.phase = "retry" /\ recon.reg[c].kind = "controlled"
  /\ \A c, d \in Camera : Reconnecting(c) /\ Reconnecting(d) => c = d
  /\ recon.phase = "retry" => recon.todo \subseteq Controlled(recon.reg)

(* A camera that was never dropped in the middle of something has one      *)
(* chain, and what runs in it began in the state the map still has, after  *)
(* the last reboot.                                                        *)
OneChain ==
  ~ detached => \A c \in Camera :
    /\ Len(chains[c]) = 1
    /\ Doing(c, "Connect") => states[c] = "Disconnected" /\ c \notin rebooted
    /\ Doing(c, "Disconnect") => states[c] = "Idle"
    /\ c \in rebooted => states[c] # "Idle"

TypeInv == TypeOK /\ Shape
ReconcileInv == TypeInv /\ OneReconnection /\ AcceptingIsControlled
IInv == ReconcileInv /\ OneChain

-----------------------------------------------------------------------------
(* What the steps do to the queues.                                        *)

LEMMA JobEnds ==
  ASSUME Queues, NEW c \in Camera, NEW k \in DOMAIN chains[c], NEW n \in DOMAIN chains[c][k],
         n = 1, chains' = [chains EXCEPT ![c] = Finish(@, k, n)]
  PROVE  /\ Queues'
         /\ \A d \in Camera : Pending(d)' \subseteq Pending(d)
         /\ \A d \in Camera \ {c} : chains'[d] = chains[d] /\ Pending(d)' = Pending(d)
         /\ Len(chains[c]) = 1 =>
              Len(chains'[c]) = 1 /\ \A job \in Pending(c)' : job.doing = "queued"
<1> DEFINE fin == Finish(chains[c], k, n)
<1>1. /\ fin \in Chains
      /\ JobsOf(fin) \subseteq JobsOf(chains[c])
      /\ \A i \in DOMAIN fin : OnlyFirstBegun(fin[i])
      /\ Len(chains[c]) = 1 => Len(fin) = 1 /\ \A job \in JobsOf(fin) : job.doing = "queued"
  BY FinishProperties DEF Queues
<1>2. chains' = [chains EXCEPT ![c] = fin]
  OBVIOUS
<1> HIDE DEF fin
<1>3. /\ chains' \in [Camera -> Chains] /\ chains'[c] = fin
      /\ \A d \in Camera \ {c} : chains'[d] = chains[d]
  BY <1>1, <1>2 DEF Queues
<1>4. Queues'
  BY <1>1, <1>3 DEF Queues
<1>5. Pending(c)' = JobsOf(fin) /\ Pending(c) = JobsOf(chains[c])
  BY <1>3 DEF Pending, JobsOf
<1>6. \A d \in Camera \ {c} : Pending(d)' = Pending(d)
  BY <1>3 DEF Pending
<1> QED  BY <1>1, <1>3, <1>4, <1>5, <1>6

(* Of some jobs, none has begun but one.                                   *)
OnlyRuns(jobs, begun) == \A job \in jobs : job.doing = "queued" \/ job = begun

LEMMA JobBegun ==
  ASSUME Queues, NEW c \in Camera, NEW k \in DOMAIN chains[c], NEW n \in DOMAIN chains[c][k],
         n = 1, NEW effect \in Effect, NEW host \in Host \union {"none"},
         chains' = [chains EXCEPT ![c][k][n] = [@ EXCEPT !.doing = effect, !.host = host]]
  PROVE  /\ Queues'
         /\ chains[c][k][n] \in Pending(c)
         /\ Pending(c)' \subseteq Pending(c) \union {BegunJob(chains[c][k][n], effect, host)}
         /\ \A d \in Camera \ {c} : chains'[d] = chains[d] /\ Pending(d)' = Pending(d)
         /\ Len(chains[c]) = 1 => Len(chains'[c]) = 1
         /\ Len(chains[c]) = 1 => OnlyRuns(Pending(c)', BegunJob(chains[c][k][n], effect, host))
<1> DEFINE new == WithBegun(chains[c], k, n, effect, host)
           begun == BegunJob(chains[c][k][n], effect, host)
<1>1. /\ new \in Chains /\ Len(new) = Len(chains[c])
      /\ JobsOf(new) \subseteq JobsOf(chains[c]) \union {begun}
      /\ \A i \in DOMAIN new : OnlyFirstBegun(new[i])
      /\ Len(chains[c]) = 1 => \A job \in JobsOf(new) : job.doing = "queued" \/ job = begun
  <2>1. chains[c] \in Chains /\ \A i \in DOMAIN chains[c] : OnlyFirstBegun(chains[c][i])
    BY DEF Queues
  <2> QED  BY <2>1, BeginProperties
<1>2. chains' = [chains EXCEPT ![c] = new]
  BY DEF WithBegun, BegunJob
<1>3. chains[c][k][n] \in Pending(c)
  BY DEF Pending, ToSet
<1> HIDE DEF new, begun
<1>4. /\ chains' \in [Camera -> Chains] /\ chains'[c] = new
      /\ \A d \in Camera \ {c} : chains'[d] = chains[d]
  BY <1>1, <1>2 DEF Queues
<1>5. Queues'
  BY <1>1, <1>4 DEF Queues
<1>6. Pending(c)' = JobsOf(new) /\ Pending(c) = JobsOf(chains[c])
  <2>1. Pending(c)' = JobsOf(chains'[c]) /\ Pending(c) = JobsOf(chains[c])
    BY Zenon DEF Pending, JobsOf
  <2> QED  BY <1>4, <2>1, Zenon
<1>7. \A d \in Camera \ {c} : Pending(d)' = Pending(d)
  BY <1>4 DEF Pending
<1>8. Len(chains[c]) = 1 => Len(chains'[c]) = 1
  BY <1>1, <1>4
<1>9. Len(chains[c]) = 1 => OnlyRuns(Pending(c)', begun)
  BY <1>1, <1>6 DEF OnlyRuns
<1> QED  BY <1>1, <1>3, <1>4, <1>5, <1>6, <1>7, <1>8, <1>9 DEF begun

LEMMA JobsQueued ==
  ASSUME Queues, NEW some \in SUBSET Camera, NEW job \in Job, job.doing = "queued",
         chains' = [d \in Camera |-> IF d \in some THEN Enqueue(chains[d], job) ELSE chains[d]]
  PROVE  /\ Queues'
         /\ \A d \in Camera :
              /\ Len(chains'[d]) = Len(chains[d])
              /\ Pending(d)' = IF d \in some THEN Pending(d) \union {job} ELSE Pending(d)
<1>1. ASSUME NEW d \in Camera
      PROVE  /\ Enqueue(chains[d], job) \in Chains
             /\ Len(Enqueue(chains[d], job)) = Len(chains[d])
             /\ JobsOf(Enqueue(chains[d], job)) = JobsOf(chains[d]) \union {job}
             /\ \A k \in DOMAIN Enqueue(chains[d], job) : OnlyFirstBegun(Enqueue(chains[d], job)[k])
  BY EnqueueProperties DEF Queues
<1>2. Queues'
  BY <1>1 DEF Queues
<1>3. ASSUME NEW d \in Camera
      PROVE  /\ Len(chains'[d]) = Len(chains[d])
             /\ Pending(d)' = IF d \in some THEN Pending(d) \union {job} ELSE Pending(d)
  <2>1. Pending(d)' = JobsOf(chains'[d]) /\ Pending(d) = JobsOf(chains[d])
    BY DEF Pending, JobsOf
  <2> QED  BY <1>1, <2>1
<1> QED  BY <1>2, <1>3

(* The same for one camera.                                                *)
LEMMA JobQueued ==
  ASSUME Queues, NEW c \in Camera, NEW job \in Job, job.doing = "queued",
         chains' = [chains EXCEPT ![c] = Enqueue(@, job)]
  PROVE  /\ Queues'
         /\ \A d \in Camera :
              /\ Len(chains'[d]) = Len(chains[d])
              /\ Pending(d)' = IF d = c THEN Pending(d) \union {job} ELSE Pending(d)
<1> DEFINE next(d) == Enqueue(chains[d], job)
<1>1. chains' = [chains EXCEPT ![c] = next(c)]
  OBVIOUS
<1> HIDE DEF next
<1>2. chains' = [d \in Camera |-> IF d \in {c} THEN next(d) ELSE chains[d]]
  BY <1>1 DEF Queues
<1>3. chains' = [d \in Camera |-> IF d \in {c} THEN Enqueue(chains[d], job) ELSE chains[d]]
  BY <1>2 DEF next
<1>4. {c} \in SUBSET Camera
  OBVIOUS
<1>5. /\ Queues'
      /\ \A d \in Camera :
           /\ Len(chains'[d]) = Len(chains[d])
           /\ Pending(d)' = IF d \in {c} THEN Pending(d) \union {job} ELSE Pending(d)
  BY <1>3, <1>4, JobsQueued, Zenon
<1> QED  BY <1>5

LEMMA QueuesDropped ==
  ASSUME Queues, NEW some \in SUBSET Camera,
         chains' = [d \in Camera |-> IF d \in some THEN Detach(chains[d]) ELSE chains[d]]
  PROVE  /\ Queues'
         /\ \A d \in Camera :
              /\ Pending(d)' = Pending(d)
              /\ Last(chains[d]) = <<>> \/ d \notin some => chains'[d] = chains[d]
              /\ Last(chains[d]) = <<>> /\ Len(chains[d]) = 1 => Pending(d) = {}
<1>1. ASSUME NEW d \in Camera
      PROVE  /\ Detach(chains[d]) \in Chains
             /\ JobsOf(Detach(chains[d])) = JobsOf(chains[d])
             /\ \A k \in DOMAIN Detach(chains[d]) : OnlyFirstBegun(Detach(chains[d])[k])
             /\ Last(chains[d]) = <<>> => Detach(chains[d]) = chains[d]
             /\ Last(chains[d]) = <<>> /\ Len(chains[d]) = 1 => JobsOf(chains[d]) = {}
  BY DetachProperties DEF Queues
<1>2. Queues'
  BY <1>1 DEF Queues
<1>3. ASSUME NEW d \in Camera
      PROVE  /\ Pending(d)' = Pending(d)
             /\ Last(chains[d]) = <<>> \/ d \notin some => chains'[d] = chains[d]
             /\ Last(chains[d]) = <<>> /\ Len(chains[d]) = 1 => Pending(d) = {}
  <2>1. Pending(d)' = JobsOf(chains'[d]) /\ Pending(d) = JobsOf(chains[d])
    BY DEF Pending, JobsOf
  <2> QED  BY <1>1, <2>1
<1> QED  BY <1>2, <1>3

(* A job that has begun is the first of its chain.                         *)
LEMMA BegunIsFirst ==
  ASSUME Queues, NEW c \in Camera, NEW k \in DOMAIN chains[c], NEW n \in DOMAIN chains[c][k],
         chains[c][k][n].doing # "queued"
  PROVE  n = 1 /\ chains[c][k][n] \in Pending(c)
BY DEF Queues, OnlyFirstBegun, Pending, ToSet

LEMMA ChainsTyped ==
  ASSUME NEW cs \in Chains
  PROVE  Len(cs) > 0 /\ JobsOf(cs) \subseteq Job
<1>1. Len(cs) \in Nat \ {0} /\ DOMAIN cs = 1 .. Len(cs)
  BY EmptySeq, LenProperties DEF Chains
<1>2. ASSUME NEW k \in DOMAIN cs, NEW n \in DOMAIN cs[k] PROVE cs[k][n] \in Job
  <2>1. cs[k] \in Seq(Job)
    BY <1>1, ElementOfSeq DEF Chains, Chain
  <2> QED  BY <2>1, ElementOfSeq, LenProperties
<1> QED  BY <1>1, <1>2 DEF JobsOf, ToSet

-----------------------------------------------------------------------------
(* Types.                                                                  *)

LEMMA InitTyped == Init => TypeInv
<1> SUFFICES ASSUME Init PROVE TypeInv
  OBVIOUS
<1>1. << <<>> >> \in Chains /\ DOMAIN << <<>> >> = {1} /\ << <<>> >>[1] = <<>>
  BY DEF Chains, Chain
<1>2. Queues
  BY <1>1 DEF Init, Queues, OnlyFirstBegun
<1>3. \A c \in Camera : Len(chains[c]) > 0 /\ Pending(c) \subseteq Job
  BY <1>2, ChainsTyped, PendingIsJobs DEF Queues
<1>4. recon \in [phase : {"rest", "retry", "stray"}, reg : [Camera -> Entry],
                 todo : (SUBSET Camera) \union (SUBSET (Camera \X Host))]
  <2>1. registry \in [Camera -> Entry]
    BY DEF Init
  <2>2. [c \in Camera |-> [kind |-> "absent", host |-> registry[c].host]] \in [Camera -> Entry]
    BY <2>1 DEF Entry, Kind
  <2> QED  BY <2>2 DEF Init
<1>5. spent \in [edits : 0 .. MaxEdits, commands : 0 .. MaxCommands, faults : 0 .. MaxFaults]
  BY BoundsAssumption DEF Init
<1>6. /\ states \in [Camera -> State] /\ dials \in [Camera -> Host \union {"none"}]
      /\ poll \in [busy : BOOLEAN, seen : SUBSET (Camera \X Host)]
  BY DEF Init, State
<1>7. /\ registry \in [Camera -> Entry] /\ reach \subseteq Camera /\ at \in [Camera -> Host]
      /\ link \subseteq Camera \X Host /\ listed \subseteq Camera \X Host
      /\ rebooted \subseteq Camera /\ detached \in BOOLEAN
      /\ recon.phase = "rest" /\ recon.todo \subseteq Camera
  BY DEF Init
<1> QED  BY <1>2, <1>3, <1>4, <1>5, <1>6, <1>7 DEF TypeInv, TypeOK, Shape

(* The steps keep the types: of what is queued, by the lemmas above; of    *)
(* the rest, by their definitions.                                         *)
LEMMA StepTyped == TypeInv /\ [Next]_vars => TypeInv'
<1> SUFFICES ASSUME TypeInv, [Next]_vars PROVE TypeInv'
  OBVIOUS
<1> USE BoundsAssumption
<1>1. ASSUME Queues' PROVE \A c \in Camera : Len(chains'[c]) > 0 /\ Pending(c)' \subseteq Job
  <2>1. \A c \in Camera : Pending(c)' = JobsOf(chains'[c])
    BY DEF Pending, JobsOf
  <2>2. \A c \in Camera : chains'[c] \in Chains
    BY <1>1 DEF Queues
  <2> QED  BY <2>1, <2>2, ChainsTyped
<1>2. ASSUME UNCHANGED chains PROVE Queues'
  BY <1>2 DEF TypeInv, Shape, Queues
<1>3. Queues
  BY DEF TypeInv, Shape
<1> USE DEF TypeInv, TypeOK, Shape
<1>4. ASSUME NEW c \in Camera, JobBegins(c) PROVE TypeInv'
  <2>0. PICK k \in DOMAIN chains[c] : \E n \in DOMAIN chains[c][k] : Begin(c, k, n)
    BY <1>4 DEF JobBegins
  <2>1. PICK n \in DOMAIN chains[c][k] : Begin(c, k, n)
    BY <2>0
  <2>2. n = 1
    BY <2>1 DEF Begin, Turn
  <2> DEFINE effect == EffectOf(states[c], chains[c][k][n].event)
  <2>3. Queues'
    <3>1. CASE effect \in Effect
      <4>1. chains' = [chains EXCEPT ![c][k][n] = [@ EXCEPT !.doing = effect, !.host = dials[c]]]
        BY <2>1, <3>1 DEF Begin
      <4> HIDE DEF effect
      <4> QED  BY <1>3, <2>2, <3>1, <4>1, JobBegun
    <3>2. CASE effect \notin Effect
      <4>1. chains' = [chains EXCEPT ![c] = Finish(@, k, n)]
        BY <2>1, <3>2 DEF Begin
      <4> QED  BY <1>3, <2>2, <4>1, JobEnds
    <3> QED  BY <3>1, <3>2
  <2>4. states' \in [Camera -> State] /\ rebooted' \subseteq Camera
    BY <2>1 DEF Begin, StateAfter, State
  <2> QED  BY <1>1, <2>1, <2>3, <2>4 DEF Begin
<1>5. ASSUME NEW c \in Camera, NEW established \in BOOLEAN, Connects(c, established) PROVE TypeInv'
  <2>0. PICK k \in DOMAIN chains[c] : \E n \in DOMAIN chains[c][k] : ConnectEnds(c, k, n, established)
    BY <1>5 DEF Connects
  <2>1. PICK n \in DOMAIN chains[c][k] : ConnectEnds(c, k, n, established)
    BY <2>0
  <2>2. n = 1
    BY <1>3, <2>1, BegunIsFirst DEF ConnectEnds
  <2>3. Queues'
    BY <1>3, <2>1, <2>2, JobEnds DEF ConnectEnds
  <2>4. chains[c][k][n].host \in Host \union {"none"}
    BY <1>3, <2>1, BegunIsFirst DEF ConnectEnds, Job
  <2>5. link' \subseteq Camera \X Host
    BY <2>1, <2>4 DEF ConnectEnds, AnswersAt
  <2>6. states' \in [Camera -> State] /\ dials' \in [Camera -> Host \union {"none"}]
    BY <2>1, <2>4 DEF ConnectEnds, State
  <2> QED  BY <1>1, <2>1, <2>3, <2>5, <2>6 DEF ConnectEnds
<1>6. ASSUME NEW c \in Camera, Disconnects(c) PROVE TypeInv'
  <2>0. PICK k \in DOMAIN chains[c] : \E n \in DOMAIN chains[c][k] : DisconnectEnds(c, k, n)
    BY <1>6 DEF Disconnects
  <2>1. PICK n \in DOMAIN chains[c][k] : DisconnectEnds(c, k, n)
    BY <2>0
  <2>2. n = 1
    BY <1>3, <2>1, BegunIsFirst DEF DisconnectEnds
  <2>3. Queues'
    BY <1>3, <2>1, <2>2, JobEnds DEF DisconnectEnds
  <2>4. chains[c][k][n].host \in Host \union {"none"}
    BY <1>3, <2>1, BegunIsFirst DEF DisconnectEnds, Job
  <2>5. link' \subseteq Camera \X Host
    BY <2>1 DEF DisconnectEnds
  <2>6. states' \in [Camera -> State] /\ dials' \in [Camera -> Host \union {"none"}]
    BY <2>1, <2>4 DEF DisconnectEnds, State
  <2> QED  BY <1>1, <2>1, <2>3, <2>5, <2>6 DEF DisconnectEnds
<1>7. CASE ReconcileStart
  <2>1. PICK some \in SUBSET Camera :
          chains' = [c \in Camera |-> IF c \in some THEN Detach(chains[c]) ELSE chains[c]]
    BY <1>7 DEF ReconcileStart
  <2>2. Queues'
    BY <1>3, <2>1, QueuesDropped
  <2>3. states' \in [Camera -> State] /\ dials' \in [Camera -> Host \union {"none"}]
    <3>1. states' \in [Camera -> State]
      BY <1>7 DEF ReconcileStart, State
    <3>2. \A c \in Camera : registry[c].host \in Host
      BY DEF Entry
    <3>3. dials' = [c \in Camera |->
                      CASE c \notin Controlled(registry) -> "none"
                        [] c \in Controlled(registry) /\ states[c] = "none" -> registry[c].host
                        [] OTHER -> dials[c]]
      BY <1>7 DEF ReconcileStart
    <3> QED  BY <3>1, <3>2, <3>3
  <2>4. recon' \in [phase : {"rest", "retry", "stray"}, reg : [Camera -> Entry],
                    todo : (SUBSET Camera) \union (SUBSET (Camera \X Host))]
    BY <1>7 DEF ReconcileStart, Controlled
  <2>5. rebooted' \subseteq Camera /\ detached' \in BOOLEAN
    BY <1>7 DEF ReconcileStart
  <2>6. recon'.phase = "retry" /\ recon'.todo \subseteq Camera
    BY <1>7 DEF ReconcileStart, Controlled
  <2> QED  BY <1>1, <1>7, <2>2, <2>3, <2>4, <2>5, <2>6 DEF ReconcileStart
<1>8. ASSUME NEW c \in Camera, Reconnect(c) PROVE TypeInv'
  <2>1. NewJob("ReconnectRequested", "reconcile") \in Job
        /\ NewJob("ReconnectRequested", "reconcile").doing = "queued"
    BY DEF NewJob, Job, Event
  <2>2. Queues'
    BY <1>3, <1>8, <2>1, JobQueued DEF Reconnect
  <2> QED  BY <1>1, <1>8, <2>2 DEF Reconnect
<1>9. CASE FindStrays
  BY <1>1, <1>2, <1>9 DEF FindStrays, Known
<1>10. ASSUME NEW e \in Camera \X Host, DisconnectStray(e) PROVE TypeInv'
  BY <1>1, <1>2, <1>10 DEF DisconnectStray
<1>11. CASE ReconcileEnds
  BY <1>1, <1>2, <1>11 DEF ReconcileEnds
<1>12. CASE PollReads
  BY <1>1, <1>2, <1>12 DEF PollReads
<1>13. CASE PollFails
  BY <1>1, <1>2, <1>13 DEF PollFails
<1>14. CASE PollPublishes
  <2>1. NewJob("ConnectionLost", "others") \in Job /\ NewJob("ConnectionLost", "others").doing = "queued"
    BY DEF NewJob, Job, Event
  <2>2. PICK some \in SUBSET Camera :
          chains' = [c \in Camera |-> IF c \in some THEN Enqueue(chains[c], NewJob("ConnectionLost", "others"))
                                      ELSE chains[c]]
    BY <1>14 DEF PollPublishes
  <2>3. Queues'
    BY <1>3, <2>1, <2>2, JobsQueued
  <2> QED  BY <1>1, <1>14, <2>3 DEF PollPublishes
<1>15. ASSUME NEW c \in Camera, NEW event \in Event, Report(c, event) PROVE TypeInv'
  <2>1. NewJob(event, "others") \in Job /\ NewJob(event, "others").doing = "queued"
    BY DEF NewJob, Job
  <2>2. Queues'
    BY <1>3, <1>15, <2>1, JobQueued DEF Report
  <2> QED  BY <1>1, <1>15, <2>2 DEF Report, Spend
<1>16. ASSUME NEW c \in Camera, NEW kind \in Kind, EditRegistry(c, kind)
       PROVE TypeInv'
  <2>1. registry' \in [Camera -> Entry]
    BY <1>16 DEF EditRegistry, Entry
  <2> QED  BY <1>1, <1>2, <1>16, <2>1 DEF EditRegistry, Spend
<1>17. ASSUME NEW c \in Camera, PowerOff(c) PROVE TypeInv'
  BY <1>1, <1>2, <1>17 DEF PowerOff, Spend
<1>18. ASSUME NEW c \in Camera, PowerOn(c) PROVE TypeInv'
  BY <1>1, <1>2, <1>18 DEF PowerOn
<1>19. ASSUME NEW c \in Camera, NEW host \in Host, LinkDrops(c, host) PROVE TypeInv'
  <2>1. link' \subseteq Camera \X Host
    BY <1>19 DEF LinkDrops
  <2>2. spent' \in [edits : 0 .. MaxEdits, commands : 0 .. MaxCommands, faults : 0 .. MaxFaults]
    BY <1>19 DEF LinkDrops, Spend
  <2> QED  BY <1>1, <1>2, <1>19, <2>1, <2>2 DEF LinkDrops
<1>21. ASSUME NEW c \in Camera, NEW host \in Host, EditAddress(c, host) PROVE TypeInv'
  <2>1. registry' \in [Camera -> Entry]
    BY <1>21 DEF EditAddress, Entry
  <2> QED  BY <1>1, <1>2, <1>21, <2>1 DEF EditAddress, Spend
<1>22. ASSUME NEW c \in Camera, NEW host \in Host, Moves(c, host) PROVE TypeInv'
  BY <1>1, <1>2, <1>22 DEF Moves, Spend
<1>20. CASE UNCHANGED vars
  BY <1>1, <1>2, <1>20 DEF vars
<1> HIDE DEF TypeInv, TypeOK, Shape
<1> QED  BY <1>4, <1>5, <1>6, <1>7, <1>8, <1>9, <1>10, <1>11, <1>12, <1>13, <1>14, <1>15, <1>16,
            <1>17, <1>18, <1>19, <1>20, <1>21, <1>22 DEF Next

(* Every variable keeps its shape, and the map holds no state of a         *)
(* connection that is under way.                                           *)
THEOREM TypeCorrect == Spec => []TypeOK
<1>1. Spec => []TypeInv
  BY InitTyped, StepTyped, PTL DEF Spec
<1>2. TypeInv => TypeOK
  BY DEF TypeInv
<1> QED  BY <1>1, <1>2, PTL

-----------------------------------------------------------------------------
(* Connections.                                                            *)

(* A job goes back to one that was there: begun at most, and a connection  *)
(* only by a request for it.                                               *)
Descends(job, old) ==
  /\ job.by = old.by /\ job.event = old.event
  /\ job.doing = "Connect" => old.doing = "Connect" \/ old.event = "ReconnectRequested"

(* A job that others than the reconcile dispatch.                          *)
Harmless(job) ==
  job.by = "others" /\ job.event # "ReconnectRequested" /\ job.doing = "queued"

NothingNew ==
  \A c \in Camera : \A job \in Pending(c)' :
    Harmless(job) \/ \E old \in Pending(c) : Descends(job, old)

(* Steps that dispatch no connection and leave the reconcile alone.        *)
LEMMA QuietStep ==
  ASSUME OneReconnection, NothingNew, UNCHANGED recon
  PROVE  OneReconnection'
<1>1. ASSUME NEW c \in Camera, Reconnecting(c)' PROVE Reconnecting(c)
  <2>1. PICK job \in Pending(c)' : job.by = "reconcile"
    BY <1>1 DEF Reconnecting
  <2>2. ~ Harmless(job)
    BY <2>1 DEF Harmless
  <2>3. PICK old \in Pending(c) : Descends(job, old)
    BY <2>2 DEF NothingNew
  <2> QED  BY <2>1, <2>3 DEF Reconnecting, Descends
<1>2. ASSUME NEW c \in Camera, NEW job \in Pending(c)'
      PROVE  /\ job.event = "ReconnectRequested" => job.by = "reconcile"
             /\ job.doing = "Connect" => job.by = "reconcile"
  <2>1. CASE Harmless(job)
    BY <2>1 DEF Harmless
  <2>2. ASSUME NEW old \in Pending(c), Descends(job, old)
        PROVE  /\ job.event = "ReconnectRequested" => job.by = "reconcile"
               /\ job.doing = "Connect" => job.by = "reconcile"
    <3>1. /\ old.event = "ReconnectRequested" => old.by = "reconcile"
          /\ old.doing = "Connect" => old.by = "reconcile"
      BY DEF OneReconnection
    <3> QED  BY <2>2, <3>1 DEF Descends
  <2> QED  BY <2>1, <2>2 DEF NothingNew
<1>3. \A c \in Camera : Reconnecting(c)' => recon'.phase = "retry" /\ recon'.reg[c].kind = "controlled"
  BY <1>1 DEF OneReconnection
<1>4. \A c, d \in Camera : Reconnecting(c)' /\ Reconnecting(d)' => c = d
  BY <1>1 DEF OneReconnection
<1>5. recon'.phase = "retry" => recon'.todo \subseteq Controlled(recon'.reg)
  BY DEF OneReconnection
<1> QED  BY <1>2, <1>3, <1>4, <1>5 DEF OneReconnection

(* Fewer jobs, or the same, are nothing new.                               *)
LEMMA FewerJobs ==
  ASSUME \A c \in Camera : Pending(c)' \subseteq Pending(c)
  PROVE  NothingNew
BY DEF NothingNew, Descends

(* Nor is one that begins.                                                 *)
LEMMA BeginsNothingNew ==
  ASSUME TypeInv, NEW c \in Camera, JobBegins(c)
  PROVE  NothingNew
<1>0. PICK k \in DOMAIN chains[c] : \E n \in DOMAIN chains[c][k] : Begin(c, k, n)
  BY DEF JobBegins
<1>1. PICK n \in DOMAIN chains[c][k] : Begin(c, k, n)
  BY <1>0
<1>2. n = 1 /\ Queues
  BY <1>1 DEF Begin, Turn, TypeInv, Shape
<1> DEFINE old == chains[c][k][n]
           effect == EffectOf(states[c], old.event)
           begun == BegunJob(old, effect, dials[c])
<1>3. CASE effect \in Effect
  <2>1. chains' = [chains EXCEPT ![c][k][n] = [@ EXCEPT !.doing = effect, !.host = dials[c]]]
    BY <1>1, <1>3 DEF Begin
  <2>2. effect = "Connect" => old.event = "ReconnectRequested"
    BY DEF EffectOf
  <2> HIDE DEF effect
  <2>3. /\ old \in Pending(c)
        /\ Pending(c)' \subseteq Pending(c) \union {begun}
        /\ \A d \in Camera \ {c} : Pending(d)' = Pending(d)
    <3>1. dials[c] \in Host \union {"none"}
      BY DEF TypeInv, TypeOK
    <3> QED  BY <1>2, <1>3, <2>1, <3>1, JobBegun
  <2>4. old \in Job
    BY <2>3 DEF TypeInv, TypeOK
  <2>5. Descends(begun, old)
    BY <2>2, <2>4 DEF Descends, BegunJob, Job
  <2> HIDE DEF begun, old
  <2> QED  BY <2>3, <2>5 DEF NothingNew, Descends
<1>4. CASE effect \notin Effect
  <2>1. chains' = [chains EXCEPT ![c] = Finish(@, k, n)]
    BY <1>1, <1>4 DEF Begin
  <2>2. \A d \in Camera : Pending(d)' \subseteq Pending(d)
    BY <1>2, <2>1, JobEnds
  <2> QED  BY <2>2, FewerJobs
<1> QED  BY <1>3, <1>4

LEMMA JobsUnchanged ==
  ASSUME UNCHANGED chains
  PROVE  /\ \A c \in Camera : Pending(c)' = Pending(c)
         /\ NothingNew
<1>1. \A c \in Camera : Pending(c)' = Pending(c)
  BY DEF Pending
<1> QED  BY <1>1, FewerJobs

(* While the reconcile awaits nothing, no camera is reconnecting.          *)
LEMMA NotAwaiting == Awaiting <=> \E c \in Camera : Reconnecting(c)
BY DEF Awaiting, Reconnecting

LEMMA InitReconcile == Init => OneReconnection /\ AcceptingIsControlled
<1> SUFFICES ASSUME Init PROVE OneReconnection /\ AcceptingIsControlled
  OBVIOUS
<1>1. \A c \in Camera : Pending(c) = {}
  <2>1. DOMAIN << <<>> >> = {1} /\ << <<>> >>[1] = <<>> /\ DOMAIN <<>> = {}
    OBVIOUS
  <2> QED  BY <2>1 DEF Init, Pending, ToSet
<1>2. recon.phase # "retry" /\ \A c \in Camera : ~ Accepts(c)
  BY DEF Init, Accepts
<1> QED  BY <1>1, <1>2 DEF OneReconnection, AcceptingIsControlled, Reconnecting

(* One reconnection at a time, of a controlled camera, whoever dispatches. *)
LEMMA StepReconnection == ReconcileInv /\ [Next]_vars => OneReconnection'
<1> SUFFICES ASSUME ReconcileInv, [Next]_vars PROVE OneReconnection'
  OBVIOUS
<1>1. OneReconnection /\ TypeInv /\ Queues
  BY DEF ReconcileInv, TypeInv, Shape
<1>2. ASSUME UNCHANGED <<chains, recon>> PROVE OneReconnection'
  BY <1>1, <1>2, JobsUnchanged, QuietStep
<1>3. ASSUME NEW c \in Camera, JobBegins(c) PROVE OneReconnection'
  <2>1. NothingNew
    BY <1>1, <1>3, BeginsNothingNew
  <2>2. UNCHANGED recon
    BY <1>3 DEF JobBegins, Begin
  <2> QED  BY <1>1, <2>1, <2>2, QuietStep
<1>4. ASSUME NEW c \in Camera, NEW established \in BOOLEAN, Connects(c, established)
      PROVE  OneReconnection'
  <2>1. PICK k \in DOMAIN chains[c] : \E n \in DOMAIN chains[c][k] : ConnectEnds(c, k, n, established)
    BY <1>4 DEF Connects
  <2>2. PICK n \in DOMAIN chains[c][k] : ConnectEnds(c, k, n, established)
    BY <2>1
  <2>3. n = 1
    BY <1>1, <2>2, BegunIsFirst DEF ConnectEnds
  <2>4. \A d \in Camera : Pending(d)' \subseteq Pending(d)
    BY <1>1, <2>2, <2>3, JobEnds DEF ConnectEnds
  <2>5. UNCHANGED recon
    BY <2>2 DEF ConnectEnds
  <2> QED  BY <1>1, <2>4, <2>5, FewerJobs, QuietStep
<1>5. ASSUME NEW c \in Camera, Disconnects(c) PROVE OneReconnection'
  <2>1. PICK k \in DOMAIN chains[c] : \E n \in DOMAIN chains[c][k] : DisconnectEnds(c, k, n)
    BY <1>5 DEF Disconnects
  <2>2. PICK n \in DOMAIN chains[c][k] : DisconnectEnds(c, k, n)
    BY <2>1
  <2>3. n = 1
    BY <1>1, <2>2, BegunIsFirst DEF DisconnectEnds
  <2>4. \A d \in Camera : Pending(d)' \subseteq Pending(d)
    BY <1>1, <2>2, <2>3, JobEnds DEF DisconnectEnds
  <2>5. UNCHANGED recon
    BY <2>2 DEF DisconnectEnds
  <2> QED  BY <1>1, <2>4, <2>5, FewerJobs, QuietStep
<1>6. CASE ReconcileStart
  <2>1. PICK some \in SUBSET Camera :
          chains' = [c \in Camera |-> IF c \in some THEN Detach(chains[c]) ELSE chains[c]]
    BY <1>6 DEF ReconcileStart
  <2>2. \A c \in Camera : Pending(c)' = Pending(c)
    BY <1>1, <2>1, QueuesDropped
  <2>3. \A c \in Camera : ~ Reconnecting(c)
    BY <1>1, <1>6 DEF OneReconnection, ReconcileStart
  <2>4. \A c \in Camera : ~ Reconnecting(c)'
    BY <2>2, <2>3 DEF Reconnecting
  <2>5. recon'.todo \subseteq Controlled(recon'.reg)
    BY <1>6 DEF ReconcileStart
  <2> QED  BY <1>1, <2>2, <2>4, <2>5 DEF OneReconnection
<1>7. ASSUME NEW c \in Camera, Reconnect(c) PROVE OneReconnection'
  <2> DEFINE job == NewJob("ReconnectRequested", "reconcile")
  <2>1. /\ job \in Job /\ job.doing = "queued" /\ job.by = "reconcile"
        /\ job.event = "ReconnectRequested"
    BY DEF NewJob, Job, Event
  <2>2. chains' = [chains EXCEPT ![c] = Enqueue(@, job)]
    BY <1>7 DEF Reconnect
  <2> HIDE DEF job
  <2>3. \A d \in Camera : Pending(d)' = IF d = c THEN Pending(d) \union {job} ELSE Pending(d)
    BY <1>1, <2>1, <2>2, JobQueued
  <2>4. \A d \in Camera : ~ Reconnecting(d)
    BY <1>7, NotAwaiting DEF Reconnect
  <2>5. \A d \in Camera : Reconnecting(d)' => d = c
    BY <2>3, <2>4 DEF Reconnecting
  <2>6. /\ recon'.phase = "retry" /\ recon'.reg = recon.reg
        /\ recon'.todo \subseteq recon.todo /\ c \in recon.todo
    BY <1>1, <1>7 DEF Reconnect, TypeInv, Shape
  <2>7. recon.todo \subseteq Controlled(recon.reg)
    BY <1>1, <1>7 DEF OneReconnection, Reconnect
  <2>8. recon'.reg[c].kind = "controlled" /\ recon'.todo \subseteq Controlled(recon'.reg)
    BY <2>6, <2>7 DEF Controlled
  <2>9. \A d \in Camera : \A j \in Pending(d)' :
          /\ j.event = "ReconnectRequested" => j.by = "reconcile"
          /\ j.doing = "Connect" => j.by = "reconcile"
    BY <1>1, <2>1, <2>3 DEF OneReconnection
  <2> QED  BY <2>5, <2>6, <2>8, <2>9 DEF OneReconnection
<1>8. CASE FindStrays
  <2>1. \A d \in Camera : ~ Reconnecting(d)
    BY <1>8, NotAwaiting DEF FindStrays
  <2>2. \A d \in Camera : Pending(d)' = Pending(d)
    BY <1>8, JobsUnchanged DEF FindStrays
  <2>3. \A d \in Camera : ~ Reconnecting(d)'
    BY <2>1, <2>2 DEF Reconnecting
  <2>4. recon'.phase # "retry"
    BY <1>1, <1>8 DEF FindStrays, TypeInv, Shape
  <2> QED  BY <1>1, <2>2, <2>3, <2>4 DEF OneReconnection
<1>9. ASSUME recon.phase = "stray", recon'.phase # "retry", UNCHANGED chains PROVE OneReconnection'
  <2>1. \A d \in Camera : Pending(d)' = Pending(d)
    BY <1>9, JobsUnchanged
  <2>2. \A d \in Camera : ~ Reconnecting(d)'
    BY <1>1, <1>9, <2>1 DEF OneReconnection, Reconnecting
  <2> QED  BY <1>1, <1>9, <2>1, <2>2 DEF OneReconnection
<1>10. ASSUME NEW e \in Camera \X Host, DisconnectStray(e) PROVE OneReconnection'
  <2>1. recon'.phase = recon.phase
    BY <1>1, <1>10 DEF DisconnectStray, TypeInv, Shape
  <2> QED  BY <1>9, <1>10, <2>1 DEF DisconnectStray
<1>11. CASE ReconcileEnds
  <2>1. recon'.phase = "rest"
    BY <1>1, <1>11 DEF ReconcileEnds, TypeInv, Shape
  <2> QED  BY <1>9, <1>11, <2>1 DEF ReconcileEnds
<1>12. CASE PollPublishes
  <2> DEFINE job == NewJob("ConnectionLost", "others")
  <2>1. job \in Job /\ Harmless(job) /\ job.doing = "queued"
    BY DEF NewJob, Job, Event, Harmless
  <2>2. PICK some \in SUBSET Camera :
          chains' = [c \in Camera |-> IF c \in some THEN Enqueue(chains[c], job) ELSE chains[c]]
    BY <1>12 DEF PollPublishes
  <2> HIDE DEF job
  <2>3. \A d \in Camera : Pending(d)' = IF d \in some THEN Pending(d) \union {job} ELSE Pending(d)
    BY <1>1, <2>1, <2>2, JobsQueued
  <2>4. NothingNew
    BY <2>1, <2>3 DEF NothingNew, Descends
  <2> QED  BY <1>1, <1>12, <2>4, QuietStep DEF PollPublishes
<1>13. ASSUME NEW c \in Camera, NEW event \in Event, Report(c, event) PROVE OneReconnection'
  <2> DEFINE job == NewJob(event, "others")
  <2>1. job \in Job /\ Harmless(job) /\ job.doing = "queued"
    BY <1>13 DEF NewJob, Job, Event, Harmless, Report
  <2>2. chains' = [chains EXCEPT ![c] = Enqueue(@, job)]
    BY <1>13 DEF Report
  <2> HIDE DEF job
  <2>3. \A d \in Camera : Pending(d)' = IF d = c THEN Pending(d) \union {job} ELSE Pending(d)
    BY <1>1, <2>1, <2>2, JobQueued
  <2>4. NothingNew
    BY <2>1, <2>3 DEF NothingNew, Descends
  <2> QED  BY <1>1, <1>13, <2>4, QuietStep DEF Report
<1>14. CASE PollReads
  BY <1>2, <1>14 DEF PollReads
<1>15. CASE PollFails
  BY <1>2, <1>15 DEF PollFails
<1>16. ASSUME NEW c \in Camera, NEW kind \in Kind, EditRegistry(c, kind)
       PROVE OneReconnection'
  BY <1>2, <1>16 DEF EditRegistry
<1>17. ASSUME NEW c \in Camera, NEW host \in Host,
              LinkDrops(c, host) \/ EditAddress(c, host) \/ Moves(c, host)
       PROVE  OneReconnection'
  BY <1>2, <1>17 DEF LinkDrops, EditAddress, Moves
<1>19. ASSUME NEW c \in Camera, PowerOff(c) \/ PowerOn(c) PROVE OneReconnection'
  BY <1>2, <1>19 DEF PowerOff, PowerOn
<1>18. CASE UNCHANGED vars
  BY <1>2, <1>18 DEF vars
<1> QED  BY <1>3, <1>4, <1>5, <1>6, <1>7, <1>8, <1>10, <1>11, <1>12, <1>13, <1>14, <1>15, <1>16,
            <1>17, <1>18, <1>19 DEF Next

(* Only a connection that ends makes a camera accept, and the reconcile    *)
(* asked for it; a reconcile that starts drops what it finds no longer     *)
(* controlled.                                                             *)
LEMMA StepAccepting == ReconcileInv /\ [Next]_vars => AcceptingIsControlled'
<1> SUFFICES ASSUME ReconcileInv, [Next]_vars, NEW d \in Camera, Accepts(d)'
             PROVE  recon'.reg[d].kind = "controlled"
  BY DEF AcceptingIsControlled
<1>1. OneReconnection /\ TypeInv /\ Queues /\ AcceptingIsControlled
  BY DEF ReconcileInv, TypeInv, Shape
<1>2. ASSUME Accepts(d), recon'.reg = recon.reg PROVE recon'.reg[d].kind = "controlled"
  BY <1>1, <1>2 DEF AcceptingIsControlled
<1>3. ASSUME UNCHANGED states, recon'.reg = recon.reg PROVE recon'.reg[d].kind = "controlled"
  BY <1>2, <1>3 DEF Accepts
<1>4. ASSUME NEW c \in Camera, JobBegins(c) PROVE recon'.reg[d].kind = "controlled"
  <2>1. PICK k \in DOMAIN chains[c] : \E n \in DOMAIN chains[c][k] : Begin(c, k, n)
    BY <1>4 DEF JobBegins
  <2>2. PICK n \in DOMAIN chains[c][k] : Begin(c, k, n)
    BY <2>1
  <2>3. UNCHANGED recon
    BY <2>2 DEF Begin
  <2>4. UNCHANGED states \/ states' = [states EXCEPT ![c] = StateAfter(@, chains[c][k][n].event)]
    BY <2>2 DEF Begin
  <2>5. states'[d] = "Idle" => states[d] = "Idle"
    BY <1>1, <2>4 DEF StateAfter, TypeInv, TypeOK
  <2> QED  BY <1>2, <2>3, <2>5 DEF Accepts
<1>5. ASSUME NEW c \in Camera, NEW established \in BOOLEAN, Connects(c, established)
      PROVE  recon'.reg[d].kind = "controlled"
  <2>1. PICK k \in DOMAIN chains[c] : \E n \in DOMAIN chains[c][k] : ConnectEnds(c, k, n, established)
    BY <1>5 DEF Connects
  <2>2. PICK n \in DOMAIN chains[c][k] : ConnectEnds(c, k, n, established)
    BY <2>1
  <2>3. /\ UNCHANGED recon
        /\ states' = [states EXCEPT ![c] = IF established THEN "Idle" ELSE "Disconnected"]
        /\ chains[c][k][n].doing = "Connect"
    BY <2>2 DEF ConnectEnds
  <2>4. CASE d = c
    <3>1. chains[c][k][n] \in Pending(c)
      BY <1>1, <2>3, BegunIsFirst
    <3>2. Reconnecting(c)
      BY <1>1, <2>3, <3>1 DEF OneReconnection, Reconnecting
    <3> QED  BY <1>1, <2>3, <2>4, <3>2 DEF OneReconnection
  <2>5. CASE d # c
    BY <1>1, <1>2, <2>3, <2>5 DEF Accepts, TypeInv, TypeOK
  <2> QED  BY <2>4, <2>5
<1>6. ASSUME NEW c \in Camera, Disconnects(c) PROVE recon'.reg[d].kind = "controlled"
  <2>1. UNCHANGED recon /\ states' = [states EXCEPT ![c] = "Disconnected"]
    BY <1>6 DEF Disconnects, DisconnectEnds
  <2> QED  BY <1>1, <1>2, <2>1 DEF Accepts, TypeInv, TypeOK
<1>7. CASE ReconcileStart
  <2>1. recon'.reg = registry
    BY <1>7 DEF ReconcileStart
  <2>2. d \in Controlled(registry)
    BY <1>7 DEF ReconcileStart, Accepts
  <2> QED  BY <2>1, <2>2 DEF Controlled
<1>8. ASSUME NEW c \in Camera, Reconnect(c) PROVE recon'.reg[d].kind = "controlled"
  BY <1>1, <1>3, <1>8 DEF Reconnect, TypeInv, Shape
<1>15. ASSUME NEW e \in Camera \X Host, DisconnectStray(e) PROVE recon'.reg[d].kind = "controlled"
  BY <1>1, <1>3, <1>15 DEF DisconnectStray, TypeInv, Shape
<1>9. CASE FindStrays \/ ReconcileEnds
  BY <1>1, <1>3, <1>9 DEF FindStrays, ReconcileEnds, TypeInv, Shape
<1>10. CASE PollReads \/ PollFails \/ PollPublishes
  BY <1>3, <1>10 DEF PollReads, PollFails, PollPublishes
<1>11. ASSUME NEW c \in Camera, NEW event \in Event, Report(c, event) PROVE recon'.reg[d].kind = "controlled"
  BY <1>3, <1>11 DEF Report
<1>12. ASSUME NEW c \in Camera, NEW kind \in Kind, EditRegistry(c, kind)
       PROVE recon'.reg[d].kind = "controlled"
  BY <1>3, <1>12 DEF EditRegistry
<1>13. ASSUME NEW c \in Camera, PowerOff(c) \/ PowerOn(c) PROVE recon'.reg[d].kind = "controlled"
  BY <1>3, <1>13 DEF PowerOff, PowerOn
<1>16. ASSUME NEW c \in Camera, NEW host \in Host,
              LinkDrops(c, host) \/ EditAddress(c, host) \/ Moves(c, host)
       PROVE  recon'.reg[d].kind = "controlled"
  BY <1>3, <1>16 DEF LinkDrops, EditAddress, Moves
<1>14. CASE UNCHANGED vars
  BY <1>3, <1>14 DEF vars
<1> QED  BY <1>4, <1>5, <1>6, <1>7, <1>8, <1>9, <1>10, <1>11, <1>12, <1>13, <1>14, <1>15,
            <1>16 DEF Next

LEMMA ReconcileCorrect == Spec => []ReconcileInv
<1>1. Init => ReconcileInv
  BY InitTyped, InitReconcile DEF ReconcileInv
<1>2. ReconcileInv /\ [Next]_vars => ReconcileInv'
  <2>1. ReconcileInv /\ [Next]_vars => TypeInv'
    BY StepTyped DEF ReconcileInv
  <2> QED  BY <2>1, StepReconnection, StepAccepting DEF ReconcileInv
<1> QED  BY <1>1, <1>2, PTL DEF Spec

(* "No ADB connections in parallel": whatever the tracker, the recovery    *)
(* and the workflows dispatch, and however often cameras are dropped and   *)
(* added, two cameras are never connected at once.                         *)
THEOREM ConnectionsAreSerial == Spec => []OneConnectionAtATime
<1>1. ReconcileInv => OneConnectionAtATime
  BY DEF ReconcileInv, OneReconnection, OneConnectionAtATime, Reconnecting, Doing
<1> QED  BY <1>1, ReconcileCorrect, PTL

(* A camera that accepts commands is one the last reconcile read to be     *)
(* controlled, even if it was dropped while it was being connected.        *)
THEOREM OnlyControlledAccept == Spec => []AcceptingIsControlled
<1>1. ReconcileInv => AcceptingIsControlled
  BY DEF ReconcileInv
<1> QED  BY <1>1, ReconcileCorrect, PTL

-----------------------------------------------------------------------------
(* Dispatches.                                                             *)

(* What OneChain says of a camera.                                         *)
Settled(c) ==
  /\ Len(chains[c]) = 1
  /\ Doing(c, "Connect") => states[c] = "Disconnected" /\ c \notin rebooted
  /\ Doing(c, "Disconnect") => states[c] = "Idle"
  /\ c \in rebooted => states[c] # "Idle"

(* A step that begins no job of a camera and changes neither its state nor *)
(* its chains' number leaves it as it is.                                  *)
LEMMA StaysSettled ==
  ASSUME NEW c \in Camera, Settled(c), Len(chains'[c]) = Len(chains[c]), states'[c] = states[c],
         \A job \in Pending(c)' : job \in Pending(c) \/ job.doing = "queued",
         c \in rebooted' => c \in rebooted
  PROVE  Settled(c)'
BY DEF Settled, Doing

(* With one chain, nothing runs once its first job has ended.              *)
LEMMA SettlesQueued ==
  ASSUME NEW c \in Camera, Len(chains'[c]) = 1, \A job \in Pending(c)' : job.doing = "queued",
         c \in rebooted' => states'[c] # "Idle"
  PROVE  Settled(c)'
BY DEF Settled, Doing

LEMMA InitOneChain == Init => OneChain
<1> SUFFICES ASSUME Init, NEW c \in Camera PROVE Settled(c)
  BY DEF OneChain, Settled
<1>1. chains[c] = << <<>> >> /\ Len(<< <<>> >>) = 1
  BY DEF Init
<1>2. Pending(c) = {}
  <2>1. DOMAIN << <<>> >> = {1} /\ << <<>> >>[1] = <<>> /\ DOMAIN <<>> = {}
    OBVIOUS
  <2> QED  BY <1>1, <2>1 DEF Pending, ToSet
<1> QED  BY <1>1, <1>2 DEF Init, Settled, Doing

(* A dispatch that begins does so in the state it read, in which it leaves *)
(* the camera; one that ends is the only one that ran.                     *)
LEMMA BeginSettles ==
  ASSUME IInv, NEW c \in Camera, JobBegins(c), ~ detached, NEW d \in Camera
  PROVE  Settled(d)'
<1>1. TypeInv /\ Queues /\ \A e \in Camera : Settled(e)
  BY DEF IInv, ReconcileInv, TypeInv, Shape, OneChain, Settled
<1>2. PICK k \in DOMAIN chains[c] : \E n \in DOMAIN chains[c][k] : Begin(c, k, n)
  BY DEF JobBegins
<1>3. PICK n \in DOMAIN chains[c][k] : Begin(c, k, n)
  BY <1>2
<1>4. n = 1 /\ Len(chains[c]) = 1
  BY <1>1, <1>3 DEF Begin, Turn, Settled
<1> DEFINE old == chains[c][k][n]
           effect == EffectOf(states[c], old.event)
           begun == BegunJob(old, effect, dials[c])
<1>5. rebooted' = CASE effect = "Connect" -> rebooted \ {c}
                    [] old.event = "RebootDispatched" -> rebooted \union {c}
                    [] OTHER -> rebooted
  BY <1>3 DEF Begin
<1>6. CASE effect \in Effect
  <2>1. chains' = [chains EXCEPT ![c][k][n] = [@ EXCEPT !.doing = effect, !.host = dials[c]]] /\ UNCHANGED states
    BY <1>3, <1>6 DEF Begin
  <2>2. /\ effect = "Connect" => states[c] = "Disconnected" /\ old.event = "ReconnectRequested"
        /\ effect = "Disconnect" => states[c] = "Idle" /\ old.event = "TransportSuspect"
    BY <1>6 DEF EffectOf, Effect
  <2>3. effect = "Connect" \/ effect = "Disconnect"
    BY <1>6 DEF Effect
  <2>4. /\ effect = "Connect" => c \notin rebooted'
        /\ rebooted' \subseteq rebooted
    <3> HIDE DEF effect, old
    <3>1. CASE effect = "Connect"
      <4>1. rebooted' = rebooted \ {c}
        BY <1>5, <2>2, <3>1
      <4> QED  BY <4>1
    <3>2. CASE effect = "Disconnect"
      <4>1. rebooted' = rebooted
        BY <1>5, <2>2, <3>2
      <4> QED  BY <3>2, <4>1
    <3> QED  BY <2>3, <3>1, <3>2
  <2> HIDE DEF effect
  <2>5. /\ old \in Pending(c)
        /\ Len(chains'[c]) = 1
        /\ \A job \in Pending(c)' : job.doing = "queued" \/ job = begun
        /\ \A e \in Camera \ {c} : chains'[e] = chains[e] /\ Pending(e)' = Pending(e)
    <3>1. Queues /\ n = 1 /\ effect \in Effect /\ dials[c] \in Host \union {"none"}
      BY <1>1, <1>4, <1>6 DEF TypeInv, TypeOK
    <3>2. chains' = [chains EXCEPT ![c][k][n] = [@ EXCEPT !.doing = effect, !.host = dials[c]]]
      BY <2>1
    <3>3. /\ old \in Pending(c)
          /\ \A e \in Camera \ {c} : chains'[e] = chains[e] /\ Pending(e)' = Pending(e)
      BY <3>1, <3>2, JobBegun
    <3>4. Len(chains'[c]) = 1
      BY <1>4, <3>1, <3>2, JobBegun
    <3>5. OnlyRuns(Pending(c)', begun)
      BY <1>4, <3>1, <3>2, JobBegun
    <3> QED  BY <3>3, <3>4, <3>5 DEF OnlyRuns
  <2>6. begun.doing = effect
    <3>1. old \in Job
      BY <1>1, <2>5 DEF TypeInv, TypeOK
    <3> QED  BY <3>1 DEF BegunJob, Job
  <2> HIDE DEF begun, old
  <2>7. CASE d = c
    BY <1>1, <2>1, <2>2, <2>3, <2>4, <2>5, <2>6, <2>7 DEF Settled, Doing
  <2>8. CASE d # c
    BY <1>1, <2>1, <2>4, <2>5, <2>8, StaysSettled
  <2> QED  BY <2>7, <2>8
<1>7. CASE effect \notin Effect
  <2>1. /\ chains' = [chains EXCEPT ![c] = Finish(@, k, n)]
        /\ states' = [states EXCEPT ![c] = StateAfter(@, old.event)]
    BY <1>3, <1>7 DEF Begin
  <2>2. /\ Len(chains'[c]) = 1
        /\ \A job \in Pending(c)' : job.doing = "queued"
        /\ \A e \in Camera \ {c} : chains'[e] = chains[e] /\ Pending(e)' = Pending(e)
    BY <1>1, <1>4, <2>1, JobEnds
  <2>3. effect # "Connect"
    BY <1>7 DEF Effect
  <2>4. /\ states'[c] = StateAfter(states[c], old.event)
        /\ \A e \in Camera \ {c} : states'[e] = states[e]
    BY <1>1, <2>1 DEF TypeInv, TypeOK
  <2> HIDE DEF effect
  <2>5. /\ c \in rebooted' => c \in rebooted \/ old.event = "RebootDispatched"
        /\ \A e \in Camera \ {c} : e \in rebooted' => e \in rebooted
    BY <1>5, <2>3
  <2>6. c \in rebooted' => states'[c] # "Idle"
    BY <1>1, <2>4, <2>5 DEF StateAfter, Settled
  <2> HIDE DEF old
  <2>7. CASE d = c
    BY <2>2, <2>6, <2>7, SettlesQueued
  <2>8. CASE d # c
    BY <1>1, <2>2, <2>4, <2>5, <2>8, StaysSettled
  <2> QED  BY <2>7, <2>8
<1> QED  BY <1>6, <1>7

LEMMA EndSettles ==
  ASSUME IInv, ~ detached, NEW c \in Camera, NEW k \in DOMAIN chains[c],
         NEW n \in DOMAIN chains[c][k], chains[c][k][n].doing # "queued",
         chains' = [chains EXCEPT ![c] = Finish(@, k, n)], UNCHANGED rebooted,
         NEW s, states' = [states EXCEPT ![c] = s], c \in rebooted => s # "Idle",
         NEW d \in Camera
  PROVE  Settled(d)'
<1>1. TypeInv /\ Queues /\ \A e \in Camera : Settled(e)
  BY DEF IInv, ReconcileInv, TypeInv, Shape, OneChain, Settled
<1>2. n = 1 /\ Len(chains[c]) = 1
  BY <1>1, BegunIsFirst DEF Settled
<1>3. /\ Len(chains'[c]) = 1
      /\ \A job \in Pending(c)' : job.doing = "queued"
      /\ \A e \in Camera \ {c} : chains'[e] = chains[e] /\ Pending(e)' = Pending(e)
  BY <1>1, <1>2, JobEnds
<1>4. states'[c] = s /\ \A e \in Camera \ {c} : states'[e] = states[e]
  BY <1>1 DEF TypeInv, TypeOK
<1>5. CASE d = c
  BY <1>3, <1>4, <1>5, SettlesQueued
<1>6. CASE d # c
  BY <1>1, <1>3, <1>4, <1>6, StaysSettled
<1> QED  BY <1>5, <1>6

(* A reconcile drops queues only if they are empty, or detaches them.      *)
LEMMA ReconcileSettles ==
  ASSUME IInv, ReconcileStart, ~ detached', NEW d \in Camera
  PROVE  Settled(d)'
<1> DEFINE controlled == Controlled(registry)
           dropped == {c \in Camera : states[c] # "none" /\ c \notin controlled}
<1>1. /\ ~ detached
      /\ \A c \in dropped : Last(chains[c]) = <<>>
      /\ chains' = [c \in Camera |-> IF c \in dropped THEN Detach(chains[c]) ELSE chains[c]]
      /\ rebooted' = rebooted \ dropped
      /\ states' = [c \in Camera |->
                      CASE c \notin controlled -> "none"
                        [] c \in controlled /\ states[c] = "none" -> "Disconnected"
                        [] OTHER -> states[c]]
  BY DEF ReconcileStart
<1>2. Queues /\ Settled(d)
  BY <1>1 DEF IInv, ReconcileInv, TypeInv, Shape, OneChain, Settled
<1>3. dropped \in SUBSET Camera
  OBVIOUS
<1> HIDE DEF controlled, dropped
<1>4. /\ Pending(d)' = Pending(d)
      /\ Last(chains[d]) = <<>> \/ d \notin dropped => chains'[d] = chains[d]
      /\ Last(chains[d]) = <<>> /\ Len(chains[d]) = 1 => Pending(d) = {}
  BY <1>1, <1>2, <1>3, QueuesDropped
<1>5. chains'[d] = chains[d] /\ Len(chains[d]) = 1
  BY <1>1, <1>2, <1>4 DEF Settled
<1>6. CASE d \in controlled
  <2>1. states'[d] = IF states[d] = "none" THEN "Disconnected" ELSE states[d]
    BY <1>1, <1>6
  <2>2. Doing(d, "Connect")' <=> Doing(d, "Connect")
    BY <1>4 DEF Doing
  <2>3. Doing(d, "Disconnect")' <=> Doing(d, "Disconnect")
    BY <1>4 DEF Doing
  <2> QED  BY <1>1, <1>2, <1>5, <2>1, <2>2, <2>3 DEF Settled
<1>7. CASE d \notin controlled
  <2>1. states'[d] = "none"
    BY <1>1, <1>7
  <2>2. states[d] # "none" => Pending(d) = {}
    BY <1>1, <1>4, <1>5, <1>7 DEF dropped
  <2>3. ~ Doing(d, "Connect") /\ ~ Doing(d, "Disconnect")
    BY <1>2, <2>2 DEF Settled, Doing
  <2>4. ~ Doing(d, "Connect")' /\ ~ Doing(d, "Disconnect")'
    BY <1>4, <2>3 DEF Doing
  <2> QED  BY <1>5, <2>1, <2>4 DEF Settled
<1> QED  BY <1>6, <1>7

(* The other steps leave every camera settled, for they begin nothing.     *)
LEMMA StepOneChain == IInv /\ [Next]_vars => OneChain'
<1> SUFFICES ASSUME IInv, [Next]_vars, ~ detached', NEW d \in Camera PROVE Settled(d)'
  BY DEF OneChain, Settled
<1>1. TypeInv /\ Queues /\ (~ detached => \A c \in Camera : Settled(c))
  BY DEF IInv, ReconcileInv, TypeInv, Shape, OneChain, Settled
<1>2. ASSUME UNCHANGED <<chains, states, rebooted, detached>> PROVE Settled(d)'
  <2>1. Pending(d)' = Pending(d)
    BY <1>2, JobsUnchanged
  <2> QED  BY <1>1, <1>2, <2>1, StaysSettled
<1>3. ASSUME NEW c \in Camera, JobBegins(c) PROVE Settled(d)'
  <2>1. ~ detached
    BY <1>3 DEF JobBegins, Begin
  <2> QED  BY <1>3, <2>1, BeginSettles
<1>4. ASSUME NEW c \in Camera, NEW established \in BOOLEAN, Connects(c, established)
      PROVE  Settled(d)'
  <2>1. PICK k \in DOMAIN chains[c] : \E n \in DOMAIN chains[c][k] : ConnectEnds(c, k, n, established)
    BY <1>4 DEF Connects
  <2>2. PICK n \in DOMAIN chains[c][k] : ConnectEnds(c, k, n, established)
    BY <2>1
  <2> DEFINE s == IF established THEN "Idle" ELSE "Disconnected"
  <2>3. /\ ~ detached /\ chains[c][k][n].doing = "Connect"
        /\ chains' = [chains EXCEPT ![c] = Finish(@, k, n)]
        /\ states' = [states EXCEPT ![c] = s] /\ UNCHANGED rebooted
    BY <2>2 DEF ConnectEnds
  <2> HIDE DEF s
  <2>4. c \notin rebooted
    <3>1. chains[c][k][n] \in Pending(c)
      BY <1>1, <2>3, BegunIsFirst
    <3> QED  BY <1>1, <2>3, <3>1 DEF Settled, Doing
  <2> QED  BY <2>3, <2>4, EndSettles
<1>5. ASSUME NEW c \in Camera, Disconnects(c) PROVE Settled(d)'
  <2>1. PICK k \in DOMAIN chains[c] : \E n \in DOMAIN chains[c][k] : DisconnectEnds(c, k, n)
    BY <1>5 DEF Disconnects
  <2>2. PICK n \in DOMAIN chains[c][k] : DisconnectEnds(c, k, n)
    BY <2>1
  <2>3. /\ ~ detached /\ chains[c][k][n].doing # "queued"
        /\ chains' = [chains EXCEPT ![c] = Finish(@, k, n)]
        /\ states' = [states EXCEPT ![c] = "Disconnected"] /\ UNCHANGED rebooted
    BY <2>2 DEF DisconnectEnds
  <2> QED  BY <2>3, EndSettles
<1>6. CASE ReconcileStart
  BY <1>6, ReconcileSettles
<1>7. ASSUME NEW some \in SUBSET Camera, NEW job \in Job, job.doing = "queued",
             chains' = [c \in Camera |-> IF c \in some THEN Enqueue(chains[c], job) ELSE chains[c]],
             UNCHANGED <<states, rebooted, detached>>
      PROVE  Settled(d)'
  <2>1. /\ Len(chains'[d]) = Len(chains[d])
        /\ Pending(d)' = IF d \in some THEN Pending(d) \union {job} ELSE Pending(d)
    BY <1>1, <1>7, JobsQueued
  <2>2. \A j \in Pending(d)' : j \in Pending(d) \/ j.doing = "queued"
    BY <1>7, <2>1
  <2> QED  BY <1>1, <1>7, <2>1, <2>2, StaysSettled
<1>8. ASSUME NEW c \in Camera, NEW job \in Job, job.doing = "queued",
             chains' = [chains EXCEPT ![c] = Enqueue(@, job)],
             UNCHANGED <<states, rebooted, detached>>
      PROVE  Settled(d)'
  <2>1. /\ Len(chains'[d]) = Len(chains[d])
        /\ Pending(d)' = IF d = c THEN Pending(d) \union {job} ELSE Pending(d)
    BY <1>1, <1>8, JobQueued
  <2>2. \A j \in Pending(d)' : j \in Pending(d) \/ j.doing = "queued"
    BY <1>8, <2>1
  <2> QED  BY <1>1, <1>8, <2>1, <2>2, StaysSettled
<1>9. ASSUME NEW c \in Camera, Reconnect(c) PROVE Settled(d)'
  <2>1. /\ NewJob("ReconnectRequested", "reconcile") \in Job
        /\ NewJob("ReconnectRequested", "reconcile").doing = "queued"
    BY DEF NewJob, Job, Event
  <2> QED  BY <1>8, <1>9, <2>1 DEF Reconnect
<1>10. CASE PollPublishes
  <2>1. NewJob("ConnectionLost", "others") \in Job /\ NewJob("ConnectionLost", "others").doing = "queued"
    BY DEF NewJob, Job, Event
  <2>2. PICK some \in SUBSET Camera :
          chains' = [c \in Camera |-> IF c \in some THEN Enqueue(chains[c], NewJob("ConnectionLost", "others"))
                                      ELSE chains[c]]
    BY <1>10 DEF PollPublishes
  <2>3. UNCHANGED <<states, rebooted, detached>>
    BY <1>10 DEF PollPublishes
  <2> QED  BY <1>7, <2>1, <2>2, <2>3
<1>11. ASSUME NEW c \in Camera, NEW event \in Event, Report(c, event) PROVE Settled(d)'
  <2>1. NewJob(event, "others") \in Job /\ NewJob(event, "others").doing = "queued"
    BY DEF NewJob, Job
  <2> QED  BY <1>8, <1>11, <2>1 DEF Report
<1>12. ASSUME NEW c \in Camera, PowerOff(c) \/ PowerOn(c) PROVE Settled(d)'
  BY <1>2, <1>12 DEF PowerOff, PowerOn
<1>16. ASSUME NEW e \in Camera \X Host, DisconnectStray(e) PROVE Settled(d)'
  BY <1>2, <1>16 DEF DisconnectStray
<1>17. ASSUME NEW c \in Camera, NEW host \in Host,
              LinkDrops(c, host) \/ EditAddress(c, host) \/ Moves(c, host)
       PROVE  Settled(d)'
  BY <1>2, <1>17 DEF LinkDrops, EditAddress, Moves
<1>13. CASE FindStrays \/ ReconcileEnds \/ PollReads \/ PollFails
  BY <1>2, <1>13 DEF FindStrays, ReconcileEnds, PollReads, PollFails
<1>14. ASSUME NEW c \in Camera, NEW kind \in Kind, EditRegistry(c, kind)
       PROVE  Settled(d)'
  BY <1>2, <1>14 DEF EditRegistry
<1>15. CASE UNCHANGED vars
  BY <1>2, <1>15 DEF vars
<1> QED  BY <1>3, <1>4, <1>5, <1>6, <1>9, <1>10, <1>11, <1>12, <1>13, <1>14, <1>15,
            <1>16, <1>17 DEF Next

LEMMA DispatchesCorrect == Spec => []IInv
<1>1. Init => IInv
  BY InitTyped, InitReconcile, InitOneChain DEF IInv, ReconcileInv
<1>2. IInv /\ [Next]_vars => IInv'
  <2>1. IInv /\ [Next]_vars => ReconcileInv'
    BY StepTyped, StepReconnection, StepAccepting DEF IInv, ReconcileInv
  <2> QED  BY <2>1, StepOneChain DEF IInv
<1> QED  BY <1>1, <1>2, PTL DEF Spec

(* The chain of a camera serializes its dispatches: when one writes, the   *)
(* map still has the state it started from, unless the camera was dropped  *)
(* under it.                                                               *)
THEOREM DispatchesSerialize == Spec => []DispatchesAreSerial
<1>1. IInv => DispatchesAreSerial
  BY DEF IInv, OneChain, DispatchesAreSerial
<1> QED  BY <1>1, DispatchesCorrect, PTL

(* A reboot that was processed is not undone by a connection that began    *)
(* before it: the camera is Idle again only by one that began after.       *)
THEOREM RebootsInvalidate == Spec => []RebootInvalidates
<1>1. IInv => RebootInvalidates
  <2>1. IInv => rebooted \subseteq Camera
    BY DEF IInv, ReconcileInv, TypeInv, TypeOK
  <2> QED  BY <2>1 DEF IInv, OneChain, RebootInvalidates
<1> QED  BY <1>1, DispatchesCorrect, PTL

=============================================================================
