---------------------------- MODULE NoticesProofs ----------------------------
(* Proofs about Notices: for any wallets, any transactions and any limit. *)
EXTENDS Notices, SequenceTheorems, TLAPS

Entries == [id : 1..count, about : Incoming \cup {None}, open : BOOLEAN]

-----------------------------------------------------------------------------
(* Types *)

\* The parts of the type invariant, with what it rests on: a page is shown and a wallet
\* unlocked only of a node that runs.
WalletOK ==
  /\ open \in Wallets \cup {None} /\ ready \in BOOLEAN
  /\ pool \in [Wallets -> SUBSET Txs] /\ mined \in [Wallets -> Seq(Txs)]
  /\ ready \/ here => open # None
HookOK ==
  /\ here \in BOOLEAN /\ prevHash \in Incoming \cup {None}
  /\ cache \in Lists \cup {NoData} /\ answer \in Lists \cup {NoData}
StoreOK ==
  /\ toasts \in Seq(Entries) /\ Len(toasts) <= TOAST_LIMIT
  /\ dismissing \subseteq 1..count /\ removing \subseteq 1..count /\ count \in 0..MaxToasts
HistoryOK == old \subseteq Txs /\ switched \in BOOLEAN
Typed == WalletOK /\ HookOK /\ StoreOK /\ HistoryOK

LEMMA TypedTypes == Typed => TypeOK
  BY DEF Typed, TypeOK, WalletOK, HookOK, StoreOK, HistoryOK, Entries

LEMMA InitTyped == Init => Typed
<1> SUFFICES ASSUME Init PROVE Typed
  OBVIOUS
<1>1. WalletOK /\ HookOK /\ HistoryOK
  BY EmptySeq DEF Init, WalletOK, HookOK, HistoryOK
<1>2. StoreOK
  BY EmptySeq, NoticesAssumption DEF Init, StoreOK
<1> QED BY <1>1, <1>2 DEF Typed

\* The members of a list are members of what it is a list of.
LEMMA Members ==
  ASSUME NEW S, NEW s \in Seq(S)
  PROVE  ToSet(s) \subseteq S /\ ToSet(s) = {s[i] : i \in 1..Len(s)}
  BY DEF ToSet

\* A toast more, and the oldest beyond the limit are dropped.
LEMMA AddTyped ==
  ASSUME StoreOK, NEW what \in Incoming \cup {None}, Add(what)
  PROVE  /\ StoreOK' /\ toasts'[1].about = what /\ toasts'[1].id = count + 1
         /\ \A m \in 2..Len(toasts') : m - 1 \in 1..Len(toasts) /\ toasts'[m] = toasts[m - 1]
<1> DEFINE new == [id |-> count', about |-> what, open |-> TRUE]
           all == <<new>> \o toasts
           n == IF Len(all) < TOAST_LIMIT THEN Len(all) ELSE TOAST_LIMIT
<1>1. /\ count' = count + 1 /\ count' \in 0..MaxToasts /\ count' \in Nat /\ count \in Nat
      /\ toasts' = SubSeq(all, 1, n) /\ dismissing' = dismissing \cup {count'}
      /\ UNCHANGED removing
  BY NoticesAssumption DEF Add, StoreOK
<1>2. toasts \in Seq(Entries') /\ new \in Entries'
  <2>1. Entries \subseteq Entries'
    BY <1>1 DEF Entries
  <2>2. toasts \in Seq(Entries')
    BY <2>1, SeqMonotonic DEF StoreOK
  <2>3. new \in Entries'
    BY <1>1 DEF Entries
  <2> QED BY <2>2, <2>3
<1> HIDE DEF new
<1>3. /\ all \in Seq(Entries') /\ Len(all) = Len(toasts) + 1 /\ all[1] = new
      /\ Len(toasts) \in Nat /\ \A m \in 2..Len(all) : all[m] = toasts[m - 1]
  <2>1. <<new>> \in Seq(Entries') /\ Len(<<new>>) = 1 /\ <<new>>[1] = new
    BY <1>2
  <2>2. Len(toasts) \in Nat
    BY <1>2
  <2> QED BY <1>2, <2>1, <2>2, ConcatProperties
<1> HIDE DEF all
<1>4. n \in 1..Len(all) /\ n <= TOAST_LIMIT
  BY <1>2, <1>3, NoticesAssumption
<1> HIDE DEF n
<1>5. \A i \in 1..n : all[i] \in Entries'
  BY <1>3, <1>4, ElementOfSeq
<1>6. /\ toasts' \in Seq(Entries') /\ Len(toasts') = n /\ toasts'[1] = new
      /\ \A m \in 1..n : toasts'[m] = all[m]
  <2>1. /\ SubSeq(all, 1, n) \in Seq(Entries') /\ Len(SubSeq(all, 1, n)) = n - 1 + 1
        /\ \A m \in 1..n : SubSeq(all, 1, n)[m] = all[1 + m - 1]
    BY <1>4, <1>5, SubSeqProperties
  <2> QED BY <1>1, <1>3, <1>4, <2>1
<1>7. dismissing' \subseteq 1..count' /\ removing' \subseteq 1..count'
  BY <1>1 DEF StoreOK
<1>8. StoreOK'
  BY <1>1, <1>4, <1>6, <1>7 DEF StoreOK
<1>9. \A m \in 2..Len(toasts') : m - 1 \in 1..Len(toasts) /\ toasts'[m] = toasts[m - 1]
  <2> SUFFICES ASSUME NEW m \in 2..n
               PROVE  m - 1 \in 1..Len(toasts) /\ toasts'[m] = toasts[m - 1]
    BY <1>6
  <2>1. m \in 2..Len(all) /\ m \in 1..n /\ m - 1 \in 1..Len(toasts)
    BY <1>3, <1>4
  <2> QED BY <1>3, <1>6, <2>1
<1>10. new.about = what /\ new.id = count + 1
  BY <1>1 DEF new
<1> QED BY <1>6, <1>8, <1>9, <1>10

LEMMA DismissTyped ==
  ASSUME StoreOK, NEW i \in 1..count, Dismiss(i), dismissing' \subseteq dismissing
  PROVE  StoreOK'
<1>1. UNCHANGED count /\ removing' \subseteq 1..count
  BY DEF Dismiss, StoreOK
<1>2. toasts' \in Seq(Entries) /\ Len(toasts') = Len(toasts)
  <2> DEFINE b == FALSE
             e(k) == IF toasts[k].id = i THEN [toasts[k] EXCEPT !.open = b] ELSE toasts[k]
  <2>1. Len(toasts) \in Nat /\ DOMAIN toasts = 1..Len(toasts)
    BY DEF StoreOK
  <2>2. \A k \in 1..Len(toasts) : toasts[k] \in Entries
    BY ElementOfSeq DEF StoreOK
  <2>3. \A k \in 1..Len(toasts) : e(k) \in Entries
    <3>1. b \in BOOLEAN
      OBVIOUS
    <3> HIDE DEF b
    <3> QED BY <2>2, <3>1 DEF Entries
  <2>4. toasts' = [k \in 1..Len(toasts) |-> e(k)]
    BY <2>1 DEF Dismiss
  <2> HIDE DEF e
  <2>5. toasts' \in [1..Len(toasts) -> Entries]
    BY <2>3, <2>4
  <2> QED BY <2>1, <2>5
<1> QED BY <1>1, <1>2 DEF StoreOK, Entries

LEMMA RemoveTyped ==
  ASSUME StoreOK, NEW i, RemoveToast(i)
  PROVE  StoreOK'
<1>1. UNCHANGED <<count, dismissing>> /\ removing' \subseteq removing
  BY DEF RemoveToast
<1>2. ASSUME NEW k \in DOMAIN toasts, toasts' = RemoveAt(toasts, k)
      PROVE  toasts' \in Seq(Entries) /\ Len(toasts') <= Len(toasts)
  <2>1. Len(toasts) \in Nat /\ k \in 1..Len(toasts)
    BY DEF StoreOK
  <2>2. \A j \in 1..Len(toasts) : toasts[j] \in Entries
    BY ElementOfSeq DEF StoreOK
  <2>3. /\ SubSeq(toasts, 1, k - 1) \in Seq(Entries)
        /\ Len(SubSeq(toasts, 1, k - 1)) = k - 1
    BY <2>1, <2>2, SubSeqProperties
  <2>4. /\ SubSeq(toasts, k + 1, Len(toasts)) \in Seq(Entries)
        /\ Len(SubSeq(toasts, k + 1, Len(toasts))) = Len(toasts) - k
    BY <2>1, <2>2, SubSeqProperties
  <2> QED BY <1>2, <2>1, <2>3, <2>4, ConcatProperties DEF RemoveAt
<1>3. toasts' \in Seq(Entries) /\ Len(toasts') <= TOAST_LIMIT
  <2>1. Len(toasts) \in Nat /\ TOAST_LIMIT \in Nat
    BY NoticesAssumption DEF StoreOK
  <2>2. CASE UNCHANGED toasts
    BY <2>2 DEF StoreOK
  <2>3. CASE \E k \in DOMAIN toasts : toasts' = RemoveAt(toasts, k)
    <3>1. toasts' \in Seq(Entries) /\ Len(toasts') <= Len(toasts) /\ Len(toasts) <= TOAST_LIMIT
      BY <1>2, <2>3 DEF StoreOK
    <3> QED BY <2>1, <3>1
  <2> QED BY <2>2, <2>3 DEF RemoveToast
<1> QED BY <1>1, <1>3 DEF StoreOK, Entries

\* What the hook keeps of a list.
LEMMA NotifyTyped ==
  ASSUME Typed, NEW prev \in Incoming \cup {None}, NEW l \in Lists \cup {NoData},
         Notify(prev, l)
  PROVE  prevHash' \in Incoming \cup {None} /\ StoreOK' /\ old' \subseteq Txs
<1>1. CASE ~Notable(l)
  BY <1>1 DEF Notify, Typed, StoreOK, HistoryOK, store, Entries
<1>2. CASE Notable(l)
  <2>1. Head(l.mined) \in Incoming /\ prevHash' = Head(l.mined) /\ old' = Confirmed(l)
    BY <1>2 DEF Notify, Notable
  <2>2. StoreOK'
    BY <1>2, <2>1, AddTyped DEF Notify, Typed, StoreOK, store, Entries
  <2>3. Confirmed(l) \subseteq Txs
    <3>1. l.mined \in Seq(Txs)
      BY <1>2 DEF Notable, Lists
    <3>2. ToSet(l.mined) \subseteq Txs /\ \A w \in Wallets : ToSet(mined[w]) \subseteq Txs
      BY <3>1, Members DEF Typed, WalletOK
    <3> QED BY <3>2 DEF Confirmed
  <2> QED BY <2>1, <2>2, <2>3
<1> QED BY <1>1, <1>2

LEMMA ListTyped ==
  ASSUME WalletOK
  PROVE  List \in Lists
<1>1. CASE ~ready
  BY <1>1, EmptySeq DEF List, Lists
<1>2. CASE ready
  <2> DEFINE b == pool[open] # {}
  <2>1. b \in BOOLEAN
    OBVIOUS
  <2>2. mined[open] \in Seq(Txs)
    BY <1>2 DEF WalletOK
  <2>3. List = [waiting |-> b, mined |-> mined[open]]
    BY <1>2 DEF List
  <2> HIDE DEF b
  <2> QED BY <2>1, <2>2, <2>3 DEF Lists
<1> QED BY <1>1, <1>2 DEF WalletOK

\* A transaction more at the head of the confirmed ones.
LEMMA ConfirmsTyped ==
  ASSUME WalletOK, NEW t \in Txs, Confirms(t)
  PROVE  /\ Owner[t] \in Wallets /\ t \in pool[Owner[t]]
         /\ mined' = [mined EXCEPT ![Owner[t]] = <<t>> \o mined[Owner[t]]]
         /\ <<t>> \o mined[Owner[t]] \in Seq(Txs)
<1>1. Owner[t] \in Wallets
  BY NoticesAssumption
<1>2. mined[Owner[t]] \in Seq(Txs) /\ <<t>> \in Seq(Txs)
  BY <1>1 DEF WalletOK
<1> QED BY <1>1, <1>2, ConcatProperties DEF Confirms

LEMMA TypeStep == Typed /\ [Next]_vars => Typed'
<1> SUFFICES ASSUME Typed, [Next]_vars PROVE Typed'
  OBVIOUS
<1>0. WalletOK /\ HookOK /\ StoreOK /\ HistoryOK
  BY DEF Typed
<1>1. CASE ToastOther
  BY <1>0, <1>1, AddTyped DEF ToastOther, Typed, WalletOK, HookOK, HistoryOK, wallet, hook
<1>2. CASE Mount
  BY <1>0, <1>2, NotifyTyped DEF Mount, Typed, WalletOK, HookOK, HistoryOK, wallet
<1>3. CASE Leave
  BY <1>0, <1>3 DEF Leave, Typed, WalletOK, HookOK, StoreOK, HistoryOK, wallet, store, Entries
<1>4. CASE Fetch
  BY <1>0, <1>4, ListTyped
     DEF Fetch, Typed, WalletOK, HookOK, StoreOK, HistoryOK, wallet, store, Entries
<1>5. CASE Fetched
  <2>1. prevHash' \in Incoming \cup {None} /\ StoreOK' /\ old' \subseteq Txs
    <3>1. CASE here
      BY <1>0, <1>5, <3>1, NotifyTyped DEF Fetched, HookOK
    <3>2. CASE ~here
      BY <1>0, <1>5, <3>2 DEF Fetched, HookOK, StoreOK, HistoryOK, store, Entries
    <3> QED BY <3>1, <3>2
  <2> QED BY <1>0, <1>5, <2>1 DEF Fetched, Typed, WalletOK, HookOK, HistoryOK, wallet
<1>6. CASE Turns
  BY <1>0, <1>6 DEF Turns, Typed, WalletOK, HookOK, StoreOK, HistoryOK, hook, store, Entries
<1>7. ASSUME NEW i \in Ids, DismissTimeout(i) \/ Close(i) \/ RemoveToast(i) PROVE Typed'
  <2>1. UNCHANGED <<wallet, hook, old, switched>>
    BY <1>7 DEF DismissTimeout, Close, RemoveToast
  <2>2. StoreOK'
    <3>1. CASE DismissTimeout(i)
      BY <1>0, <3>1, DismissTyped DEF DismissTimeout, StoreOK
    <3>2. CASE Close(i)
      <4>1. PICK k \in DOMAIN toasts : toasts[k].id = i
        BY <3>2 DEF Close
      <4>2. toasts[k] \in Entries
        BY <1>0, <4>1, ElementOfSeq DEF StoreOK
      <4>3. i \in 1..count
        BY <4>1, <4>2 DEF Entries
      <4> QED BY <1>0, <3>2, <4>3, DismissTyped DEF Close
    <3> QED BY <1>0, <1>7, <3>1, <3>2, RemoveTyped
  <2> QED BY <1>0, <2>1, <2>2 DEF Typed, WalletOK, HookOK, HistoryOK, wallet, hook
<1>8. ASSUME NEW w \in Wallets, Opens(w) PROVE Typed'
  <2>1. switched' \in BOOLEAN
    BY <1>0, <1>8 DEF Opens, HistoryOK
  <2> QED BY <1>0, <1>8, <2>1, NoticesAssumption
          DEF Opens, Typed, WalletOK, HookOK, StoreOK, HistoryOK, hook, store, Entries
<1>9. ASSUME NEW t \in Txs, Appears(t) \/ Confirms(t) PROVE Typed'
  <2>1. WalletOK'
    <3>1. CASE Appears(t)
      BY <1>0, <3>1, NoticesAssumption DEF Appears, WalletOK, hook
    <3>2. CASE Confirms(t)
      <4>1. mined' \in [Wallets -> Seq(Txs)]
        BY <1>0, <3>2, ConfirmsTyped DEF WalletOK
      <4> QED BY <1>0, <3>2, <4>1 DEF Confirms, WalletOK, hook
    <3> QED BY <1>9, <3>1, <3>2
  <2> QED BY <1>0, <1>9, <2>1
          DEF Appears, Confirms, Typed, HookOK, StoreOK, HistoryOK, hook, store, Entries
<1>10. CASE UNCHANGED vars
  BY <1>0, <1>10
     DEF vars, Typed, WalletOK, HookOK, StoreOK, HistoryOK, wallet, hook, store, Entries
<1> QED BY <1>1, <1>2, <1>3, <1>4, <1>5, <1>6, <1>7, <1>8, <1>9, <1>10 DEF Next

\* Every variable keeps its type: the limit of the toasts is kept, and the hook remembers a
\* payment or nothing.
THEOREM TypeCorrect == Spec => []TypeOK
  BY InitTyped, TypeStep, TypedTypes, PTL DEF Spec

-----------------------------------------------------------------------------
(* The order of the toasts *)

\* Ids are given in order, and a toast is put in front: no two have the same.
Newest == \A j, k \in DOMAIN toasts : j < k => toasts[j].id > toasts[k].id

\* A sequence without its k-th element.
LEMMA Removed ==
  ASSUME NEW S, NEW s \in Seq(S), NEW k \in 1..Len(s)
  PROVE  /\ DOMAIN RemoveAt(s, k) = 1..Len(s) - 1
         /\ \A m \in 1..Len(s) - 1 : RemoveAt(s, k)[m] = IF m < k THEN s[m] ELSE s[m + 1]
<1> DEFINE a == SubSeq(s, 1, k - 1)
           b == SubSeq(s, k + 1, Len(s))
<1>1. Len(s) \in Nat /\ k \in Nat /\ \A j \in 1..Len(s) : s[j] \in S
  BY ElementOfSeq
<1>2. a \in Seq(S) /\ Len(a) = k - 1 /\ \A m \in 1..k - 1 : a[m] = s[m]
  <2>1. /\ a \in Seq(S) /\ Len(a) = (IF 1 <= k - 1 THEN k - 1 - 1 + 1 ELSE 0)
        /\ \A m \in 1..(k - 1 - 1 + 1) : a[m] = s[1 + m - 1]
    BY <1>1, SubSeqProperties
  <2> QED BY <1>1, <2>1
<1>3. b \in Seq(S) /\ Len(b) = Len(s) - k /\ \A m \in 1..Len(s) - k : b[m] = s[k + m]
  <2>1. /\ b \in Seq(S)
        /\ Len(b) = (IF k + 1 <= Len(s) THEN Len(s) - (k + 1) + 1 ELSE 0)
        /\ \A m \in 1..(Len(s) - (k + 1) + 1) : b[m] = s[(k + 1) + m - 1]
    BY <1>1, SubSeqProperties
  <2> QED BY <1>1, <2>1
<1> HIDE DEF a, b
<1>4. /\ a \o b \in Seq(S) /\ Len(a \o b) = Len(a) + Len(b)
      /\ \A m \in 1..Len(a) + Len(b) : (a \o b)[m] = IF m <= Len(a) THEN a[m] ELSE b[m - Len(a)]
  BY <1>2, <1>3, ConcatProperties
<1>5. RemoveAt(s, k) = a \o b
  BY DEF RemoveAt, a, b
<1>6. Len(a) + Len(b) = Len(s) - 1
  BY <1>1, <1>2, <1>3
<1>7. ASSUME NEW m \in 1..Len(s) - 1
      PROVE  (a \o b)[m] = IF m < k THEN s[m] ELSE s[m + 1]
  <2>1. CASE m < k
    BY <1>1, <1>2, <1>4, <1>6, <2>1
  <2>2. CASE ~(m < k)
    <3>1. ~(m <= Len(a)) /\ m - Len(a) \in 1..Len(s) - k /\ k + (m - Len(a)) = m + 1
      BY <1>1, <1>2, <2>2
    <3> QED BY <1>3, <1>4, <1>6, <2>2, <3>1
  <2> QED BY <2>1, <2>2
<1>8. DOMAIN (a \o b) = 1..Len(s) - 1
  BY <1>4, <1>6
<1> QED BY <1>5, <1>7, <1>8

LEMMA NewestStep == Typed /\ Newest /\ [Next]_vars => Newest'
<1> SUFFICES ASSUME Typed, Newest, [Next]_vars PROVE Newest'
  OBVIOUS
<1>0. /\ StoreOK /\ Len(toasts) \in Nat /\ DOMAIN toasts = 1..Len(toasts)
      /\ \A k \in 1..Len(toasts) : toasts[k] \in Entries
  BY ElementOfSeq DEF Typed, StoreOK
<1>1. CASE UNCHANGED toasts
  BY <1>1 DEF Newest
<1>2. ASSUME NEW what \in Incoming \cup {None}, Add(what) PROVE Newest'
  <2>1. /\ StoreOK' /\ toasts'[1].id = count + 1
        /\ \A m \in 2..Len(toasts') : m - 1 \in 1..Len(toasts) /\ toasts'[m] = toasts[m - 1]
    BY <1>0, <1>2, AddTyped
  <2>2. \A k \in 1..Len(toasts) : toasts[k].id \in 1..count
    BY <1>0 DEF Entries
  <2>3. Len(toasts') \in Nat /\ DOMAIN toasts' = 1..Len(toasts') /\ count \in Nat
    BY <2>1, <1>0 DEF StoreOK
  <2>4. ASSUME NEW j \in 1..Len(toasts'), NEW k \in 1..Len(toasts'), j < k
        PROVE  toasts'[j].id > toasts'[k].id
    <3>1. k \in 2..Len(toasts') /\ k - 1 \in 1..Len(toasts) /\ toasts'[k] = toasts[k - 1]
      BY <2>1, <2>3, <2>4
    <3>2. CASE j = 1
      BY <2>1, <2>2, <2>3, <3>1, <3>2
    <3>3. CASE j # 1
      <4>1. j - 1 \in 1..Len(toasts) /\ toasts'[j] = toasts[j - 1] /\ j - 1 < k - 1
        BY <2>1, <2>3, <2>4, <3>3
      <4> QED BY <1>0, <3>1, <4>1 DEF Newest
    <3> QED BY <3>2, <3>3
  <2> QED BY <2>3, <2>4 DEF Newest
<1>3. ASSUME NEW i, Dismiss(i) PROVE Newest'
  <2>1. DOMAIN toasts' = DOMAIN toasts
    BY <1>3 DEF Dismiss
  <2>2. \A k \in DOMAIN toasts : toasts'[k].id = toasts[k].id
    BY <1>0, <1>3 DEF Dismiss, Entries
  <2> QED BY <2>1, <2>2 DEF Newest
<1>4. ASSUME NEW k \in DOMAIN toasts, toasts' = RemoveAt(toasts, k) PROVE Newest'
  <2>1. /\ DOMAIN toasts' = 1..Len(toasts) - 1
        /\ \A m \in 1..Len(toasts) - 1 :
             toasts'[m] = IF m < k THEN toasts[m] ELSE toasts[m + 1]
    BY <1>0, <1>4, Removed DEF StoreOK
  <2>2. \A m \in DOMAIN toasts' : \E n \in DOMAIN toasts :
          toasts'[m] = toasts[n] /\ n = (IF m < k THEN m ELSE m + 1)
    BY <1>0, <2>1
  <2>3. ASSUME NEW j \in DOMAIN toasts', NEW m \in DOMAIN toasts', j < m
        PROVE  toasts'[j].id > toasts'[m].id
    <3>1. PICK x \in DOMAIN toasts : toasts'[j] = toasts[x] /\ x = IF j < k THEN j ELSE j + 1
      BY <2>2
    <3>2. PICK y \in DOMAIN toasts : toasts'[m] = toasts[y] /\ y = IF m < k THEN m ELSE m + 1
      BY <2>2
    <3>3. x < y
      BY <1>0, <2>1, <2>3, <3>1, <3>2
    <3> QED BY <3>1, <3>2, <3>3 DEF Newest
  <2> QED BY <2>3 DEF Newest
<1>5. ASSUME NEW prev \in Incoming \cup {None}, NEW l, Notify(prev, l) PROVE Newest'
  <2>1. CASE Notable(l)
    BY <1>1, <1>2, <1>5, <2>1 DEF Notify, Notable, store
  <2> QED BY <1>1, <1>5, <2>1 DEF Notify, store
<1>6. None \in Incoming \cup {None} /\ prevHash \in Incoming \cup {None}
  BY DEF Typed, HookOK
<1>7. CASE ToastOther \/ Mount \/ Leave \/ Fetch \/ Fetched \/ Turns
  BY <1>1, <1>2, <1>5, <1>6, <1>7
     DEF ToastOther, Mount, Leave, Fetch, Fetched, Turns, store
<1>8. ASSUME NEW i, DismissTimeout(i) \/ Close(i) \/ RemoveToast(i) PROVE Newest'
  BY <1>1, <1>3, <1>4, <1>8 DEF DismissTimeout, Close, RemoveToast
<1>9. ASSUME NEW w, Opens(w) PROVE Newest'
  BY <1>1, <1>9 DEF Opens, store
<1>10. ASSUME NEW t, Appears(t) \/ Confirms(t) PROVE Newest'
  BY <1>1, <1>10 DEF Appears, Confirms, store
<1>11. UNCHANGED vars => UNCHANGED toasts
  BY DEF vars, store
<1> QED BY <1>1, <1>7, <1>8, <1>9, <1>10, <1>11 DEF Next

\* The toast with the id is removed, and no other.
LEMMA RemoveIs ==
  ASSUME Typed, Newest, NEW i, RemoveToast(i)
  PROVE  Shown' = Shown \ {i}
<1>0. /\ toasts \in Seq(Entries) /\ Len(toasts) \in Nat /\ DOMAIN toasts = 1..Len(toasts)
      /\ \A k \in 1..Len(toasts) : toasts[k].id \in Nat
  <2>1. toasts \in Seq(Entries) /\ count \in Nat
    BY NoticesAssumption DEF Typed, StoreOK
  <2>2. \A k \in 1..Len(toasts) : toasts[k] \in Entries
    BY <2>1, ElementOfSeq
  <2>3. \A e \in Entries : e.id \in Nat
    BY <2>1 DEF Entries
  <2> QED BY <2>1, <2>2, <2>3
<1>1. CASE i \notin Shown /\ UNCHANGED toasts
  BY <1>1 DEF Shown
<1>2. ASSUME NEW k \in DOMAIN toasts, toasts[k].id = i, toasts' = RemoveAt(toasts, k)
      PROVE  Shown' = Shown \ {i}
  <2>1. /\ DOMAIN toasts' = 1..Len(toasts) - 1
        /\ \A m \in 1..Len(toasts) - 1 :
             toasts'[m] = IF m < k THEN toasts[m] ELSE toasts[m + 1]
    BY <1>0, <1>2, Removed
  <2>2. \A m \in 1..Len(toasts) : m # k => toasts[m].id # i
    BY <1>0, <1>2 DEF Newest
  <2>3. ASSUME NEW m \in DOMAIN toasts' PROVE toasts'[m].id \in Shown \ {i}
    <3>1. PICK n \in 1..Len(toasts) : n # k /\ toasts'[m] = toasts[n]
      BY <1>0, <1>2, <2>1, <2>3
    <3> QED BY <1>0, <2>2, <3>1 DEF Shown
  <2>4. ASSUME NEW n \in DOMAIN toasts, n # k
        PROVE  \E m \in DOMAIN toasts' : toasts'[m].id = toasts[n].id
    <3>1. CASE n < k
      BY <1>0, <1>2, <2>1, <3>1
    <3>2. CASE n > k
      <4>1. n - 1 \in DOMAIN toasts' /\ ~(n - 1 < k) /\ (n - 1) + 1 = n
        BY <1>0, <1>2, <2>1, <3>2
      <4> QED BY <2>1, <4>1
    <3> QED BY <1>0, <1>2, <2>4, <3>1, <3>2
  <2> QED BY <1>2, <2>3, <2>4 DEF Shown
<1> QED BY <1>1, <1>2 DEF RemoveToast

LEMMA InitNewest == Init => Newest
  BY DEF Init, Newest

\* REMOVE_TOAST filters: no toast with that id is left, and none else is lost.
THEOREM RemovesOne ==
  Spec => [][\A i \in Ids : RemoveToast(i) => Shown' = Shown \ {i}]_vars
<1>1. Typed /\ Newest /\ [Next]_vars
        => [\A i \in Ids : RemoveToast(i) => Shown' = Shown \ {i}]_vars
  BY RemoveIs
<1> QED BY <1>1, InitNewest, InitTyped, TypeStep, NewestStep, PTL DEF Spec

\* Each toast on the screen has a timer that dismisses or removes it.
Timed == Shown \subseteq dismissing \cup removing

LEMMA TimedStep == Typed /\ Newest /\ Timed /\ [Next]_vars => Timed'
<1> SUFFICES ASSUME Typed, Newest, Timed, [Next]_vars PROVE Timed'
  OBVIOUS
<1>0. StoreOK /\ DOMAIN toasts = 1..Len(toasts) /\ Len(toasts) \in Nat
  BY DEF Typed, StoreOK
<1>1. CASE UNCHANGED store
  BY <1>1 DEF Timed, Shown, store
<1>2. ASSUME NEW what \in Incoming \cup {None}, Add(what) PROVE Timed'
  <2>1. /\ StoreOK' /\ toasts'[1].id = count + 1
        /\ \A m \in 2..Len(toasts') : m - 1 \in 1..Len(toasts) /\ toasts'[m] = toasts[m - 1]
    BY <1>0, <1>2, AddTyped
  <2>2. dismissing' = dismissing \cup {count + 1} /\ removing' = removing
    BY <1>2 DEF Add
  <2>3. DOMAIN toasts' = 1..Len(toasts') /\ Len(toasts') \in Nat
    BY <2>1 DEF StoreOK
  <2>4. ASSUME NEW m \in DOMAIN toasts' PROVE toasts'[m].id \in Shown \cup {count + 1}
    <3>1. m = 1 \/ m \in 2..Len(toasts')
      BY <2>3
    <3> QED BY <1>0, <2>1, <3>1 DEF Shown
  <2> QED BY <2>2, <2>4 DEF Timed, Shown
<1>3. ASSUME NEW prev \in Incoming \cup {None}, NEW l, Notify(prev, l) PROVE Timed'
  <2>1. CASE Notable(l)
    BY <1>1, <1>2, <1>3, <2>1 DEF Notify, Notable
  <2> QED BY <1>1, <1>3, <2>1 DEF Notify
<1>4. None \in Incoming \cup {None} /\ prevHash \in Incoming \cup {None}
  BY DEF Typed, HookOK
<1>5. CASE ToastOther \/ Mount \/ Leave \/ Fetch \/ Fetched \/ Turns
  BY <1>1, <1>2, <1>3, <1>4, <1>5 DEF ToastOther, Mount, Leave, Fetch, Fetched, Turns, store
<1>6. ASSUME NEW i, Dismiss(i), dismissing \subseteq dismissing' \cup {i} PROVE Timed'
  <2>1. DOMAIN toasts' = DOMAIN toasts /\ \A k \in DOMAIN toasts : toasts'[k].id = toasts[k].id
    <3>1. \A k \in DOMAIN toasts : toasts[k] \in Entries
      BY <1>0, ElementOfSeq DEF StoreOK
    <3> QED BY <1>6, <3>1 DEF Dismiss, Entries
  <2>2. Shown' = Shown
    BY <2>1 DEF Shown
  <2>3. removing' = removing \cup {i}
    BY <1>6 DEF Dismiss
  <2> QED BY <1>6, <2>2, <2>3 DEF Timed
<1>7. ASSUME NEW i, DismissTimeout(i) \/ Close(i) PROVE Timed'
  BY <1>6, <1>7 DEF DismissTimeout, Close
<1>8. ASSUME NEW i, RemoveToast(i) PROVE Timed'
  <2>1. removing' = removing \ {i} /\ dismissing' = dismissing
    BY <1>8 DEF RemoveToast
  <2> QED BY <1>8, <2>1, RemoveIs DEF Timed
<1>9. ASSUME NEW w, Opens(w) PROVE Timed'
  BY <1>1, <1>9 DEF Opens, store
<1>10. ASSUME NEW t, Appears(t) \/ Confirms(t) PROVE Timed'
  BY <1>1, <1>10 DEF Appears, Confirms, store
<1>11. UNCHANGED vars => UNCHANGED store
  BY DEF vars
<1> QED BY <1>1, <1>5, <1>7, <1>8, <1>9, <1>10, <1>11 DEF Next

\* No toast is on the screen without a timer that takes it off, whatever dismissed it,
\* whatever was dismissed with it, and whichever the limit dropped.
THEOREM ToastsTimed == Spec => []Timed
<1>1. Init => Timed
  BY DEF Init, Timed, Shown
<1> QED BY <1>1, InitNewest, InitTyped, TypeStep, NewestStep, TimedStep, PTL DEF Spec

-----------------------------------------------------------------------------
(* News *)

\* The n-th confirmed transaction of a list, counted from the oldest; a list that another
\* goes on from.
FromEnd(s, n) == s[Len(s) + 1 - n]
Suffix(l, s) == Len(l) <= Len(s) /\ \A n \in 1..Len(l) : FromEnd(l, n) = FromEnd(s, n)

\* A transaction is confirmed once, in the wallet that owns it, and no longer waits.
Ledger ==
  \A w \in Wallets : \A i \in 1..Len(mined[w]) :
    /\ Owner[mined[w][i]] = w /\ mined[w][i] \notin pool[w]
    /\ \A j \in 1..Len(mined[w]) : mined[w][i] = mined[w][j] => i = j

\* What no wallet has confirmed, nothing remembers as old.
OldIsMined == \A x \in old : \E w \in Wallets : x \in ToSet(mined[w])

\* The answer on its way is no older than the n transactions already seen.
Later(n) == answer # NoData => Len(answer.mined) = 0 \/ Len(answer.mined) >= n

\* The hash is of a payment such that nothing confirmed after it is old.
Known(n) ==
  /\ prevHash = FromEnd(mined[open], n) /\ Later(n)
  /\ \A m \in n + 1..Len(mined[open]) : FromEnd(mined[open], m) \notin old

\* What the hook has seen of the wallet that is open.
ListFits(l) == l # NoData => open # None /\ Suffix(l.mined, mined[open])
Fits ==
  /\ OldIsMined /\ ListFits(cache) /\ ListFits(answer)
  /\ cache # NoData => Later(Len(cache.mined))
  /\ prevHash # None => \E n \in 1..Len(mined[open]) : Known(n)
Latest == Ledger /\ (~here => prevHash = None) /\ (~switched => Fits)

LEMMA Pushed ==
  ASSUME NEW t \in Txs, NEW s \in Seq(Txs)
  PROVE  /\ <<t>> \o s \in Seq(Txs) /\ Len(<<t>> \o s) = Len(s) + 1 /\ Len(s) \in Nat
         /\ \A i \in 1..Len(s) + 1 : (<<t>> \o s)[i] = IF i = 1 THEN t ELSE s[i - 1]
<1>1. <<t>> \in Seq(Txs) /\ Len(<<t>>) = 1 /\ <<t>>[1] = t /\ Len(s) \in Nat
  OBVIOUS
<1> QED BY <1>1, ConcatProperties

\* A transaction more at the head does not move what is counted from the oldest.
LEMMA PushedFromEnd ==
  ASSUME NEW t \in Txs, NEW s \in Seq(Txs)
  PROVE  /\ \A n \in 1..Len(s) : FromEnd(<<t>> \o s, n) = FromEnd(s, n)
         /\ FromEnd(<<t>> \o s, Len(s) + 1) = t
<1> DEFINE r == <<t>> \o s
<1>1. /\ Len(r) = Len(s) + 1 /\ Len(s) \in Nat
      /\ \A i \in 1..Len(s) + 1 : r[i] = IF i = 1 THEN t ELSE s[i - 1]
  BY Pushed
<1> HIDE DEF r
<1>2. FromEnd(r, Len(s) + 1) = t
  BY <1>1 DEF FromEnd
<1>3. ASSUME NEW n \in 1..Len(s) PROVE FromEnd(r, n) = FromEnd(s, n)
  <2>1. Len(r) + 1 - n = Len(s) + 2 - n /\ Len(s) + 2 - n \in 2..Len(s) + 1
    BY <1>1
  <2>2. r[Len(s) + 2 - n] = s[Len(s) + 2 - n - 1] /\ Len(s) + 2 - n - 1 = Len(s) + 1 - n
    BY <1>1, <2>1
  <2> QED BY <2>1, <2>2 DEF FromEnd
<1> QED BY <1>2, <1>3 DEF r

LEMMA LedgerStep == Typed /\ Ledger /\ [Next]_vars => Ledger'
<1> SUFFICES ASSUME Typed, Ledger, [Next]_vars PROVE Ledger'
  OBVIOUS
<1>0. WalletOK
  BY DEF Typed
<1>1. CASE UNCHANGED <<pool, mined>>
  BY <1>1 DEF Ledger
<1>2. ASSUME NEW t \in Txs, Appears(t) PROVE Ledger'
  <2>1. /\ Owner[t] \in Wallets /\ pool' = [pool EXCEPT ![Owner[t]] = @ \cup {t}]
        /\ UNCHANGED mined /\ t \notin ToSet(mined[Owner[t]])
    BY <1>2, NoticesAssumption DEF Appears
  <2>2. \A i \in 1..Len(mined[Owner[t]]) : mined[Owner[t]][i] # t
    BY <1>0, <2>1, Members DEF WalletOK
  <2> QED BY <1>0, <2>1, <2>2 DEF Ledger, WalletOK
<1>3. ASSUME NEW t \in Txs, Confirms(t) PROVE Ledger'
  <2> DEFINE w == Owner[t]
             s == mined[w]
  <2>1. /\ w \in Wallets /\ t \in pool[w] /\ pool' = [pool EXCEPT ![w] = @ \ {t}]
        /\ mined' = [mined EXCEPT ![w] = <<t>> \o s] /\ s \in Seq(Txs)
    BY <1>0, <1>3, ConfirmsTyped DEF Confirms, WalletOK
  <2>2. /\ Len(<<t>> \o s) = Len(s) + 1 /\ Len(s) \in Nat
        /\ \A i \in 1..Len(s) + 1 : (<<t>> \o s)[i] = IF i = 1 THEN t ELSE s[i - 1]
    BY <2>1, Pushed
  <2>3. \A i \in 1..Len(s) : s[i] # t
    BY <2>1 DEF Ledger
  <2>4. mined'[w] = <<t>> \o s /\ \A v \in Wallets \ {w} : UNCHANGED <<mined[v], pool[v]>>
    BY <1>0, <2>1 DEF WalletOK
  <2>5. pool'[w] = pool[w] \ {t}
    BY <1>0, <2>1 DEF WalletOK
  <2> DEFINE r == <<t>> \o s
  <2>6. \A i \in 1..Len(s) : Owner[s[i]] = w /\ s[i] \notin pool[w]
          /\ \A k \in 1..Len(s) : s[i] = s[k] => i = k
    BY <2>1 DEF Ledger
  <2> HIDE DEF r, s, w
  <2>7. ASSUME NEW i \in 1..Len(r)
        PROVE  /\ Owner[r[i]] = w /\ r[i] \notin pool'[w]
               /\ \A k \in 1..Len(r) : r[i] = r[k] => i = k
    <3>1. CASE i = 1
      BY <2>2, <2>3, <2>5, <3>1 DEF r, w
    <3>2. CASE i # 1
      BY <2>2, <2>3, <2>5, <2>6, <3>2 DEF r
    <3> QED BY <3>1, <3>2
  <2>8. mined'[w] = r
    BY <2>4 DEF r
  <2> QED BY <2>4, <2>7, <2>8 DEF Ledger
<1>4. CASE ~\E t \in Txs : Appears(t) \/ Confirms(t)
  BY <1>1, <1>4 DEF Next, ToastOther, Mount, Leave, Fetch, Fetched, Turns, DismissTimeout,
     Close, RemoveToast, Opens, vars, wallet
<1> QED BY <1>2, <1>3, <1>4

\* The members of a list, counted from the oldest.
LEMMA CountedFromEnd ==
  ASSUME NEW s \in Seq(Txs)
  PROVE  /\ Len(s) \in Nat
         /\ \A n \in 1..Len(s) : FromEnd(s, n) \in ToSet(s)
         /\ \A x \in ToSet(s) : \E n \in 1..Len(s) : x = FromEnd(s, n)
         /\ s # <<>> => Len(s) \in Nat \ {0} /\ Head(s) = FromEnd(s, Len(s))
<1>1. Len(s) \in Nat /\ ToSet(s) = {s[i] : i \in 1..Len(s)}
  BY Members
<1>2. \A n \in 1..Len(s) : Len(s) + 1 - n \in 1..Len(s)
  BY <1>1
<1>3. ASSUME NEW x \in ToSet(s) PROVE \E n \in 1..Len(s) : x = FromEnd(s, n)
  <2>1. PICK i \in 1..Len(s) : x = s[i]
    BY <1>1
  <2>2. Len(s) + 1 - i \in 1..Len(s) /\ Len(s) + 1 - (Len(s) + 1 - i) = i
    BY <1>1
  <2> QED BY <2>1, <2>2 DEF FromEnd
<1>4. s # <<>> => Len(s) \in Nat \ {0} /\ Head(s) = FromEnd(s, Len(s))
  <2>1. s # <<>> => Len(s) \in Nat \ {0}
    BY EmptySeq
  <2>2. Len(s) + 1 - Len(s) = 1
    BY <1>1
  <2> QED BY <2>1, <2>2 DEF FromEnd
<1> QED BY <1>1, <1>2, <1>3, <1>4 DEF FromEnd

\* A confirmed transaction is confirmed once.
LEMMA LedgerIs ==
  ASSUME WalletOK, Ledger, NEW w \in Wallets
  PROVE  /\ \A x \in ToSet(mined[w]) : Owner[x] = w /\ x \notin pool[w]
         /\ \A m, n \in 1..Len(mined[w]) :
              FromEnd(mined[w], m) = FromEnd(mined[w], n) => m = n
<1> DEFINE s == mined[w]
<1>1. s \in Seq(Txs) /\ Len(s) \in Nat
  BY DEF WalletOK
<1>2. \A i \in 1..Len(s) : Owner[s[i]] = w /\ s[i] \notin pool[w]
        /\ \A k \in 1..Len(s) : s[i] = s[k] => i = k
  BY DEF Ledger
<1>3. \A x \in ToSet(s) : \E i \in 1..Len(s) : x = s[i]
  BY <1>1, Members
<1> HIDE DEF s
<1>4. ASSUME NEW m \in 1..Len(s), NEW n \in 1..Len(s), FromEnd(s, m) = FromEnd(s, n)
      PROVE  m = n
  <2>1. Len(s) + 1 - m \in 1..Len(s) /\ Len(s) + 1 - n \in 1..Len(s)
    BY <1>1
  <2>2. Len(s) + 1 - m = Len(s) + 1 - n
    BY <1>2, <1>4, <2>1 DEF FromEnd
  <2> QED BY <1>1, <2>2
<1>5. \A x \in ToSet(s) : Owner[x] = w /\ x \notin pool[w]
  BY <1>2, <1>3
<1> QED BY <1>4, <1>5 DEF s

\* A list that is shown is of the wallet, and of what was confirmed by its time: the rest is
\* newer.
LEMMA ShownIsKnown ==
  ASSUME Typed, Ledger, NEW l \in Lists \cup {NoData}, Notable(l), ListFits(l)
  PROVE  LET n == Len(l.mined)
         IN /\ open \in Wallets /\ n \in 1..Len(mined[open])
            /\ Head(l.mined) = FromEnd(mined[open], n)
            /\ \A m \in n + 1..Len(mined[open]) : FromEnd(mined[open], m) \notin Confirmed(l)
            /\ \A x \in Confirmed(l) : \E w \in Wallets : x \in ToSet(mined[w])
<1> DEFINE s == mined[open]
           k == l.mined
           n == Len(k)
<1>1. open \in Wallets /\ s \in Seq(Txs) /\ k \in Seq(Txs) /\ k # <<>> /\ Suffix(k, s)
  BY DEF Typed, WalletOK, ListFits, Notable, Lists
<1>2. /\ n \in Nat \ {0} /\ Head(k) = FromEnd(k, n)
      /\ \A x \in ToSet(k) : \E i \in 1..n : x = FromEnd(k, i)
  BY <1>1, CountedFromEnd
<1>3. /\ Len(s) \in Nat /\ \A i \in 1..Len(s) : FromEnd(s, i) \in ToSet(s)
  BY <1>1, CountedFromEnd
<1>4. n <= Len(s) /\ \A i \in 1..n : FromEnd(k, i) = FromEnd(s, i)
  BY <1>1 DEF Suffix
<1>5. /\ \A x \in ToSet(s) : Owner[x] = open
      /\ \A i, m \in 1..Len(s) : FromEnd(s, i) = FromEnd(s, m) => i = m
      /\ \A w \in Wallets : \A x \in ToSet(mined[w]) : Owner[x] = w
  BY <1>1, LedgerIs DEF Typed
<1>6. \A x \in Confirmed(l) : x \in ToSet(k) \/ \E w \in Wallets :
        x \in ToSet(mined[w]) /\ (Head(k) \notin ToSet(mined[w]) \/ ToSet(mined[w]) = ToSet(k))
  BY DEF Confirmed
<1> HIDE DEF s, k, n
<1>7. n \in 1..Len(s) /\ Head(k) = FromEnd(s, n) /\ Head(k) \in ToSet(s)
  <2>1. n \in 1..Len(s) /\ n \in 1..n
    BY <1>2, <1>3, <1>4
  <2> QED BY <1>2, <1>3, <1>4, <2>1
<1>8. \A x \in ToSet(k) : \E i \in 1..n : x = FromEnd(s, i)
  BY <1>2, <1>4
<1>9. ASSUME NEW m \in n + 1..Len(s) PROVE FromEnd(s, m) \notin Confirmed(l)
  <2>1. m \in 1..Len(s) /\ m \notin 1..n
    BY <1>2, <1>3
  <2>2. FromEnd(s, m) \notin ToSet(k)
    <3>1. 1..n \subseteq 1..Len(s)
      BY <1>2, <1>3, <1>4
    <3> QED BY <1>5, <1>8, <2>1, <3>1
  <2>3. ASSUME NEW w \in Wallets, FromEnd(s, m) \in ToSet(mined[w]) PROVE Head(k) \in ToSet(mined[w])
    <3>1. FromEnd(s, m) \in ToSet(s)
      BY <1>3, <2>1
    <3>2. w = open
      BY <1>5, <2>3, <3>1
    <3> QED BY <1>7, <3>2 DEF s
  <2> QED BY <1>6, <2>2, <2>3
<1>10. ASSUME NEW x \in Confirmed(l) PROVE \E w \in Wallets : x \in ToSet(mined[w])
  <2>1. CASE x \in ToSet(k)
    <3>1. 1..n \subseteq 1..Len(s)
      BY <1>2, <1>3, <1>4
    <3>2. x \in ToSet(s)
      BY <1>3, <1>8, <2>1, <3>1
    <3> QED BY <1>1, <3>2 DEF s
  <2> QED BY <1>6, <2>1
<1> QED BY <1>1, <1>7, <1>9, <1>10 DEF s, k, n

\* An answer of the node that runs is of its wallet.
LEMMA ListFitsNow ==
  ASSUME Typed, open \in Wallets
  PROVE  /\ ListFits(List)
         /\ Len(List.mined) = 0 \/ Len(List.mined) = Len(mined[open])
<1>1. Len(mined[open]) \in Nat /\ open # None
  BY NoticesAssumption DEF Typed, WalletOK
<1>2. List.mined = IF ready THEN mined[open] ELSE <<>>
  BY DEF List
<1>3. Suffix(List.mined, mined[open])
  BY <1>1, <1>2 DEF Suffix
<1> QED BY <1>1, <1>2, <1>3 DEF ListFits

\* The lists grow at the head, with what nothing remembers.
LEMMA ConfirmsFits ==
  ASSUME Typed, Ledger, ~here => prevHash = None, Fits, NEW t \in Txs, Confirms(t)
  PROVE  Fits'
<1> DEFINE w == Owner[t]
           s == mined[open]
           r == <<t>> \o s
<1>1. /\ w \in Wallets /\ t \in pool[w] /\ mined[w] \in Seq(Txs)
      /\ mined' = [mined EXCEPT ![w] = <<t>> \o mined[w]]
      /\ mined \in [Wallets -> Seq(Txs)]
  BY ConfirmsTyped DEF Typed, WalletOK
<1>2. UNCHANGED <<open, hook, old>>
  BY DEF Confirms
<1>3. t \notin old
  <2>1. \A v \in Wallets : \A x \in ToSet(mined[v]) : Owner[x] = v /\ x \notin pool[v]
    BY LedgerIs DEF Typed
  <2>2. t \in old => \E v \in Wallets : t \in ToSet(mined[v])
    BY DEF Fits, OldIsMined
  <2> QED BY <1>1, <2>1, <2>2
<1>4. OldIsMined'
  <2>1. ASSUME NEW v \in Wallets, NEW x \in ToSet(mined[v]) PROVE x \in ToSet(mined'[v])
    <3>1. CASE v # w
      BY <1>1, <3>1
    <3>2. CASE v = w
      <4>1. PICK n \in 1..Len(mined[w]) : x = FromEnd(mined[w], n)
        BY <1>1, <3>2, CountedFromEnd
      <4>2. x = FromEnd(<<t>> \o mined[w], n)
        BY <1>1, <4>1, PushedFromEnd
      <4>3. /\ <<t>> \o mined[w] \in Seq(Txs) /\ n \in 1..Len(<<t>> \o mined[w])
        BY <1>1, Pushed
      <4>4. mined'[w] = <<t>> \o mined[w]
        BY <1>1
      <4> QED BY <3>2, <4>2, <4>3, <4>4, CountedFromEnd
    <3> QED BY <3>1, <3>2
  <2> QED BY <1>2, <2>1 DEF Fits, OldIsMined
<1>5. CASE open # w
  <2>1. open # None => mined'[open] = mined[open]
    BY <1>1, <1>5 DEF Typed, WalletOK
  <2>2. prevHash # None => open # None
    <3>1. open = None => ~here
      BY DEF Typed, WalletOK
    <3> QED BY <3>1
  <2> QED BY <1>2, <1>4, <2>1, <2>2 DEF Fits, ListFits, Known, Later, hook
<1>6. CASE open = w
  <2>1. s \in Seq(Txs) /\ mined'[open] = r
    BY <1>1, <1>6
  <2>2. /\ Len(r) = Len(s) + 1 /\ Len(s) \in Nat /\ FromEnd(r, Len(s) + 1) = t
        /\ \A n \in 1..Len(s) : FromEnd(r, n) = FromEnd(s, n)
    BY <2>1, Pushed, PushedFromEnd
  <2> HIDE DEF r, s
  <2>3. ASSUME NEW l, l # NoData => l.mined \in Seq(Txs), ListFits(l) PROVE ListFits(l)'
    <3>1. l # NoData => Len(l.mined) \in Nat /\ Suffix(l.mined, s) /\ open # None
      BY <2>3 DEF ListFits, s
    <3>2. l # NoData => Suffix(l.mined, r)
      BY <2>2, <3>1 DEF Suffix
    <3> QED BY <1>2, <2>1, <3>1, <3>2 DEF ListFits
  <2>4. ListFits(cache)' /\ ListFits(answer)'
    BY <1>2, <2>3 DEF Typed, HookOK, Lists, Fits, hook
  <2>5. ASSUME NEW n \in 1..Len(s), Known(n) PROVE n \in 1..Len(r) /\ Known(n)'
    <3>1. /\ prevHash = FromEnd(s, n) /\ Later(n)
          /\ \A m \in n + 1..Len(s) : FromEnd(s, m) \notin old
      BY <2>5 DEF Known, s
    <3>2. \A m \in n + 1..Len(r) : FromEnd(r, m) \notin old
      BY <1>3, <2>2, <3>1
    <3> QED BY <1>2, <2>1, <2>2, <3>1, <3>2 DEF Known, Later, hook
  <2> QED BY <1>2, <1>4, <2>1, <2>4, <2>5 DEF Fits, Later, hook, s
<1> QED BY <1>5, <1>6


\* The effect on a list that fits, which no answer on its way is older than.
LEMMA NotifyFits ==
  ASSUME Typed, Ledger, Fits, NEW l \in Lists \cup {NoData}, ListFits(l),
         NEW prev, Notify(prev, l), prev = None \/ prev = prevHash, UNCHANGED wallet,
         l # NoData => Later(Len(l.mined))', \A n : Later(n) => Later(n)'
  PROVE  /\ OldIsMined'
         /\ prevHash' # None => \E n \in 1..Len(mined[open]) : Known(n)'
<1>0. UNCHANGED <<open, mined>>
  BY DEF wallet
<1>1. CASE ~Notable(l)
  <2>1. UNCHANGED old /\ prevHash' = prev
    BY <1>1 DEF Notify
  <2> QED BY <1>0, <2>1 DEF Fits, OldIsMined, Known
<1>2. CASE Notable(l)
  <2>1. prevHash' = Head(l.mined) /\ old' = Confirmed(l) /\ l # NoData
    BY <1>2 DEF Notify, Notable
  <2>2. Later(Len(l.mined))'
    BY <2>1
  <2> QED BY <1>0, <1>2, <2>1, <2>2, ShownIsKnown DEF OldIsMined, Known
<1> QED BY <1>1, <1>2

LEMMA LatestStep == Typed /\ Latest /\ [Next]_vars => Latest'
<1> SUFFICES ASSUME Typed, Latest, [Next]_vars PROVE Latest'
  OBVIOUS
<1>0. /\ Ledger /\ Ledger' /\ (~here => prevHash = None) /\ WalletOK /\ HookOK
      /\ switched \in BOOLEAN
  BY LedgerStep DEF Latest, Typed, HistoryOK
<1>1. ~here' => prevHash' = None
  <2>1. \/ Mount \/ Leave \/ Fetched \/ UNCHANGED <<here, prevHash>>
    BY DEF Next, ToastOther, Fetch, Turns, DismissTimeout, Close, RemoveToast, Opens,
       Appears, Confirms, vars, hook
  <2> QED BY <1>0, <2>1 DEF Mount, Leave, Fetched
<1>2. switched => switched'
  BY DEF Next, ToastOther, Mount, Leave, Fetch, Fetched, Turns, DismissTimeout, Close,
     RemoveToast, Opens, Appears, Confirms, vars
<1> SUFFICES ASSUME Fits, ~switched' PROVE Fits'
  BY <1>0, <1>1, <1>2 DEF Latest
<1>3. CASE UNCHANGED <<open, mined, prevHash, cache, answer, old>>
  BY <1>3 DEF Fits, OldIsMined, ListFits, Later, Known
<1>4. CASE Mount
  <2>1. UNCHANGED <<wallet, cache, answer>> /\ Notify(None, cache) /\ cache \in Lists \cup {NoData}
    BY <1>0, <1>4 DEF Mount, HookOK
  <2>2. (cache # NoData => Later(Len(cache.mined))') /\ \A n : Later(n) => Later(n)'
    BY <2>1 DEF Fits, Later
  <2>3. /\ OldIsMined'
        /\ prevHash' # None => \E n \in 1..Len(mined[open]) : Known(n)'
    BY <1>0, <2>1, <2>2, NotifyFits DEF Fits
  <2> QED BY <2>1, <2>2, <2>3 DEF Fits, ListFits, wallet
<1>5. CASE Leave
  BY <1>5 DEF Leave, Fits, OldIsMined, ListFits, Later, wallet
<1>6. CASE Fetch
  <2>1. /\ open \in Wallets /\ answer' = List
        /\ UNCHANGED <<wallet, prevHash, cache, old>>
    BY <1>0, <1>6 DEF Fetch, WalletOK
  <2>2. ListFits(List) /\ (Len(List.mined) = 0 \/ Len(List.mined) = Len(mined[open]))
    BY <2>1, ListFitsNow
  <2>3. ListFits(cache)' /\ ListFits(answer)' /\ OldIsMined'
    BY <2>1, <2>2 DEF Fits, ListFits, OldIsMined, wallet
  <2>4. cache # NoData => Later(Len(cache.mined))'
    BY <2>1, <2>2 DEF Fits, ListFits, Suffix, Later
  <2>5. ASSUME NEW n \in 1..Len(mined[open]), Known(n) PROVE Known(n)'
    BY <2>1, <2>2, <2>5 DEF Known, Later, wallet
  <2> QED BY <2>1, <2>3, <2>4, <2>5 DEF Fits, wallet
<1>7. CASE Fetched
  <2>1. /\ answer # NoData /\ answer' = NoData /\ cache' = answer /\ UNCHANGED wallet
        /\ answer \in Lists \cup {NoData}
    BY <1>0, <1>7 DEF Fetched, HookOK
  <2>2. \A n : Later(n)'
    BY <2>1 DEF Later
  <2>3. /\ OldIsMined'
        /\ prevHash' # None => \E n \in 1..Len(mined[open]) : Known(n)'
    <3>1. CASE here
      BY <1>0, <1>7, <2>1, <2>2, <3>1, NotifyFits DEF Fetched, Fits
    <3>2. CASE ~here
      BY <1>0, <1>7, <3>2 DEF Fetched, Fits, OldIsMined, wallet
    <3> QED BY <3>1, <3>2
  <2> QED BY <2>1, <2>2, <2>3 DEF Fits, ListFits, wallet
<1>8. ASSUME NEW w \in Wallets, Opens(w) PROVE Fits'
  <2>1. cache = NoData /\ answer = NoData /\ prevHash = None /\ UNCHANGED <<mined, hook, old>>
    BY <1>0, <1>2, <1>8 DEF Opens
  <2> QED BY <2>1 DEF Fits, OldIsMined, ListFits, hook
<1>9. ASSUME NEW t \in Txs, Confirms(t) PROVE Fits'
  BY <1>0, <1>9, ConfirmsFits
<1>10. CASE \/ ToastOther \/ Turns \/ UNCHANGED vars
            \/ \E i \in Ids : DismissTimeout(i) \/ Close(i) \/ RemoveToast(i)
            \/ \E t \in Txs : Appears(t)
  BY <1>3, <1>10 DEF ToastOther, Turns, DismissTimeout, Close, RemoveToast, Appears, vars,
     wallet, hook
<1> QED BY <1>4, <1>5, <1>6, <1>7, <1>8, <1>9, <1>10 DEF Next

LEMMA InitLatest == Init => Latest
<1> SUFFICES ASSUME Init PROVE Latest
  OBVIOUS
<1>1. \A w \in Wallets : Len(mined[w]) = 0
  BY DEF Init
<1>2. Ledger
  BY <1>1 DEF Ledger
<1> QED BY <1>2 DEF Init, Latest, Fits, OldIsMined, ListFits

\* A notice is news, for a user who stays with one node: the payment was not in the list the
\* hook knew, not even behind its head.
THEOREM NewsHolds == Spec => FreshNotice
<1> DEFINE Stale == \E p \in Incoming : ~switched /\ Announces(p) /\ p \in old
<1>1. Typed /\ Latest /\ [Next]_vars => ~Stale \/ UNCHANGED vars
  <2> SUFFICES ASSUME Typed, Latest, Next,
                      NEW p \in Incoming, ~switched, Announces(p)
               PROVE  p \notin old
    OBVIOUS
  <2>0. Fits /\ Ledger /\ StoreOK /\ HookOK /\ p # None
    BY NoticesAssumption DEF Latest, Typed
  <2>1. count' # count /\ toasts'[1].about = p
    BY DEF Announces
  <2>2. ~ToastOther
    BY <2>0, <2>1, AddTyped DEF ToastOther
  <2>3. ~Mount
    BY <2>1 DEF Mount, Notify, store
  <2>4. ASSUME NEW i \in Ids PROVE ~(DismissTimeout(i) \/ Close(i) \/ RemoveToast(i))
    BY <2>1 DEF DismissTimeout, Close, RemoveToast, Dismiss
  <2>5. Fetched
    BY <2>1, <2>2, <2>3, <2>4 DEF Next, Leave, Fetch, Turns, Opens, Appears, Confirms, store
  <2>6. here /\ Notify(prevHash, answer) /\ answer \in Lists \cup {NoData}
    BY <2>0, <2>1, <2>5 DEF Fetched, HookOK, store
  <2>7. /\ Notable(answer) /\ prevHash \notin {None, Head(answer.mined)}
        /\ Add(Head(answer.mined)) /\ Head(answer.mined) \in Incoming
    BY <2>1, <2>6 DEF Notify, Notable, store
  <2>8. p = Head(answer.mined)
    BY <2>0, <2>1, <2>7, AddTyped
  <2> DEFINE k == Len(answer.mined)
  <2>9. k \in 1..Len(mined[open]) /\ p = FromEnd(mined[open], k)
    BY <2>0, <2>6, <2>7, <2>8, ShownIsKnown DEF Fits
  <2>10. PICK n \in 1..Len(mined[open]) : Known(n)
    BY <2>0, <2>7 DEF Fits
  <2>11. k >= n /\ k # n
    <3>1. answer # NoData /\ k # 0
      BY <2>7, <2>9 DEF Notable
    <3>2. k >= n
      BY <2>10, <3>1 DEF Known, Later
    <3>3. k # n
      BY <2>7, <2>8, <2>9, <2>10 DEF Known
    <3> QED BY <3>2, <3>3
  <2> HIDE DEF k
  <2>12. k \in n + 1..Len(mined[open])
    BY <2>9, <2>10, <2>11
  <2> QED BY <2>9, <2>10, <2>12 DEF Known
<1>2. Typed /\ Latest /\ [Next]_vars
        => [\A p \in Incoming : ~switched /\ Announces(p) => p \notin old]_vars
  BY <1>1
<1> QED BY <1>2, InitTyped, TypeStep, InitLatest, LatestStep, PTL DEF Spec, FreshNotice

=============================================================================
