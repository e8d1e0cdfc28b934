--------------------------- MODULE ScanListProofs ---------------------------
(***************************************************************************)
(* Proofs about the list of access points: for every table size, every set *)
(* of access points and every sequence of reports, the table is sorted,    *)
(* free of aliases and duplicates, and holds the strongest ones heard.     *)
(***************************************************************************)
EXTENDS ScanList, TLAPS

(* The invariant is inductive as a whole: a shift keeps the order only     *)
(* because no two pointers alias, the entry that is overwritten is the     *)
(* weakest only because the list is sorted, and it is found by its BSSID   *)
(* only because that is listed once.                                       *)
ListInv == ListTypeOK /\ Sorted /\ NoAlias /\ NoDuplicate /\ Strongest

(* The place an entry came from and the place it goes to in a shift.       *)
Old(k, from, to) == IF to < k /\ k <= from THEN k - 1 ELSE k
New(k, from, to) == IF to <= k /\ k < from THEN k + 1 ELSE k

(* What a shift does: it puts s at place to, and keeps the order of the    *)
(* others.                                                                 *)
LEMMA ShiftFacts ==
    ASSUME NEW n \in 1 .. Max, NEW f \in 1 .. n, NEW to \in 1 .. f, NEW s \in Slot,
           NEW p \in [Slot -> Slot \cup {0}]
    PROVE  /\ ShiftIn(p, f, to, s) \in [Slot -> Slot \cup {0}]
           /\ ShiftIn(p, f, to, s)[to] = s
           /\ \A k \in 1 .. n : k # to =>
                /\ Old(k, f, to) \in 1 .. n /\ Old(k, f, to) # f
                /\ ShiftIn(p, f, to, s)[k] = p[Old(k, f, to)]
                /\ k < to => Old(k, f, to) < to
                /\ k > to => Old(k, f, to) >= to
           /\ \A j, k \in 1 .. n : (j # to /\ k # to /\ j < k)
                => Old(j, f, to) < Old(k, f, to)
           /\ \A k \in 1 .. n : k # f =>
                New(k, f, to) \in 1 .. n /\ New(k, f, to) # to /\ Old(New(k, f, to), f, to) = k
  BY ScanListAssumption DEF ShiftIn, Old, New, Slot

(* An entry e is written to slot sl, which nobody else points to, and a    *)
(* pointer to it is shifted in at a place that suits its signal; the       *)
(* pointer at place f is dropped, and n are listed then.                   *)
ShiftPre(n, f, to, sl, e) ==
    /\ scan_cnt <= n
    /\ \A k \in 1 .. n : k # f => k \in Listed /\ pap_details[k] # sl
    /\ \A j, k \in 1 .. n : (j # f /\ k # f /\ j < k) =>
            /\ At(j).signal >= At(k).signal
            /\ pap_details[j] # pap_details[k]
            /\ At(j).bssid # At(k).bssid
    /\ \A k \in 1 .. n : k # f =>
            /\ At(k).bssid # e.bssid
            /\ k < to => At(k).signal >= e.signal
            /\ k >= to => At(k).signal <= e.signal
    /\ scan_cnt' = n
    /\ pap_details' = ShiftIn(pap_details, f, to, sl)
    /\ ap_details' = [ap_details EXCEPT ![sl] = e]

(* The list is in order again; e is at place to, everything else moved.    *)
ShiftPost(n, f, to, e) ==
    /\ pap_details' \in [Slot -> Slot \cup {0}]
    /\ ap_details' \in [Slot -> Entry]
    /\ \A k \in Listed' : /\ pap_details'[k] \in 1 .. n
                          /\ At(k)'.bssid \in Bssids /\ At(k)'.signal \in Signals
    /\ Sorted' /\ NoAlias' /\ NoDuplicate'
    /\ Listed' = 1 .. n
    /\ At(to)' = e
    /\ \A k \in 1 .. n : k # to =>
            /\ Old(k, f, to) \in 1 .. n /\ Old(k, f, to) # f
            /\ At(k)' = At(Old(k, f, to))
    /\ \A k \in 1 .. n : k # f =>
            /\ New(k, f, to) \in 1 .. n /\ New(k, f, to) # to
            /\ At(New(k, f, to))' = At(k)

(* Such a shift keeps the list in order.                                   *)
LEMMA ShiftKeepsList ==
    ASSUME ListTypeOK,
           NEW n \in 1 .. Max, NEW f \in 1 .. n, NEW to \in 1 .. f, NEW sl \in 1 .. n,
           NEW e \in [bssid : Bssids, signal : Signals],
           ShiftPre(n, f, to, sl, e)
    PROVE  ShiftPost(n, f, to, e)
<1> DEFINE o(k) == Old(k, f, to)
           nw(k) == New(k, f, to)
<1> USE ScanListAssumption DEF ShiftPre
<1>1. /\ pap_details \in [Slot -> Slot \cup {0}] /\ ap_details \in [Slot -> Entry]
      /\ scan_cnt \in 0 .. Max /\ sl \in Slot /\ n \in Slot
  BY DEF ListTypeOK, Slot
<1>2. /\ pap_details' \in [Slot -> Slot \cup {0}]
      /\ pap_details'[to] = sl
      /\ \A k \in 1 .. n : k # to =>
            /\ o(k) \in 1 .. n /\ o(k) # f /\ pap_details'[k] = pap_details[o(k)]
            /\ k < to => o(k) < to
            /\ k > to => o(k) >= to
      /\ \A j, k \in 1 .. n : (j # to /\ k # to /\ j < k) => o(j) < o(k)
      /\ \A k \in 1 .. n : k # f => nw(k) \in 1 .. n /\ nw(k) # to /\ o(nw(k)) = k
  BY <1>1, ShiftFacts
<1>3. \A k \in 1 .. n : k # f =>
        /\ pap_details[k] \in 1 .. scan_cnt /\ pap_details[k] \in Slot
        /\ At(k).bssid \in Bssids /\ At(k).signal \in Signals
  BY <1>1 DEF ListTypeOK, Listed, Slot
<1>4. ap_details' \in [Slot -> Entry]
  BY <1>1 DEF Entry
<1> HIDE DEF o, nw
<1>5. At(to)' = e
  BY <1>1, <1>2 DEF At
<1>6. \A k \in 1 .. n : k # to => At(k)' = At(o(k))
  BY <1>1, <1>2, <1>3 DEF At
<1>7. Listed' = 1 .. n
  BY DEF Listed
<1>8. \A k \in Listed' : /\ pap_details'[k] \in 1 .. n
                         /\ At(k)'.bssid \in Bssids /\ At(k)'.signal \in Signals
  <2> SUFFICES ASSUME NEW k \in 1 .. n
               PROVE  /\ pap_details'[k] \in 1 .. n
                      /\ At(k)'.bssid \in Bssids /\ At(k)'.signal \in Signals
    BY <1>7
  <2>1. CASE k = to
    BY <2>1, <1>2, <1>5
  <2>2. CASE k # to
    BY <2>2, <1>1, <1>2, <1>3, <1>6
  <2> QED BY <2>1, <2>2
<1>9. ASSUME NEW j \in 1 .. n, NEW k \in 1 .. n, j < k
      PROVE  /\ At(j)'.signal >= At(k)'.signal
             /\ pap_details'[j] # pap_details'[k]
             /\ At(j)'.bssid # At(k)'.bssid
  <2>1. CASE j # to /\ k # to
    BY <2>1, <1>2, <1>6, <1>9
  <2>2. CASE j = to
    <3>1. k # to /\ k > to
      BY <2>2, <1>9
    <3>2. o(k) \in 1 .. n /\ o(k) # f /\ o(k) >= to
      BY <3>1, <1>2
    <3> QED BY <2>2, <3>1, <3>2, <1>2, <1>3, <1>5, <1>6
  <2>3. CASE k = to
    <3>1. j # to /\ j < to
      BY <2>3, <1>9
    <3>2. o(j) \in 1 .. n /\ o(j) # f /\ o(j) < to
      BY <3>1, <1>2
    <3> QED BY <2>3, <3>1, <3>2, <1>2, <1>3, <1>5, <1>6
  <2> QED BY <2>1, <2>2, <2>3
<1>10. Sorted'
  BY <1>7, <1>9 DEF Sorted
<1>11. NoAlias' /\ NoDuplicate'
  <2> SUFFICES ASSUME NEW i \in 1 .. n, NEW j \in 1 .. n, i # j
               PROVE  pap_details'[i] # pap_details'[j] /\ At(i)'.bssid # At(j)'.bssid
    BY <1>7 DEF NoAlias, NoDuplicate
  <2>1. i < j \/ j < i
    OBVIOUS
  <2> QED BY <2>1, <1>9
<1>12. \A k \in 1 .. n : k # f =>
          nw(k) \in 1 .. n /\ nw(k) # to /\ At(nw(k))' = At(k)
  BY <1>2, <1>6
<1>13. \A k \in 1 .. n : k # to => o(k) \in 1 .. n /\ o(k) # f /\ At(k)' = At(o(k))
  BY <1>2, <1>6
<1> HIDE DEF ShiftPre
<1> QED
  BY <1>2, <1>4, <1>5, <1>7, <1>8, <1>10, <1>11, <1>12, <1>13 DEF o, nw, ShiftPost

(* The strongest report of each BSSID after one more.                      *)
LEMMA BestFacts ==
    ASSUME ListTypeOK, NEW b \in Bssids, NEW s \in Signals, best' = Best(b, s)
    PROVE  /\ Heard' = Heard \cup {b} /\ Heard' \subseteq Bssids
           /\ best' \in [Heard' -> Signals]
           /\ \A x \in Heard : x # b => best'[x] = best[x]
           /\ b \in Heard => best'[b] = IF best[b] >= s THEN best[b] ELSE s
           /\ b \notin Heard => best'[b] = s
  BY DEF ListTypeOK, Best, Heard

(* What the types say of the listed entries.                               *)
LEMMA ListFacts ==
    ASSUME ListTypeOK
    PROVE  /\ scan_cnt \in 0 .. Max /\ Listed = 1 .. scan_cnt
           /\ pap_details \in [Slot -> Slot \cup {0}] /\ ap_details \in [Slot -> Entry]
           /\ \A k \in Listed : /\ pap_details[k] \in 1 .. scan_cnt /\ pap_details[k] \in Slot
                                /\ At(k).bssid \in Bssids /\ At(k).signal \in Signals
                                /\ At(k).signal \in Int
<1>1. /\ scan_cnt \in 0 .. Max /\ Listed = 1 .. scan_cnt
      /\ pap_details \in [Slot -> Slot \cup {0}] /\ ap_details \in [Slot -> Entry]
      /\ \A k \in Listed : /\ pap_details[k] \in 1 .. scan_cnt /\ pap_details[k] \in Slot
                           /\ At(k).bssid \in Bssids /\ At(k).signal \in Signals
  BY ScanListAssumption DEF ListTypeOK, Listed, Slot
<1> QED BY <1>1, ScanListAssumption

(* A report of a listed access point keeps the invariant.                  *)
LEMMA ReportKnownInv ==
    ASSUME ListInv, NEW b \in Bssids, NEW s \in Signals,
           best' = Best(b, s), ReportKnown(b, s)
    PROVE  ListInv'
<1> USE ScanListAssumption
<1>1. /\ scan_cnt \in 0 .. Max /\ Listed = 1 .. scan_cnt /\ s \in Int
      /\ pap_details \in [Slot -> Slot \cup {0}] /\ ap_details \in [Slot -> Entry]
      /\ \A k \in Listed : /\ pap_details[k] \in 1 .. scan_cnt /\ pap_details[k] \in Slot
                           /\ At(k).bssid \in Bssids /\ At(k).signal \in Signals
                           /\ At(k).signal \in Int
  BY ListFacts DEF ListInv
<1>2. PICK i \in Listed :
        /\ At(i).bssid = b
        /\ \/ /\ s > At(i).signal
              /\ \E to \in 1 .. i :
                    /\ UpdatePos(i, s, to)
                    /\ pap_details' = ShiftIn(pap_details, i, to, pap_details[i])
              /\ ap_details' = [ap_details EXCEPT
                                   ![pap_details[i]] = [bssid |-> b, signal |-> s]]
           \/ /\ s <= At(i).signal
              /\ UNCHANGED <<pap_details, ap_details>>
        /\ UNCHANGED scan_cnt
  BY DEF ReportKnown
<1>3. b \in Heard /\ best[b] = At(i).signal
  BY <1>2 DEF ListInv, Strongest
<1>4. /\ Heard' = Heard /\ Heard \subseteq Bssids /\ best' \in [Heard' -> Signals]
      /\ \A x \in Heard : x # b => best'[x] = best[x]
      /\ best'[b] = IF best[b] >= s THEN best[b] ELSE s
  BY <1>3, BestFacts DEF ListInv, ListTypeOK
<1>5. CASE s <= At(i).signal
  <2>1. /\ pap_details' = pap_details /\ ap_details' = ap_details /\ scan_cnt' = scan_cnt
    BY <1>1, <1>2, <1>5
  <2>2. \A x \in Heard : best'[x] = best[x]
    BY <1>1, <1>3, <1>4, <1>5
  <2>3. Listed' = Listed /\ \A k \in Listed : At(k)' = At(k)
    BY <2>1 DEF Listed, At
  <2>4. ListTypeOK' /\ Sorted' /\ NoAlias' /\ NoDuplicate'
    BY <1>4, <2>1, <2>3 DEF ListInv, ListTypeOK, Sorted, NoAlias, NoDuplicate
  <2>5. Strongest'
    BY <1>4, <2>1, <2>2, <2>3 DEF ListInv, Strongest
  <2> QED BY <2>4, <2>5 DEF ListInv
<1>6. CASE s > At(i).signal
  <2> DEFINE e == [bssid |-> b, signal |-> s]
  <2>1. PICK to \in 1 .. i :
            /\ UpdatePos(i, s, to)
            /\ pap_details' = ShiftIn(pap_details, i, to, pap_details[i])
            /\ ap_details' = [ap_details EXCEPT ![pap_details[i]] = e]
            /\ scan_cnt' = scan_cnt
    BY <1>1, <1>2, <1>6
  <2>3. /\ scan_cnt \in 1 .. Max /\ i \in 1 .. scan_cnt /\ to \in 1 .. i
        /\ pap_details[i] \in 1 .. scan_cnt /\ e \in [bssid : Bssids, signal : Signals]
        /\ e.signal = s /\ e.bssid = b
    BY <1>1, <1>2
  <2>4. \A k \in 1 .. scan_cnt : k # i => k \in Listed /\ pap_details[k] # pap_details[i]
    BY <1>1, <1>2 DEF ListInv, NoAlias
  <2>5. \A j, k \in 1 .. scan_cnt : (j # i /\ k # i /\ j < k) =>
            /\ At(j).signal >= At(k).signal
            /\ pap_details[j] # pap_details[k]
            /\ At(j).bssid # At(k).bssid
    BY <1>1 DEF ListInv, Sorted, NoAlias, NoDuplicate
  <2>6. \A k \in 1 .. scan_cnt : k # i =>
            /\ At(k).bssid # e.bssid
            /\ k < to => At(k).signal >= e.signal
            /\ k >= to => At(k).signal <= e.signal
    <3> SUFFICES ASSUME NEW k \in 1 .. scan_cnt, k # i
                 PROVE  /\ At(k).bssid # b
                        /\ k < to => At(k).signal >= s
                        /\ k >= to => At(k).signal <= s
      BY <2>3
    <3>1. At(k).bssid # b
      BY <1>1, <1>2 DEF ListInv, NoDuplicate
    <3>2. ASSUME k < to PROVE At(k).signal >= s
      <4>1. to - 1 \in Listed /\ At(to - 1).signal >= s
        BY <3>2, <1>1, <2>1, <2>3 DEF UpdatePos
      <4>2. At(k).signal >= At(to - 1).signal
        <5>1. k = to - 1 \/ k < to - 1
          BY <3>2, <2>3
        <5> QED BY <5>1, <4>1, <1>1 DEF ListInv, Sorted
      <4> QED BY <4>1, <4>2, <1>1
    <3>3. ASSUME k >= to PROVE At(k).signal <= s
      <4>1. CASE k < i
        BY <3>3, <4>1, <1>1, <2>1, <2>3 DEF UpdatePos
      <4>2. CASE k > i
        <5>1. At(i).signal >= At(k).signal
          BY <4>2, <1>1, <1>2 DEF ListInv, Sorted
        <5> QED BY <5>1, <1>1, <1>2, <1>6
      <4> QED BY <4>1, <4>2, <1>1, <1>2
    <3> QED BY <3>1, <3>2, <3>3
  <2> HIDE DEF e
  <2>7. ShiftPost(scan_cnt, i, to, e)
    <3>1. ShiftPre(scan_cnt, i, to, pap_details[i], e)
      BY <1>1, <2>1, <2>4, <2>5, <2>6 DEF ShiftPre
    <3> QED BY <2>3, <3>1, ShiftKeepsList DEF ListInv
  <2>8. ListTypeOK'
    BY <1>1, <1>4, <2>1, <2>7 DEF ListTypeOK, ShiftPost
  <2>9. best'[b] = s
    BY <1>1, <1>3, <1>4, <1>6
  <2>10. Strongest'
    <3>1. /\ Listed' = 1 .. scan_cnt /\ At(to)' = e
          /\ \A k \in 1 .. scan_cnt : k # to =>
                /\ Old(k, i, to) \in 1 .. scan_cnt /\ Old(k, i, to) # i
                /\ At(k)' = At(Old(k, i, to))
          /\ \A k \in 1 .. scan_cnt : k # i =>
                New(k, i, to) \in 1 .. scan_cnt /\ At(New(k, i, to))' = At(k)
      BY <2>7 DEF ShiftPost
    <3>2. ASSUME NEW k \in Listed'
          PROVE  At(k)'.bssid \in Heard' /\ At(k)'.signal = best'[At(k)'.bssid]
      <4>0. k \in 1 .. scan_cnt
        BY <3>1
      <4>1. CASE k = to
        BY <4>1, <1>3, <1>4, <2>3, <3>1, <2>9
      <4>2. CASE k # to
        <5>1. /\ Old(k, i, to) \in Listed /\ At(k)' = At(Old(k, i, to))
              /\ At(Old(k, i, to)).bssid # b
          BY <4>0, <4>2, <3>1, <2>3, <2>6, <1>1
        <5>2. /\ At(Old(k, i, to)).bssid \in Heard
              /\ At(Old(k, i, to)).signal = best[At(Old(k, i, to)).bssid]
          BY <5>1 DEF ListInv, Strongest
        <5> QED BY <5>1, <5>2, <1>4
      <4> QED BY <4>1, <4>2
    <3>3. ASSUME NEW x \in Heard', \A k \in Listed' : At(k)'.bssid # x
          PROVE  scan_cnt' = Max /\ \A k \in Listed' : best'[x] <= At(k)'.signal
      <4>1. Listed' = 1 .. scan_cnt
        BY <3>1
      <4>2. x # b
        BY <3>3, <4>1, <2>3, <3>1
      <4>3. \A k \in Listed : At(k).bssid # x
        <5> SUFFICES ASSUME NEW k \in Listed, At(k).bssid = x PROVE FALSE
          OBVIOUS
        <5>1. k # i
          BY <4>2, <1>2
        <5> QED BY <5>1, <3>3, <4>1, <3>1, <1>1
      <4>4. scan_cnt = Max /\ \A k \in Listed : best[x] <= At(k).signal
        BY <4>3, <1>4 DEF ListInv, Strongest
      <4>5. best'[x] = best[x] /\ best[x] \in Signals
        BY <4>2, <1>4 DEF ListInv, ListTypeOK
      <4>6. ASSUME NEW k \in 1 .. scan_cnt PROVE best'[x] <= At(k)'.signal
        <5>1. CASE k = to
          <6>1. best[x] <= At(i).signal
            BY <4>4, <1>2
          <6>2. best[x] \in Int /\ At(i).signal \in Int /\ s \in Int /\ At(i).signal < s
            BY <4>5, <1>1, <1>2, <1>6
          <6>3. best[x] <= s
            BY <6>1, <6>2
          <6> QED BY <5>1, <6>3, <4>5, <2>3, <3>1
        <5>2. CASE k # to
          BY <5>2, <3>1, <4>4, <4>5, <1>1
        <5> QED BY <5>1, <5>2
      <4> QED BY <4>1, <4>4, <4>6, <2>1
    <3> QED BY <3>2, <3>3 DEF Strongest
  <2> QED BY <2>7, <2>8, <2>10 DEF ListInv, ShiftPost
<1> QED BY <1>1, <1>2, <1>5, <1>6

(* A report of a new access point while there is room keeps the invariant. *)
LEMMA ReportNewInv ==
    ASSUME ListInv, NEW b \in Bssids, NEW s \in Signals,
           best' = Best(b, s), ReportNew(b, s)
    PROVE  ListInv'
<1> USE ScanListAssumption
<1> DEFINE e == [bssid |-> b, signal |-> s]
<1>0. PICK n : n = scan_cnt + 1
  OBVIOUS
<1>1. /\ scan_cnt \in 0 .. Max /\ Listed = 1 .. scan_cnt /\ s \in Int
      /\ pap_details \in [Slot -> Slot \cup {0}] /\ ap_details \in [Slot -> Entry]
      /\ \A k \in Listed : /\ pap_details[k] \in 1 .. scan_cnt /\ pap_details[k] \in Slot
                           /\ At(k).bssid \in Bssids /\ At(k).signal \in Signals
                           /\ At(k).signal \in Int
  BY ListFacts DEF ListInv
<1>2. PICK to \in 1 .. n :
        /\ \A k \in Listed : At(k).bssid # b
        /\ scan_cnt < Max
        /\ InsertPos(n, s, to)
        /\ scan_cnt' = n
        /\ pap_details' = ShiftIn(pap_details, n, to, n)
        /\ ap_details' = [ap_details EXCEPT ![n] = e]
  BY <1>0 DEF ReportNew
<1>3. /\ n \in 1 .. Max /\ n \in 1 .. n /\ to \in 1 .. n /\ scan_cnt < n
      /\ e \in [bssid : Bssids, signal : Signals] /\ e.signal = s /\ e.bssid = b
      /\ \A k \in 1 .. n : k # n => k \in 1 .. scan_cnt
      /\ \A k \in 1 .. scan_cnt : k \in 1 .. n /\ k # n
  BY <1>0, <1>1, <1>2
<1>4. \A k \in 1 .. n : k # n => k \in Listed /\ pap_details[k] # n
  BY <1>1, <1>3
<1>5. \A j, k \in 1 .. n : (j # n /\ k # n /\ j < k) =>
        /\ At(j).signal >= At(k).signal
        /\ pap_details[j] # pap_details[k]
        /\ At(j).bssid # At(k).bssid
  BY <1>4 DEF ListInv, Sorted, NoAlias, NoDuplicate
<1>6. \A k \in 1 .. n : k # n =>
        /\ At(k).bssid # e.bssid
        /\ k < to => At(k).signal >= e.signal
        /\ k >= to => At(k).signal <= e.signal
  <2> SUFFICES ASSUME NEW k \in 1 .. n, k # n
               PROVE  /\ At(k).bssid # b
                      /\ k < to => At(k).signal >= s
                      /\ k >= to => At(k).signal <= s
    BY <1>3
  <2>1. At(k).bssid # b /\ k \in Listed
    BY <1>2, <1>4
  <2>2. ASSUME k < to PROVE At(k).signal >= s
    BY <2>2, <1>2, <1>3 DEF InsertPos
  <2>3. ASSUME k >= to PROVE At(k).signal <= s
    <3>1. to \in Listed /\ At(to).signal < s
      BY <2>3, <1>1, <1>2, <1>3 DEF InsertPos
    <3>2. At(to).signal >= At(k).signal
      <4>1. k = to \/ to < k
        BY <2>3, <1>3
      <4> QED BY <4>1, <3>1, <2>1, <1>1 DEF ListInv, Sorted
    <3> QED BY <3>1, <3>2, <2>1, <1>1
  <2> QED BY <2>1, <2>2, <2>3
<1>7. ShiftPost(n, n, to, e)
  <2> HIDE DEF e
  <2>1. scan_cnt <= n
    BY <1>1, <1>3
  <2>2. ShiftPre(n, n, to, n, e)
    BY <2>1, <1>2, <1>4, <1>5, <1>6 DEF ShiftPre
  <2> QED BY <1>3, <2>2, ShiftKeepsList DEF ListInv
<1>8. /\ Listed' = 1 .. n /\ At(to)' = e
      /\ \A k \in 1 .. n : k # to =>
            /\ Old(k, n, to) \in 1 .. n /\ Old(k, n, to) # n
            /\ At(k)' = At(Old(k, n, to))
      /\ \A k \in 1 .. n : k # n =>
            New(k, n, to) \in 1 .. n /\ At(New(k, n, to))' = At(k)
  <2> HIDE DEF e
  <2> QED BY <1>7 DEF ShiftPost
<1> HIDE DEF e
(* Whatever was heard is listed while there is room, so b is new.          *)
<1>9. b \notin Heard
  <2>1. (\A k \in Listed : At(k).bssid # b) /\ scan_cnt # Max
    BY <1>1, <1>2
  <2>2. \A x \in Heard : (\A k \in Listed : At(k).bssid # x) => scan_cnt = Max
    BY DEF ListInv, Strongest
  <2> QED BY <2>1, <2>2, Zenon
<1>10. /\ Heard' = Heard \cup {b} /\ Heard' \subseteq Bssids
       /\ best' \in [Heard' -> Signals]
       /\ \A x \in Heard : x # b => best'[x] = best[x]
       /\ best'[b] = s
  BY <1>9, BestFacts DEF ListInv
<1>11. ListTypeOK'
  BY <1>2, <1>3, <1>7, <1>10 DEF ListTypeOK, ShiftPost
<1>12. Strongest'
  <2>1. ASSUME NEW k \in Listed'
        PROVE  At(k)'.bssid \in Heard' /\ At(k)'.signal = best'[At(k)'.bssid]
    <3>1. CASE k = to
      BY <3>1, <1>3, <1>8, <1>10
    <3>2. CASE k # to
      <4>1. /\ Old(k, n, to) \in Listed /\ At(k)' = At(Old(k, n, to))
            /\ At(Old(k, n, to)).bssid # b
        BY <3>2, <1>2, <1>4, <1>8
      <4>2. /\ At(Old(k, n, to)).bssid \in Heard
            /\ At(Old(k, n, to)).signal = best[At(Old(k, n, to)).bssid]
        BY <4>1 DEF ListInv, Strongest
      <4> QED BY <4>1, <4>2, <1>10
    <3> QED BY <3>1, <3>2
  <2>2. ASSUME NEW x \in Heard', \A k \in Listed' : At(k)'.bssid # x
        PROVE  FALSE
    <3>1. x # b
      BY <2>2, <1>3, <1>8
    <3>2. PICK k \in Listed : At(k).bssid = x
      BY <3>1, <1>1, <1>2, <1>10 DEF ListInv, Strongest
    <3>3. k \in 1 .. n /\ k # n
      BY <1>1, <1>3
    <3>4. New(k, n, to) \in Listed' /\ At(New(k, n, to))' = At(k)
      BY <3>3, <1>8
    <3> QED BY <2>2, <3>2, <3>4
  <2> QED BY <2>1, <2>2 DEF Strongest
<1> QED BY <1>7, <1>11, <1>12 DEF ListInv, ShiftPost

(* A report of a new access point to a full table keeps the invariant.     *)
LEMMA ReportFullInv ==
    ASSUME ListInv, NEW b \in Bssids, NEW s \in Signals,
           best' = Best(b, s), ReportFull(b, s)
    PROVE  ListInv'
<1> USE ScanListAssumption
<1>1. /\ Listed = 1 .. Max /\ s \in Int /\ Max \in 1 .. Max
      /\ pap_details \in [Slot -> Slot \cup {0}] /\ ap_details \in [Slot -> Entry]
      /\ \A k \in Listed : /\ pap_details[k] \in 1 .. Max /\ pap_details[k] \in Slot
                           /\ At(k).bssid \in Bssids /\ At(k).signal \in Signals
                           /\ At(k).signal \in Int
      /\ scan_cnt = Max /\ scan_cnt' = Max
      /\ \A k \in Listed : At(k).bssid # b
  <2>1. scan_cnt = Max /\ scan_cnt' = Max /\ \A k \in Listed : At(k).bssid # b
    BY DEF ReportFull
  <2> QED BY <2>1, ListFacts DEF ListInv
<1>2. /\ Heard' = Heard \cup {b} /\ Heard' \subseteq Bssids
      /\ best' \in [Heard' -> Signals] /\ best \in [Heard -> Signals]
      /\ \A x \in Heard : x # b => best'[x] = best[x]
      /\ b \in Heard => best'[b] = IF best[b] >= s THEN best[b] ELSE s
      /\ b \notin Heard => best'[b] = s
  BY BestFacts DEF ListInv, ListTypeOK
(* The last entry is the weakest, and nothing that was left out is         *)
(* stronger.                                                               *)
<1>3. \A k \in Listed : At(k).signal >= At(Max).signal
  <2> SUFFICES ASSUME NEW k \in 1 .. Max PROVE At(k).signal >= At(Max).signal
    BY <1>1
  <2>1. k = Max \/ k < Max
    OBVIOUS
  <2> QED BY <2>1, <1>1 DEF ListInv, Sorted
<1>4. \A x \in Heard : (\A k \in Listed : At(k).bssid # x)
            => best[x] \in Int /\ \A k \in Listed : best[x] <= At(k).signal
  BY <1>2 DEF ListInv, Strongest
<1>5. CASE s <= At(Max).signal
  <2>1. pap_details' = pap_details /\ ap_details' = ap_details /\ scan_cnt' = scan_cnt
    BY <1>1, <1>5 DEF ReportFull
  <2>2. Listed' = Listed /\ \A k \in Listed : At(k)' = At(k)
    BY <2>1 DEF Listed, At
  <2>3. ListTypeOK' /\ Sorted' /\ NoAlias' /\ NoDuplicate'
    BY <1>2, <2>1, <2>2 DEF ListInv, ListTypeOK, Sorted, NoAlias, NoDuplicate
  <2>4. \A k \in Listed : best'[b] <= At(k).signal
    <3> SUFFICES ASSUME NEW k \in Listed PROVE best'[b] <= At(k).signal
      OBVIOUS
    <3>1. s <= At(k).signal
      BY <1>1, <1>3, <1>5
    <3>2. b \in Heard => best[b] <= At(k).signal
      BY <1>1, <1>4
    <3> QED BY <3>1, <3>2, <1>2
  <2>5. ASSUME NEW k \in Listed
        PROVE  At(k).bssid \in Heard' /\ At(k).signal = best'[At(k).bssid]
    <3>1. At(k).bssid \in Heard /\ At(k).signal = best[At(k).bssid]
      BY DEF ListInv, Strongest
    <3> QED BY <3>1, <1>1, <1>2
  <2>6. ASSUME NEW x \in Heard', \A k \in Listed : At(k).bssid # x
        PROVE  \A k \in Listed : best'[x] <= At(k).signal
    <3>1. CASE x = b
      BY <3>1, <2>4
    <3>2. CASE x # b
      BY <3>2, <2>6, <1>2, <1>4
    <3> QED BY <3>1, <3>2
  <2>7. Strongest'
    BY <1>1, <2>2, <2>5, <2>6 DEF Strongest
  <2> QED BY <2>3, <2>7 DEF ListInv
<1>6. CASE s > At(Max).signal
  <2> DEFINE e == [bssid |-> b, signal |-> s]
  <2>1. PICK to \in 1 .. Max :
            /\ InsertPos(Max, s, to)
            /\ pap_details' = ShiftIn(pap_details, Max, to, pap_details[Max])
            /\ ap_details' = [ap_details EXCEPT ![pap_details[Max]] = e]
    BY <1>1, <1>6 DEF ReportFull
  <2>2. /\ pap_details[Max] \in 1 .. Max /\ e \in [bssid : Bssids, signal : Signals]
        /\ e.signal = s /\ e.bssid = b
    BY <1>1
  <2>3. \A k \in 1 .. Max : k # Max => k \in Listed /\ pap_details[k] # pap_details[Max]
    BY <1>1 DEF ListInv, NoAlias
  <2>4. \A j, k \in 1 .. Max : (j # Max /\ k # Max /\ j < k) =>
            /\ At(j).signal >= At(k).signal
            /\ pap_details[j] # pap_details[k]
            /\ At(j).bssid # At(k).bssid
    BY <1>1 DEF ListInv, Sorted, NoAlias, NoDuplicate
  <2>5. \A k \in 1 .. Max : k # Max =>
            /\ At(k).bssid # e.bssid
            /\ k < to => At(k).signal >= e.signal
            /\ k >= to => At(k).signal <= e.signal
    <3> SUFFICES ASSUME NEW k \in 1 .. Max, k # Max
                 PROVE  /\ At(k).bssid # b
                        /\ k < to => At(k).signal >= s
                        /\ k >= to => At(k).signal <= s
      BY <2>2
    <3>1. At(k).bssid # b /\ k \in Listed
      BY <1>1
    <3>2. ASSUME k < to PROVE At(k).signal >= s
      BY <3>2, <2>1 DEF InsertPos
    <3>3. ASSUME k >= to PROVE At(k).signal <= s
      <4>1. to \in Listed /\ At(to).signal < s
        BY <3>3, <1>1, <2>1 DEF InsertPos
      <4>2. At(to).signal >= At(k).signal
        <5>1. k = to \/ to < k
          BY <3>3
        <5> QED BY <5>1, <4>1, <3>1, <1>1 DEF ListInv, Sorted
      <4> QED BY <4>1, <4>2, <3>1, <1>1
    <3> QED BY <3>1, <3>2, <3>3
  <2> HIDE DEF e
  <2>6. ShiftPost(Max, Max, to, e)
    <3>0. scan_cnt <= Max /\ scan_cnt' = Max
      BY <1>1
    <3>1. ShiftPre(Max, Max, to, pap_details[Max], e)
      BY <3>0, <2>1, <2>3, <2>4, <2>5 DEF ShiftPre
    <3> QED BY <1>1, <2>2, <3>1, ShiftKeepsList DEF ListInv
  <2>7. /\ Listed' = 1 .. Max /\ At(to)' = e
        /\ \A k \in 1 .. Max : k # to =>
              /\ Old(k, Max, to) \in 1 .. Max /\ Old(k, Max, to) # Max
              /\ At(k)' = At(Old(k, Max, to))
        /\ \A k \in 1 .. Max : k # Max =>
              New(k, Max, to) \in 1 .. Max /\ At(New(k, Max, to))' = At(k)
    BY <2>6 DEF ShiftPost
  <2>8. ListTypeOK'
    BY <1>1, <1>2, <2>6 DEF ListTypeOK, ShiftPost
  (* b may have been heard and left out before, but never as strong as s.  *)
  <2>9. best'[b] = s
    <3>1. b \in Heard => best[b] \in Int /\ best[b] <= At(Max).signal
      BY <1>1, <1>4
    <3>2. At(Max).signal \in Int
      BY <1>1
    <3> QED BY <3>1, <3>2, <1>1, <1>2, <1>6
  <2>10. ASSUME NEW k \in Listed'
         PROVE  At(k)'.bssid \in Heard' /\ At(k)'.signal = best'[At(k)'.bssid]
    <3>1. CASE k = to
      BY <3>1, <1>2, <2>2, <2>7, <2>9
    <3>2. CASE k # to
      <4>1. /\ Old(k, Max, to) \in Listed /\ At(k)' = At(Old(k, Max, to))
            /\ At(Old(k, Max, to)).bssid # b
        BY <3>2, <1>1, <2>7
      <4>2. /\ At(Old(k, Max, to)).bssid \in Heard
            /\ At(Old(k, Max, to)).signal = best[At(Old(k, Max, to)).bssid]
        BY <4>1 DEF ListInv, Strongest
      <4> QED BY <4>1, <4>2, <1>2
    <3> QED BY <3>1, <3>2
  <2>11. ASSUME NEW x \in Heard', \A k \in Listed' : At(k)'.bssid # x
         PROVE  \A k \in Listed' : best'[x] <= At(k)'.signal
    <3>1. x # b /\ x \in Heard /\ best'[x] = best[x]
      <4>1. x # b
        BY <2>11, <2>2, <2>7
      <4> QED BY <4>1, <1>2
    (* x was left out before, or it is the entry that is evicted now.      *)
    <3>2. \A k \in Listed : k # Max => At(k).bssid # x
      BY <2>11, <2>7, <1>1
    <3>3. best[x] \in Int /\ best[x] <= At(Max).signal
      <4>1. CASE At(Max).bssid = x
        <5>1. best[x] = At(Max).signal
          BY <4>1, <1>1 DEF ListInv, Strongest
        <5> QED BY <5>1, <1>1
      <4>2. CASE At(Max).bssid # x
        BY <4>2, <3>1, <3>2, <1>1, <1>4
      <4> QED BY <4>1, <4>2
    <3>4. ASSUME NEW k \in 1 .. Max PROVE best[x] <= At(k)'.signal
      <4>0. At(Max).signal \in Int
        BY <1>1
      <4>1. CASE k = to
        <5>1. best[x] <= s
          BY <3>3, <4>0, <1>1, <1>6
        <5> QED BY <4>1, <5>1, <2>2, <2>7
      <4>2. CASE k # to
        <5>1. /\ At(k)' = At(Old(k, Max, to)) /\ At(Old(k, Max, to)).signal \in Int
              /\ At(Old(k, Max, to)).signal >= At(Max).signal
          BY <4>2, <1>1, <1>3, <2>7
        <5> QED BY <5>1, <3>3, <4>0
      <4> QED BY <4>1, <4>2
    <3> QED BY <3>1, <3>4, <2>7
  <2>12. Strongest'
    BY <1>1, <2>10, <2>11 DEF Strongest
  <2> QED BY <2>6, <2>8, <2>12 DEF ListInv, ShiftPost
<1> QED BY <1>1, <1>5, <1>6

(* Every report keeps the invariant.                                       *)
LEMMA ReportInv ==
    ASSUME ListInv, NEW b \in Bssids, NEW s \in Signals, wifi_scan_each_report_hdl(b, s)
    PROVE  ListInv'
  BY ReportKnownInv, ReportNewInv, ReportFullInv DEF wifi_scan_each_report_hdl

(* The empty list satisfies it.                                            *)
LEMMA EmptyListInv == EmptyList => ListInv
<1> SUFFICES ASSUME EmptyList PROVE ListInv
  OBVIOUS
<1>1. Listed = {} /\ Heard = {}
  BY DEF EmptyList, Listed, Heard
<1>2. ListTypeOK
  BY <1>1, ScanListAssumption DEF EmptyList, ListTypeOK, Slot, Entry, NoEntry, Heard
<1> QED BY <1>1, <1>2 DEF ListInv, Sorted, NoAlias, NoDuplicate, Strongest

(* A step that leaves the list alone keeps the invariant.                  *)
LEMMA ListStutterInv == ListInv /\ UNCHANGED listVars => ListInv'
  BY DEF ListInv, ListTypeOK, Sorted, NoAlias, NoDuplicate, Strongest, listVars,
         Listed, At, Heard

(* After any sequence of reports the list of wifi_scan_each_report_hdl is  *)
(* typed, sorted, free of aliases and duplicates, and the strongest.       *)
THEOREM ListCorrect == ListSpec => []ListInv
<1>1. EmptyList => ListInv
  BY EmptyListInv
<1>2. ListInv /\ [ListNext]_listVars => ListInv'
  BY ReportInv, ListStutterInv DEF ListNext
<1> QED BY <1>1, <1>2, PTL DEF ListSpec
=============================================================================
