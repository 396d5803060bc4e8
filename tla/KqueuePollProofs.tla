--------------------------- MODULE KqueuePollProofs ---------------------------
(***************************************************************************)
(* What is true of a poller over kqueue for every limit, capacity and set  *)
(* of descriptors: the commit statuses its backend reports, the room in    *)
(* its native batch, its wakes and its one-shot registrations.             *)
(***************************************************************************)
EXTENDS KqueuePoll, TableProofs

------------------------------------------------------------------------------
(* Submissions.                                                            *)

\* The filters of an interest: both at most, each once, none left out.
LEMMA FilterLists ==
    ASSUME NEW interest \in Interests
    PROVE  LET fs == FiltersOf(interest)
           IN  /\ fs \in Seq(Filters) /\ OnceEach(fs)
               /\ \A n \in 1..Len(fs) : fs[n] \in Filters /\ Wanted(interest, fs[n])
               /\ \A f \in Filters :
                     Wanted(interest, f) => \E n \in 1..Len(fs) : fs[n] = f
               /\ Len(fs) \in 0..2
               /\ interest # {} => Len(fs) \in 1..2
  <1> DEFINE fs == FiltersOf(interest)
             keep == {f \in Filters : Wanted(interest, f)}
  <1>1. /\ FilterOrder \in Seq(Filters) /\ OnceEach(FilterOrder)
        /\ Len(FilterOrder) = 2
        /\ FilterOrder[1] = "Read" /\ FilterOrder[2] = "Write"
    BY DEF FilterOrder, Filters, OnceEach
  <1>2. /\ fs \in Seq(Filters)
        /\ Len(fs) <= 2
        /\ \A x : Listed(fs, x) <=> Listed(FilterOrder, x) /\ x \in keep
        /\ OnceEach(fs)
    <2>1. fs = Only(FilterOrder, keep)
      BY DEF FiltersOf
    <2>2. /\ Only(FilterOrder, keep) \in Seq(Filters)
          /\ Len(Only(FilterOrder, keep)) <= Len(FilterOrder)
          /\ \A x : Listed(Only(FilterOrder, keep), x) <=>
                       Listed(FilterOrder, x) /\ x \in keep
          /\ OnceEach(Only(FilterOrder, keep))
      <3> HIDE DEF keep
      <3> QED
        BY <1>1, OnlyKept
    <2> HIDE DEF fs, keep
    <2> QED
      BY <1>1, <2>1, <2>2
  <1> HIDE DEF fs
  <1>3. Len(fs) \in Nat /\ \A n \in 1..Len(fs) : fs[n] \in Filters
    BY <1>2
  <1>4. \A n \in 1..Len(fs) : Wanted(interest, fs[n])
    BY <1>2 DEF Listed
  <1>5. \A f \in Filters : Listed(FilterOrder, f)
    BY <1>1 DEF Listed, Filters
  <1>6. \A f \in Filters : Wanted(interest, f) => \E n \in 1..Len(fs) : fs[n] = f
    BY <1>2, <1>5 DEF Listed
  <1>7. interest # {} => Len(fs) # 0
    <2>1. interest # {} => \E f \in Filters : Wanted(interest, f)
      BY DEF Interests, Filters, Wanted
    <2> QED
      BY <1>3, <1>6, <2>1
  <1>8. Len(fs) \in 0..2 /\ (interest # {} => Len(fs) \in 1..2)
    <2>1. Len(fs) \in Nat /\ Len(fs) <= 2 /\ (interest # {} => Len(fs) # 0)
      BY <1>2, <1>3, <1>7
    <2>2. \A n \in Nat : n <= 2 => n \in 0..2 /\ (n # 0 => n \in 1..2)
      OBVIOUS
    <2> QED
      BY <2>1, <2>2, Zenon
  <1> QED
    BY <1>2, <1>3, <1>4, <1>6, <1>8, Zenon DEF fs

\* The answers submit_native can make of what the kernel did.
LEMMA Answers ==
    ASSUME NEW ks, NEW cs, Len(cs) \in Nat, NEW s \in Submissions(ks, cs)
    PROVE  /\ s.took \subseteq CanTake(ks, cs)
           /\ s.took \subseteq 1..Len(cs)
           /\ \/ s.native.kind = "Unknown"
              \/ /\ s.native.kind = "AppliedWithoutReceipts"
                 /\ s.took = CanTake(ks, cs)
              \/ /\ s.native.kind = "Receipts"
                 /\ \E n \in 0..(Len(cs) + 1) : \E g \in SUBSET (1..n) :
                       s.native.results = Returned(ks, cs, s.took, n, g)
  <1> DEFINE can == CanTake(ks, cs)
  <1>1. can \subseteq 1..Len(cs)
    BY DEF CanTake
  <1> HIDE DEF can
  <1>2. \/ \E n \in 0..(Len(cs) + 1) : \E took \in SUBSET can, g \in SUBSET (1..n) :
              s = [took |-> took,
                   native |-> Receipts(Returned(ks, cs, took, n, g))]
        \/ \E took \in SUBSET can : s = [took |-> took, native |-> Unknown]
        \/ \E took \in IF InterruptedApplies THEN {can} ELSE SUBSET can :
              s = [took |-> took, native |-> classify_apply_error(TRUE)]
    <2> DEFINE A(took, n, g) ==
                  [took |-> took, native |-> Receipts(Returned(ks, cs, took, n, g))]
               B(took) == [took |-> took, native |-> Unknown]
               C(took) == [took |-> took, native |-> classify_apply_error(TRUE)]
               All == IF InterruptedApplies THEN {can} ELSE SUBSET can
    <2>1. Submissions(ks, cs) = (UNION {{A(took, n, g) : took \in SUBSET can, g \in SUBSET (1..n)} :
                           n \in 0..Len(cs)})
                \cup {A(took, Len(cs) + 1, {}) : took \in SUBSET can}
                \cup {B(took) : took \in SUBSET can}
                \cup {C(took) : took \in All}
      BY DEF Submissions, can
    <2> HIDE DEF A, B, C, All
    <2>2. \/ \E n \in 0..Len(cs) : \E took \in SUBSET can, g \in SUBSET (1..n) :
                s = A(took, n, g)
          \/ \E took \in SUBSET can : s = A(took, Len(cs) + 1, {})
          \/ \E took \in SUBSET can : s = B(took)
          \/ \E took \in All : s = C(took)
      BY <2>1
    <2>3. /\ 0..Len(cs) \subseteq 0..(Len(cs) + 1)
          /\ Len(cs) + 1 \in 0..(Len(cs) + 1)
          /\ {} \in SUBSET (1..(Len(cs) + 1))
      OBVIOUS
    <2>4. \/ \E n \in 0..(Len(cs) + 1) : \E took \in SUBSET can, g \in SUBSET (1..n) :
                s = A(took, n, g)
          \/ \E took \in SUBSET can : s = B(took)
          \/ \E took \in All : s = C(took)
      BY <2>2, <2>3, Zenon
    <2> QED
      BY <2>4 DEF A, B, C, All
  <1>3. CASE \E n \in 0..(Len(cs) + 1) : \E took \in SUBSET can, g \in SUBSET (1..n) :
                s = [took |-> took,
                     native |-> Receipts(Returned(ks, cs, took, n, g))]
    <2>0. PICK n \in 0..(Len(cs) + 1) : \E took \in SUBSET can, g \in SUBSET (1..n) :
                s = [took |-> took,
                     native |-> Receipts(Returned(ks, cs, took, n, g))]
      BY <1>3
    <2>1. PICK took \in SUBSET can, g \in SUBSET (1..n) :
                s = [took |-> took,
                     native |-> Receipts(Returned(ks, cs, took, n, g))]
      BY <2>0
    <2>2. /\ s.took = took /\ s.native.kind = "Receipts"
          /\ s.native.results = Returned(ks, cs, took, n, g)
      BY <2>1 DEF Receipts
    <2> QED
      BY <1>1, <2>2 DEF can
  <1>4. CASE \E took \in SUBSET can : s = [took |-> took, native |-> Unknown]
    <2>1. s.took \subseteq can /\ s.native.kind = "Unknown"
      BY <1>4 DEF Unknown
    <2> QED
      BY <1>1, <2>1 DEF can
  <1>5. CASE \E took \in IF InterruptedApplies THEN {can} ELSE SUBSET can :
                s = [took |-> took, native |-> classify_apply_error(TRUE)]
    <2>1. CASE InterruptedApplies
      <3>1. s.took = can /\ s.native.kind = "AppliedWithoutReceipts"
        BY <1>5, <2>1 DEF classify_apply_error, AppliedWithoutReceipts
      <3> QED
        BY <1>1, <3>1 DEF can
    <2>2. CASE ~InterruptedApplies
      <3>1. s.took \subseteq can /\ s.native.kind = "Unknown"
        BY <1>5, <2>2 DEF classify_apply_error, Unknown
      <3> QED
        BY <1>1, <3>1 DEF can
    <2> QED
      BY <2>1, <2>2
  <1> QED
    BY <1>2, <1>3, <1>4, <1>5

\* A receipt is true of its change.
LEMMA ReturnedTrue ==
    ASSUME NEW ks, NEW cs, NEW took, NEW n \in Nat, NEW g
    PROVE  LET results == Returned(ks, cs, took, n, g)
           IN  /\ Len(results) = n /\ DOMAIN results = 1..n
               /\ \A k \in 1..n :
                     results[k] = IF k \in g THEN "Unknown"
                                  ELSE IF k \in took THEN "Applied"
                                  ELSE IF k \in CanTake(ks, cs) THEN "errno"
                                  ELSE "ENOENT"
  BY DEF Returned

\* A submission takes only what can take; an exact one has taken everything
\* but the deletions of filters that are absent (kqueue_policy.rs exact,
\* kqueue.rs apply).
LEMMA Submitted ==
    ASSUME NEW ks, NEW cs, Len(cs) \in Nat, NEW s \in Submissions(ks, cs),
           NEW ignore \in BOOLEAN
    PROVE  /\ s.took \subseteq CanTake(ks, cs)
           /\ s.took \subseteq 1..Len(cs)
           /\ exact(s.native, cs, ignore) =>
                 \A n \in 1..Len(cs) :
                    \/ n \in s.took
                    \/ /\ Absent(ks[cs[n].place])
                       /\ cs[n].action \in {"Delete", "Disable"}
                       /\ s.native.kind = "Receipts" =>
                             ignore /\ cs[n].action = "Delete"
  <1> DEFINE can == CanTake(ks, cs)
  <1>1. \A n \in 1..Len(cs) : n \notin can =>
            Absent(ks[cs[n].place]) /\ cs[n].action \in {"Delete", "Disable"}
    BY DEF CanTake
  <1> HIDE DEF can
  <1>2. /\ s.took \subseteq can /\ s.took \subseteq 1..Len(cs)
        /\ \/ s.native.kind = "Unknown"
           \/ s.native.kind = "AppliedWithoutReceipts" /\ s.took = can
           \/ /\ s.native.kind = "Receipts"
              /\ \E n \in 0..(Len(cs) + 1) : \E g \in SUBSET (1..n) :
                    s.native.results = Returned(ks, cs, s.took, n, g)
    BY Answers DEF can
  <1>3. CASE s.native.kind = "Receipts"
    <2>0. PICK n \in 0..(Len(cs) + 1) : \E g \in SUBSET (1..n) :
                s.native.results = Returned(ks, cs, s.took, n, g)
      BY <1>2, <1>3
    <2>1. PICK g \in SUBSET (1..n) :
                s.native.results = Returned(ks, cs, s.took, n, g)
      BY <2>0
    <2> DEFINE results == s.native.results
    <2>2. /\ Len(results) = n
          /\ \A k \in 1..n : results[k] = IF k \in g THEN "Unknown"
                                         ELSE IF k \in s.took THEN "Applied"
                                         ELSE IF k \in can THEN "errno" ELSE "ENOENT"
      BY <2>1, ReturnedTrue DEF can
    <2> HIDE DEF results
    <2>3. ASSUME exact(s.native, cs, ignore), NEW k \in 1..Len(cs), k \notin s.took
          PROVE  /\ Absent(ks[cs[k].place]) /\ ignore /\ cs[k].action = "Delete"
      <3>1. n = Len(cs) /\ ~Failure(cs[k], results[k], ignore)
        BY <1>3, <2>2, <2>3 DEF exact, results
      <3>2. results[k] = "ENOENT" /\ ignore /\ cs[k].action = "Delete"
        BY <2>2, <2>3, <3>1 DEF Failure
      <3>3. k \notin can
        BY <2>2, <3>1, <3>2
      <3> QED
        BY <1>1, <3>2, <3>3
    <2> QED
      BY <1>2, <2>3 DEF can
  <1>4. CASE s.native.kind = "Unknown"
    <2>1. ~exact(s.native, cs, ignore)
      BY <1>4 DEF exact
    <2> QED
      BY <1>2, <2>1 DEF can
  <1>5. CASE s.native.kind = "AppliedWithoutReceipts" /\ s.took = can
    BY <1>1, <1>2, <1>5 DEF can
  <1> QED
    BY <1>2, <1>3, <1>4, <1>5

\* Lists of changes about descriptors, each place at most once.
ChangeList(cs) ==
    /\ Len(cs) \in Nat
    /\ \A n \in 1..Len(cs) :
          /\ cs[n].place \in Descriptors \X Filters
          /\ cs[n].action \in {"AddEnabled", "AddDisabled", "Delete", "Disable"}
          /\ cs[n].token \in Nat
    /\ \A m, n \in 1..Len(cs) : cs[m].place = cs[n].place => m = n

\* What the changes that took effect leave.
LEMMA Effect ==
    ASSUME NEW ks, KnotesTyped(ks), NEW cs, ChangeList(cs),
           NEW took \in SUBSET (1..Len(cs))
    PROVE  LET now == Applied(ks, cs, took)
           IN  /\ KnotesTyped(now)
               /\ \A n \in took : now[cs[n].place] = After(ks[cs[n].place], cs[n])
               /\ \A n \in 1..Len(cs) :
                     n \notin took => now[cs[n].place] = ks[cs[n].place]
               /\ \A p \in Places :
                     (\A n \in 1..Len(cs) : cs[n].place # p) => now[p] = ks[p]
  <1> DEFINE now == Applied(ks, cs, took)
  <1>1. DOMAIN ks = Places /\ \A p \in Places : ks[p] \in Knote \cup {None, Lost}
    BY DEF KnotesTyped
  <1>2. now = [p \in Places |->
                  IF \E n \in took : cs[n].place = p
                  THEN After(ks[p], cs[CHOOSE n \in took : cs[n].place = p])
                  ELSE ks[p]]
    BY <1>1 DEF Applied
  <1>3. \A n \in 1..Len(cs) : cs[n].place \in Places /\ cs[n].place # UserPlace
    BY DEF ChangeList, Places, UserPlace, Filters
  <1> HIDE DEF now
  <1>4. ASSUME NEW n \in took
        PROVE  now[cs[n].place] = After(ks[cs[n].place], cs[n])
    <2> DEFINE p == cs[n].place
               c == CHOOSE m \in took : cs[m].place = p
    <2>1. c \in took /\ cs[c].place = p
      OBVIOUS
    <2>2. c = n
      BY <2>1 DEF ChangeList
    <2> QED
      BY <1>2, <1>3, <2>2
  <1>5. ASSUME NEW n \in 1..Len(cs), n \notin took
        PROVE  now[cs[n].place] = ks[cs[n].place]
    <2>1. \A m \in took : cs[m].place # cs[n].place
      BY <1>5 DEF ChangeList
    <2> QED
      BY <1>2, <1>3, <2>1
  <1>6. ASSUME NEW p \in Places, \A n \in 1..Len(cs) : cs[n].place # p
        PROVE  now[p] = ks[p]
    BY <1>2, <1>6
  <1>7. ASSUME NEW n \in took PROVE After(ks[cs[n].place], cs[n]) \in Knote \cup {None}
    BY DEF After, ChangeList, Knote
  <1>8. ASSUME NEW p \in Places PROVE now[p] \in Knote \cup {None, Lost}
    <2>1. CASE \E n \in took : cs[n].place = p
      BY <1>4, <1>7, <2>1
    <2>2. CASE ~ \E n \in took : cs[n].place = p
      BY <1>1, <1>2, <2>2
    <2> QED
      BY <2>1, <2>2
  <1>9. now \in [Places -> Knote \cup {None, Lost}]
    BY <1>2, <1>8
  <1>10. now[UserPlace] = ks[UserPlace]
    BY <1>3, <1>6 DEF Places
  <1> QED
    BY <1>4, <1>5, <1>6, <1>9, <1>10 DEF KnotesTyped, now

\* Every place but those of descriptor d is as it was.
OnlyAbout(ks, now, d) ==
    \A p \in Places : (\A f \in Filters : p # <<d, f>>) => now[p] = ks[p]

AllAbout(cs, d) == \A n \in 1..Len(cs) : cs[n].place \in {d} \X Filters

\* What a submission about one descriptor leaves, and what it leaves when it is
\* exact: the knotes the changes ask for.
LEMMA ExactEffect ==
    ASSUME NEW ks, KnotesTyped(ks), NEW d \in Descriptors,
           NEW cs, ChangeList(cs), AllAbout(cs, d), NEW s \in Submissions(ks, cs)
    PROVE  LET now == Applied(ks, cs, s.took)
           IN  /\ KnotesTyped(now)
               /\ OnlyAbout(ks, now, d)
               /\ exact(s.native, cs, TRUE) =>
                     \A n \in 1..Len(cs) :
                        LET k == now[cs[n].place]
                        IN  /\ cs[n].action = "AddEnabled" =>
                                  k = [token |-> cs[n].token, enabled |-> TRUE]
                            /\ cs[n].action = "AddDisabled" =>
                                  k = [token |-> cs[n].token, enabled |-> FALSE]
                            /\ cs[n].action = "Delete" => Absent(k)
  <1> DEFINE now == Applied(ks, cs, s.took)
  <1>1. Len(cs) \in Nat
    BY DEF ChangeList
  <1>2. /\ s.took \in SUBSET (1..Len(cs))
        /\ exact(s.native, cs, TRUE) =>
              \A n \in 1..Len(cs) :
                 \/ n \in s.took
                 \/ /\ Absent(ks[cs[n].place])
                    /\ cs[n].action \in {"Delete", "Disable"}
    BY <1>1, Submitted
  <1>3. /\ KnotesTyped(now)
        /\ \A n \in s.took : now[cs[n].place] = After(ks[cs[n].place], cs[n])
        /\ \A n \in 1..Len(cs) :
              n \notin s.took => now[cs[n].place] = ks[cs[n].place]
        /\ \A p \in Places :
              (\A n \in 1..Len(cs) : cs[n].place # p) => now[p] = ks[p]
    BY <1>2, Effect
  <1> HIDE DEF now
  <1>4. OnlyAbout(ks, now, d)
    <2>1. ASSUME NEW p \in Places, \A f \in Filters : p # <<d, f>>
          PROVE  \A n \in 1..Len(cs) : cs[n].place # p
      BY <2>1 DEF AllAbout
    <2> QED
      BY <1>3, <2>1 DEF OnlyAbout
  <1>5. ASSUME exact(s.native, cs, TRUE), NEW n \in 1..Len(cs)
        PROVE  LET k == now[cs[n].place]
               IN  /\ cs[n].action = "AddEnabled" =>
                         k = [token |-> cs[n].token, enabled |-> TRUE]
                   /\ cs[n].action = "AddDisabled" =>
                         k = [token |-> cs[n].token, enabled |-> FALSE]
                   /\ cs[n].action = "Delete" => Absent(k)
    <2>1. CASE n \in s.took
      <3>1. now[cs[n].place] = After(ks[cs[n].place], cs[n])
        BY <1>3, <2>1
      <3> QED
        BY <3>1 DEF After, Absent
    <2>2. CASE n \notin s.took
      <3>1. /\ now[cs[n].place] = ks[cs[n].place]
            /\ Absent(ks[cs[n].place])
            /\ cs[n].action \in {"Delete", "Disable"}
        BY <1>2, <1>3, <1>5, <2>2
      <3> QED
        BY <3>1
    <2> QED
      BY <2>1, <2>2
  <1> QED
    BY <1>3, <1>4, <1>5 DEF now

Actions == {"AddEnabled", "AddDisabled", "Delete", "Disable"}

\* The two lists of changes the policy submits (push_interests, replacement).
Pushes(cs, d, token, interest, action) ==
    /\ ChangeList(cs) /\ AllAbout(cs, d)
    /\ \A n \in 1..Len(cs) : /\ cs[n].action = action
                             /\ cs[n].token = token
                             /\ Wanted(interest, cs[n].place[2])
    /\ \A f \in Filters : Wanted(interest, f) =>
          \E n \in 1..Len(cs) : cs[n].place = <<d, f>>

Replaces(cs, d, token, interest, act) ==
    /\ ChangeList(cs) /\ AllAbout(cs, d)
    /\ \A f \in Filters : \E n \in 1..Len(cs) :
          /\ cs[n].place = <<d, f>>
          /\ cs[n].token = token
          /\ cs[n].action = IF Wanted(interest, f) THEN act ELSE "Delete"

\* push_interests makes a change for each filter of the interest.
LEMMA Pushed ==
    ASSUME NEW d \in Descriptors, NEW token \in Nat, NEW interest \in Interests,
           NEW action \in Actions
    PROVE  Pushes(push_interests(d, token, interest, action),
                  d, token, interest, action)
  <1> DEFINE cs == push_interests(d, token, interest, action)
             fs == FiltersOf(interest)
  <1>1. /\ fs \in Seq(Filters) /\ OnceEach(fs)
        /\ \A n \in 1..Len(fs) : fs[n] \in Filters /\ Wanted(interest, fs[n])
        /\ \A f \in Filters : Wanted(interest, f) => \E n \in 1..Len(fs) : fs[n] = f
    BY FilterLists
  <1>2. cs = [n \in 1..Len(fs) |-> Change(d, fs[n], action, token)]
    BY DEF push_interests
  <1> HIDE DEF fs, cs
  <1>3. Len(fs) \in Nat
    BY <1>1
  <1>4. /\ Len(cs) = Len(fs)
        /\ \A n \in 1..Len(fs) : /\ cs[n].place = <<d, fs[n]>>
                                 /\ cs[n].action = action
                                 /\ cs[n].token = token
    BY <1>2, <1>3 DEF Change
  <1>4a. \A n \in 1..Len(cs) : cs[n].place \in {d} \X Filters
    <2> TAKE n \in 1..Len(cs)
    <2>1. fs[n] \in Filters /\ cs[n].place = <<d, fs[n]>>
      BY <1>1, <1>4
    <2> QED
      BY <2>1
  <1>5. ChangeList(cs)
    <2>1. \A n \in 1..Len(cs) :
             /\ cs[n].place \in Descriptors \X Filters
             /\ cs[n].action \in {"AddEnabled", "AddDisabled", "Delete", "Disable"}
             /\ cs[n].token \in Nat
      BY <1>4, <1>4a DEF Actions
    <2>2. \A m, n \in 1..Len(cs) : cs[m].place = cs[n].place => m = n
      BY <1>1, <1>4 DEF OnceEach
    <2> QED
      BY <1>3, <1>4, <2>1, <2>2 DEF ChangeList
  <1>6. AllAbout(cs, d)
    BY <1>4a DEF AllAbout
  <1>7. \A n \in 1..Len(cs) : Wanted(interest, cs[n].place[2])
    BY <1>1, <1>4
  <1>8. \A f \in Filters : Wanted(interest, f) =>
            \E n \in 1..Len(cs) : cs[n].place = <<d, f>>
    BY <1>1, <1>4
  <1> QED
    BY <1>4, <1>5, <1>6, <1>7, <1>8 DEF Pushes, cs

\* A replacement has a change for both filters, in the fixed order.
LEMMA Replaced ==
    ASSUME NEW d \in Descriptors, NEW token \in Nat, NEW interest \in Interests,
           NEW act \in {"AddEnabled", "AddDisabled"}
    PROVE  Replaces(replacement(d, token, interest, act), d, token, interest, act)
  <1> DEFINE cs == replacement(d, token, interest, act)
  <1>1. /\ Len(cs) = 2
        /\ \A n \in 1..2 :
              /\ cs[n].place = <<d, FilterOrder[n]>>
              /\ cs[n].token = token
              /\ cs[n].action = IF Wanted(interest, FilterOrder[n])
                                THEN act ELSE "Delete"
    BY DEF replacement, Change
  <1>2. /\ FilterOrder[1] = "Read" /\ FilterOrder[2] = "Write"
        /\ Filters = {"Read", "Write"} /\ 1..2 = {1, 2}
    BY DEF FilterOrder, Filters
  <1> HIDE DEF cs
  <1>3. ChangeList(cs)
    <2>1. \A n \in 1..Len(cs) :
             /\ cs[n].place \in Descriptors \X Filters
             /\ cs[n].action \in {"AddEnabled", "AddDisabled", "Delete", "Disable"}
             /\ cs[n].token \in Nat
      BY <1>1, <1>2
    <2>2. \A m, n \in 1..Len(cs) : cs[m].place = cs[n].place => m = n
      BY <1>1, <1>2
    <2>3. Len(cs) \in Nat
      BY <1>1
    <2> QED
      BY <2>1, <2>2, <2>3 DEF ChangeList
  <1>4. AllAbout(cs, d)
    BY <1>1, <1>2 DEF AllAbout
  <1>5. \A f \in Filters : \E n \in 1..2 : FilterOrder[n] = f
    BY <1>2
  <1>6. \A f \in Filters : \E n \in 1..Len(cs) :
            /\ cs[n].place = <<d, f>>
            /\ cs[n].token = token
            /\ cs[n].action = IF Wanted(interest, f) THEN act ELSE "Delete"
    BY <1>1, <1>5
  <1> QED
    BY <1>3, <1>4, <1>6 DEF Replaces, cs

\* Descriptor d has exactly the filters of the interest, enabled or disabled.
Holds(ks, d, interest, token, arm) ==
    \A f \in Filters :
        IF Wanted(interest, f)
        THEN ks[<<d, f>>] = [token |-> token, enabled |-> arm = "Armed"]
        ELSE Absent(ks[<<d, f>>])

Bare(ks, d) == \A f \in Filters : Absent(ks[<<d, f>>])

\* Two submissions about one descriptor are about that descriptor.
LEMMA AboutTwice ==
    ASSUME NEW a, NEW b, NEW c, NEW d, OnlyAbout(a, b, d), OnlyAbout(b, c, d)
    PROVE  OnlyAbout(a, c, d)
  BY DEF OnlyAbout

\* Cleaning up the filters of an interest: an exact answer leaves none of them.
LEMMA CleanupEnds ==
    ASSUME NEW ks, KnotesTyped(ks), NEW d \in Descriptors,
           NEW interest \in Interests, NEW ok, NEW failed,
           NEW end \in cleanup_interests(ks, d, interest, ok, failed)
    PROVE  /\ KnotesTyped(end.knotes)
           /\ OnlyAbout(ks, end.knotes, d)
           /\ \A f \in Filters : ~Wanted(interest, f) =>
                 end.knotes[<<d, f>>] = ks[<<d, f>>]
           /\ \/ end.answer = failed
              \/ /\ end.answer = ok
                 /\ \A f \in Filters :
                       Wanted(interest, f) => Absent(end.knotes[<<d, f>>])
  <1> DEFINE cs == push_interests(d, 0, interest, "Delete")
  <1>1. PICK s \in Submissions(ks, cs) :
            end = End(Applied(ks, cs, s.took),
                      IF exact(s.native, cs, TRUE) THEN ok ELSE failed)
    <2>1. PICK a \in Tried(ks, cs) : end = End(a.knotes, IF a.ok THEN ok ELSE failed)
      BY DEF cleanup_interests
    <2>2. PICK s \in Submissions(ks, cs) :
             a = [knotes |-> Applied(ks, cs, s.took), ok |-> exact(s.native, cs, TRUE)]
      BY DEF Tried
    <2> HIDE DEF cs
    <2> QED
      BY <2>1, <2>2
  <1>2a. "Delete" \in Actions /\ 0 \in Nat
    BY DEF Actions
  <1>2b. Pushes(cs, d, 0, interest, "Delete")
    BY <1>2a, Pushed
  <1> HIDE DEF cs
  <1>2. /\ ChangeList(cs) /\ AllAbout(cs, d)
        /\ \A n \in 1..Len(cs) : /\ cs[n].action = "Delete"
                                 /\ cs[n].token = 0
                                 /\ Wanted(interest, cs[n].place[2])
        /\ \A f \in Filters : Wanted(interest, f) =>
              \E n \in 1..Len(cs) : cs[n].place = <<d, f>>
    BY <1>2b DEF Pushes
  <1> DEFINE now == Applied(ks, cs, s.took)
  <1>3. /\ KnotesTyped(now) /\ OnlyAbout(ks, now, d)
        /\ exact(s.native, cs, TRUE) =>
              \A n \in 1..Len(cs) :
                 cs[n].action = "Delete" => Absent(now[cs[n].place])
    BY <1>2, ExactEffect
  <1>4. \A f \in Filters : ~Wanted(interest, f) => now[<<d, f>>] = ks[<<d, f>>]
    <2> TAKE f \in Filters
    <2> HAVE ~Wanted(interest, f)
    <2>1. \A n \in 1..Len(cs) : cs[n].place # <<d, f>>
      BY <1>2
    <2>2. <<d, f>> \in Places
      BY DEF Places
    <2>3. Len(cs) \in Nat /\ s.took \in SUBSET (1..Len(cs))
      BY <1>2, Submitted DEF ChangeList
    <2> QED
      BY <1>2, <2>1, <2>2, <2>3, Effect
  <1>5. exact(s.native, cs, TRUE) =>
            \A f \in Filters : Wanted(interest, f) => Absent(now[<<d, f>>])
    BY <1>2, <1>3
  <1>6. /\ end.knotes = now
        /\ end.answer = IF exact(s.native, cs, TRUE) THEN ok ELSE failed
    BY <1>1 DEF End
  <1> HIDE DEF now
  <1> QED
    BY <1>3, <1>4, <1>5, <1>6

\* The interest in both filters wants each of them.
LEMMA BothWanted == Both \in Interests /\ \A f \in Filters : Wanted(Both, f)
  BY DEF Both, Interests, Wanted, Filters

\* How apply_registration ends: the filters are there when it says so.
LEMMA ApplyEnds ==
    ASSUME NEW ks, KnotesTyped(ks), NEW d \in Descriptors, NEW token \in Nat,
           NEW interest \in Interests, Bare(ks, d),
           NEW a \in apply_registration(ks, d, token, interest)
    PROVE  /\ KnotesTyped(a.knotes)
           /\ OnlyAbout(ks, a.knotes, d)
           /\ a.ok => Holds(a.knotes, d, interest, token, "Armed")
  <1> DEFINE cs == push_interests(d, token, interest, "AddEnabled")
             all == 1..Len(cs)
  <1>1. \E took \in SUBSET all : /\ a.knotes = Applied(ks, cs, took)
                                 /\ a.ok => took = all
    <2> DEFINE Left(took, ok) == [knotes |-> Applied(ks, cs, took), ok |-> ok]
               waived == classify_apply_error(TRUE) = AppliedWithoutReceipts
               Cut == IF InterruptedApplies THEN {all} ELSE SUBSET all
    <2>1. apply_registration(ks, d, token, interest) =
              {Left(all, TRUE)} \cup {Left(took, FALSE) : took \in SUBSET all}
                  \cup {Left(took, waived) : took \in Cut}
      BY DEF apply_registration
    <2>2. waived => \A took \in Cut : took = all
      BY DEF classify_apply_error, AppliedWithoutReceipts, Unknown
    <2>3. all \in SUBSET all /\ Cut \subseteq SUBSET all
      OBVIOUS
    <2> HIDE DEF cs, all, waived, Cut
    <2>4. \A took, ok : Left(took, ok).knotes = Applied(ks, cs, took) /\ Left(took, ok).ok = ok
      OBVIOUS
    <2> HIDE DEF Left
    <2>5. \E took \in SUBSET all : \E ok : a = Left(took, ok) /\ (ok => took = all)
      BY <2>1, <2>2, <2>3
    <2> QED
      BY <2>4, <2>5
  <1>2. PICK took \in SUBSET all : /\ a.knotes = Applied(ks, cs, took)
                                   /\ a.ok => took = all
    BY <1>1
  <1>3a. "AddEnabled" \in Actions
    BY DEF Actions
  <1>3b. Pushes(cs, d, token, interest, "AddEnabled")
    BY <1>3a, Pushed
  <1> HIDE DEF cs
  <1>3. /\ ChangeList(cs) /\ AllAbout(cs, d)
        /\ \A n \in 1..Len(cs) : /\ cs[n].action = "AddEnabled"
                                 /\ cs[n].token = token
                                 /\ Wanted(interest, cs[n].place[2])
        /\ \A f \in Filters : Wanted(interest, f) =>
              \E n \in 1..Len(cs) : cs[n].place = <<d, f>>
    BY <1>3b DEF Pushes
  <1> DEFINE now == Applied(ks, cs, took)
  <1>4. /\ KnotesTyped(now)
        /\ \A n \in took : now[cs[n].place] = After(ks[cs[n].place], cs[n])
        /\ \A p \in Places :
              (\A n \in 1..Len(cs) : cs[n].place # p) => now[p] = ks[p]
    BY <1>3, Effect
  <1> HIDE DEF now
  <1>5. OnlyAbout(ks, now, d)
    <2>1. ASSUME NEW p \in Places, \A f \in Filters : p # <<d, f>>
          PROVE  \A n \in 1..Len(cs) : cs[n].place # p
      BY <1>3, <2>1 DEF AllAbout
    <2> QED
      BY <1>4, <2>1 DEF OnlyAbout
  <1>6. ASSUME took = all, NEW f \in Filters
        PROVE  IF Wanted(interest, f)
               THEN now[<<d, f>>] = [token |-> token, enabled |-> TRUE]
               ELSE Absent(now[<<d, f>>])
    <2>1. CASE Wanted(interest, f)
      <3>1. PICK n \in 1..Len(cs) : cs[n].place = <<d, f>>
        BY <1>3, <2>1
      <3>2. now[<<d, f>>] = After(ks[<<d, f>>], cs[n])
        BY <1>4, <1>6, <3>1
      <3>3. cs[n].action = "AddEnabled" /\ cs[n].token = token
        BY <1>3
      <3> QED
        BY <2>1, <3>2, <3>3 DEF After
    <2>2. CASE ~Wanted(interest, f)
      <3>1. \A n \in 1..Len(cs) : cs[n].place # <<d, f>>
        BY <1>3, <2>2
      <3>2. <<d, f>> \in Places
        BY DEF Places
      <3> QED
        BY <1>4, <2>2, <3>1, <3>2 DEF Bare
    <2> QED
      BY <2>1, <2>2
  <1>7. a.ok => Holds(now, d, interest, token, "Armed")
    BY <1>2, <1>6 DEF Holds
  <1> QED
    BY <1>2, <1>4, <1>5, <1>7 DEF now

\* How a registration ends (register_descriptor): its filters are there, none
\* is, or the answer is that nobody knows.
LEMMA RegisterEnds ==
    ASSUME NEW ks, KnotesTyped(ks), NEW d \in Descriptors, NEW token \in Nat,
           NEW interest \in Interests, Bare(ks, d),
           NEW end \in register_descriptor(ks, d, token, interest)
    PROVE  /\ KnotesTyped(end.knotes)
           /\ OnlyAbout(ks, end.knotes, d)
           /\ \/ /\ end.answer = "Success"
                 /\ Holds(end.knotes, d, interest, token, "Armed")
              \/ end.answer = "NotApplied" /\ Bare(end.knotes, d)
              \/ end.answer = "Unknown"
  <1>1. PICK a \in apply_registration(ks, d, token, interest) :
            end \in IF a.ok THEN {End(a.knotes, "Success")}
                    ELSE cleanup(a.knotes, d, "NotApplied", "Unknown")
    BY DEF register_descriptor
  <1>2. /\ KnotesTyped(a.knotes)
        /\ OnlyAbout(ks, a.knotes, d)
        /\ a.ok => Holds(a.knotes, d, interest, token, "Armed")
    BY ApplyEnds
  <1>3. CASE a.ok
    <2>1. end = End(a.knotes, "Success")
      BY <1>1, <1>3
    <2> QED
      BY <1>2, <1>3, <2>1 DEF End
  <1>4. CASE ~a.ok
    <2>1. end \in cleanup_interests(a.knotes, d, Both, "NotApplied", "Unknown")
      BY <1>1, <1>4 DEF cleanup
    <2>2. /\ KnotesTyped(end.knotes)
          /\ OnlyAbout(a.knotes, end.knotes, d)
          /\ \/ end.answer = "Unknown"
             \/ /\ end.answer = "NotApplied"
                /\ \A f \in Filters :
                      Wanted(Both, f) => Absent(end.knotes[<<d, f>>])
      BY <1>2, <2>1, BothWanted, CleanupEnds
    <2>3. OnlyAbout(ks, end.knotes, d)
      BY <1>2, <2>2, AboutTwice
    <2> QED
      BY <2>2, <2>3, BothWanted DEF Bare
  <1> QED
    BY <1>3, <1>4

Arm(act) == IF act = "AddEnabled" THEN "Armed" ELSE "Disarmed"

\* An exact submission of a replacement leaves what it asks for.
LEMMA ReplacementEnds ==
    ASSUME NEW ks, KnotesTyped(ks), NEW d \in Descriptors, NEW token \in Nat,
           NEW interest \in Interests, NEW act \in {"AddEnabled", "AddDisabled"},
           NEW s \in Submissions(ks, replacement(d, token, interest, act))
    PROVE  LET cs == replacement(d, token, interest, act)
               now == Applied(ks, cs, s.took)
           IN  /\ KnotesTyped(now)
               /\ OnlyAbout(ks, now, d)
               /\ exact(s.native, cs, TRUE) =>
                     Holds(now, d, interest, token, Arm(act))
  <1> DEFINE cs == replacement(d, token, interest, act)
             now == Applied(ks, cs, s.took)
  <1>0. Replaces(cs, d, token, interest, act)
    BY Replaced
  <1> HIDE DEF cs
  <1>1. /\ ChangeList(cs) /\ AllAbout(cs, d)
        /\ \A f \in Filters : \E n \in 1..Len(cs) :
              /\ cs[n].place = <<d, f>>
              /\ cs[n].token = token
              /\ cs[n].action = IF Wanted(interest, f) THEN act ELSE "Delete"
    BY <1>0 DEF Replaces
  <1>2. s \in Submissions(ks, cs)
    BY DEF cs
  <1>3. /\ KnotesTyped(now)
        /\ OnlyAbout(ks, now, d)
        /\ exact(s.native, cs, TRUE) =>
              \A n \in 1..Len(cs) :
                 LET k == now[cs[n].place]
                 IN  /\ cs[n].action = "AddEnabled" =>
                           k = [token |-> cs[n].token, enabled |-> TRUE]
                     /\ cs[n].action = "AddDisabled" =>
                           k = [token |-> cs[n].token, enabled |-> FALSE]
                     /\ cs[n].action = "Delete" => Absent(k)
    BY <1>1, <1>2, ExactEffect
  <1> HIDE DEF now
  <1>4. ASSUME exact(s.native, cs, TRUE), NEW f \in Filters
        PROVE  IF Wanted(interest, f)
               THEN now[<<d, f>>] = [token |-> token, enabled |-> Arm(act) = "Armed"]
               ELSE Absent(now[<<d, f>>])
    <2>1. PICK n \in 1..Len(cs) :
              /\ cs[n].place = <<d, f>>
              /\ cs[n].token = token
              /\ cs[n].action = IF Wanted(interest, f) THEN act ELSE "Delete"
      BY <1>1
    <2>2. /\ cs[n].action = "AddEnabled" =>
                now[<<d, f>>] = [token |-> token, enabled |-> TRUE]
          /\ cs[n].action = "AddDisabled" =>
                now[<<d, f>>] = [token |-> token, enabled |-> FALSE]
          /\ cs[n].action = "Delete" => Absent(now[<<d, f>>])
      BY <1>3, <1>4, <2>1
    <2>3. CASE ~Wanted(interest, f)
      BY <2>1, <2>2, <2>3
    <2>4. CASE Wanted(interest, f) /\ act = "AddEnabled"
      BY <2>1, <2>2, <2>4 DEF Arm
    <2>5. CASE Wanted(interest, f) /\ act = "AddDisabled"
      BY <2>1, <2>2, <2>5 DEF Arm
    <2> QED
      BY <2>3, <2>4, <2>5
  <1> QED
    BY <1>3, <1>4 DEF Holds, now, cs

\* How a modification ends (modify_descriptor): with the filters asked for, with
\* the former ones back as they were, or nobody knows.
LEMMA ModifyEnds ==
    ASSUME NEW ks, KnotesTyped(ks), NEW d \in Descriptors, NEW token \in Nat,
           NEW interest \in Interests, NEW arm \in {"Armed", "Disarmed"},
           NEW desired \in Interests,
           NEW end \in modify_descriptor(ks, d, token, interest, arm, desired)
    PROVE  /\ KnotesTyped(end.knotes)
           /\ OnlyAbout(ks, end.knotes, d)
           /\ \/ /\ end.answer = "Success"
                 /\ Holds(end.knotes, d, desired, token, "Armed")
              \/ /\ end.answer = "NotApplied"
                 /\ Holds(end.knotes, d, interest, token, arm)
              \/ end.answer = "Unknown"
  <1> DEFINE new_ == replacement(d, token, desired, "AddEnabled")
             prior == replacement(d, token, interest, restore_action(arm))
             Mid(s) == Applied(ks, new_, s.took)
  <1>1. PICK s \in Submissions(ks, new_) :
            end \in IF exact(s.native, new_, TRUE) THEN {End(Mid(s), "Success")}
                    ELSE {End(Applied(Mid(s), prior, r.took),
                              IF exact(r.native, prior, TRUE)
                              THEN "NotApplied" ELSE "Unknown") :
                             r \in Submissions(Mid(s), prior)}
    <2>1. PICK a \in Tried(ks, new_) :
             end \in IF a.ok THEN {End(a.knotes, "Success")}
                     ELSE {End(b.knotes, IF b.ok THEN "NotApplied" ELSE "Unknown") :
                              b \in Tried(a.knotes, prior)}
      BY DEF modify_descriptor
    <2>2. PICK s \in Submissions(ks, new_) :
             a = [knotes |-> Mid(s), ok |-> exact(s.native, new_, TRUE)]
      BY DEF Tried
    <2> HIDE DEF new_, prior, Mid
    <2>3. a.knotes = Mid(s) /\ a.ok = exact(s.native, new_, TRUE)
      BY <2>2
    <2>4. CASE a.ok
      BY <2>1, <2>3, <2>4
    <2>5. CASE ~a.ok
      <3>1. PICK b \in Tried(Mid(s), prior) :
               end = End(b.knotes, IF b.ok THEN "NotApplied" ELSE "Unknown")
        BY <2>1, <2>3, <2>5
      <3>2. PICK r \in Submissions(Mid(s), prior) :
               b = [knotes |-> Applied(Mid(s), prior, r.took),
                    ok |-> exact(r.native, prior, TRUE)]
        BY DEF Tried
      <3>3. /\ b.knotes = Applied(Mid(s), prior, r.took)
            /\ b.ok = exact(r.native, prior, TRUE)
        BY <3>2
      <3> QED
        BY <2>3, <2>5, <3>1, <3>3
    <2> QED
      BY <2>4, <2>5
  <1> DEFINE mid == Mid(s)
  <1>2. /\ KnotesTyped(mid)
        /\ OnlyAbout(ks, mid, d)
        /\ exact(s.native, new_, TRUE) => Holds(mid, d, desired, token, "Armed")
    <2>1. Arm("AddEnabled") = "Armed"
      BY DEF Arm
    <2> QED
      BY <2>1, ReplacementEnds
  <1>3. CASE exact(s.native, new_, TRUE)
    <2>1. end.knotes = mid /\ end.answer = "Success"
      BY <1>1, <1>3 DEF End
    <2> HIDE DEF mid
    <2> QED
      BY <1>2, <1>3, <2>1
  <1>4. CASE ~exact(s.native, new_, TRUE)
    <2>1. PICK r \in Submissions(mid, prior) :
              end = End(Applied(mid, prior, r.took),
                        IF exact(r.native, prior, TRUE)
                        THEN "NotApplied" ELSE "Unknown")
      BY <1>1, <1>4
    <2> HIDE DEF mid
    <2>2. /\ restore_action(arm) \in {"AddEnabled", "AddDisabled"}
          /\ Arm(restore_action(arm)) = arm
      BY DEF restore_action, Arm
    <2> DEFINE now == Applied(mid, prior, r.took)
    <2>3. /\ KnotesTyped(now)
          /\ OnlyAbout(mid, now, d)
          /\ exact(r.native, prior, TRUE) =>
                Holds(now, d, interest, token, Arm(restore_action(arm)))
      BY <1>2, <2>2, ReplacementEnds
    <2>4. /\ end.knotes = now
          /\ end.answer = IF exact(r.native, prior, TRUE)
                          THEN "NotApplied" ELSE "Unknown"
      BY <2>1 DEF End
    <2> HIDE DEF now, prior
    <2>5. OnlyAbout(ks, now, d)
      BY <1>2, <2>3, AboutTwice
    <2> QED
      BY <2>2, <2>3, <2>4, <2>5
  <1> QED
    BY <1>3, <1>4

\* How a deletion ends (delete_descriptor).
LEMMA DeleteEnds ==
    ASSUME NEW ks, KnotesTyped(ks), NEW d \in Descriptors,
           NEW interest \in Interests, NEW state_ \in RegistrationStates,
           state_ # "Uncertain" =>
              \A f \in Filters : ~Wanted(interest, f) => Absent(ks[<<d, f>>]),
           NEW end \in delete_descriptor(ks, d, interest, state_)
    PROVE  /\ KnotesTyped(end.knotes)
           /\ OnlyAbout(ks, end.knotes, d)
           /\ \/ end.answer = "Success" /\ Bare(end.knotes, d)
              \/ end.answer = "Unknown"
  <1> DEFINE wide == exact_interest(interest, state_)
  <1>1. /\ wide \in Interests
        /\ \A f \in Filters : ~Wanted(wide, f) => Absent(ks[<<d, f>>])
    BY BothWanted DEF exact_interest
  <1>2. end \in cleanup_interests(ks, d, wide, "Success", "Unknown")
    BY DEF delete_descriptor
  <1> HIDE DEF wide
  <1>3. /\ KnotesTyped(end.knotes)
        /\ OnlyAbout(ks, end.knotes, d)
        /\ \A f \in Filters : ~Wanted(wide, f) =>
              end.knotes[<<d, f>>] = ks[<<d, f>>]
        /\ \/ end.answer = "Unknown"
           \/ /\ end.answer = "Success"
              /\ \A f \in Filters : Wanted(wide, f) => Absent(end.knotes[<<d, f>>])
    BY <1>1, <1>2, CleanupEnds
  <1> QED
    BY <1>1, <1>3 DEF Bare

------------------------------------------------------------------------------
(* The table and the knotes.                                               *)

\* The filters a registration asks for fit it.
LEMMA HoldsFits ==
    ASSUME NEW now, NEW d, NEW id \in Nat, NEW e,
           Holds(now, d, e.interest, id, e.state), NEW f \in Filters
    PROVE  Fits(id, e, f, now[<<d, f>>])
  <1>1. CASE Wanted(e.interest, f)
    <2> DEFINE k == [token |-> id, enabled |-> e.state = "Armed"]
    <2>1. now[<<d, f>>] = k
      BY <1>1 DEF Holds
    <2>2. k \in Knote
      BY DEF Knote
    <2>3. k # None
      BY <2>2, LostAssumption
    <2> QED
      BY <1>1, <2>1, <2>3 DEF Fits
  <1>2. CASE ~Wanted(e.interest, f)
    BY <1>2 DEF Holds, Fits
  <1> QED
    BY <1>1, <1>2

\* A change of the slot of one descriptor, together with the knotes of that
\* descriptor, leaves the table in agreement with the kernel.
Settles(t, u, i, g, e, d, ks, now) ==
    /\ Apart(t) /\ Agree(t, ks)
    /\ SlotBecomes(t, u, i, g, e)
    /\ OnlyAbout(ks, now, d)
    /\ \A j \in Index : j # i /\ t.slots[j].entry # None =>
           t.slots[j].entry.descriptor # d
    /\ t.slots[i].entry # None => t.slots[i].entry.descriptor = d
    /\ IF e = None THEN Bare(now, d)
       ELSE /\ e.descriptor = d /\ e.interest # {}
            /\ \A f \in Filters : Fits(encode(i, g), e, f, now[<<d, f>>])

\* A call that settles one slot by what it left of one descriptor's knotes keeps
\* table and knotes in agreement, and the registrations apart.
LEMMA AgreeBecomes ==
    ASSUME NEW t, NEW u, NEW i \in Index, NEW g, NEW e, NEW d \in Descriptors,
           NEW ks, NEW now, Settles(t, u, i, g, e, d, ks, now)
    PROVE  Agree(u, now) /\ Apart(u)
  <1> USE DEF Settles
  <1>1. /\ u.slots[i].generation = g /\ u.slots[i].entry = e
        /\ \A j \in Index : j # i => u.slots[j] = t.slots[j]
    BY DEF SlotBecomes
  <1>2. Apart(u)
    BY <1>1 DEF Apart
  <1>3. ASSUME NEW c \in Descriptors, NEW f \in Filters
        PROVE  LET here == {j \in Index : /\ u.slots[j].entry # None
                                          /\ u.slots[j].entry.descriptor = c}
               IN  /\ here = {} => Absent(now[<<c, f>>])
                   /\ \A j \in here : Fits(encode(j, u.slots[j].generation),
                                           u.slots[j].entry, f, now[<<c, f>>])
    <2> DEFINE Here(v) == {j \in Index : /\ v.slots[j].entry # None
                                         /\ v.slots[j].entry.descriptor = c}
    <2>1. CASE c = d
      <3>1. \A j \in Here(u) : j = i
        BY <1>1, <2>1
      <3>2. e # None => i \in Here(u)
        BY <1>1, <2>1
      <3>3. Here(u) # {} => e # None
        BY <1>1, <3>1
      <3> QED
        BY <1>1, <2>1, <3>1, <3>2, <3>3 DEF Bare
    <2>2. CASE c # d
      <3>1. <<c, f>> \in Places /\ \A ff \in Filters : <<c, f>> # <<d, ff>>
        BY <2>2 DEF Places
      <3>2. now[<<c, f>>] = ks[<<c, f>>]
        BY <3>1 DEF OnlyAbout
      <3>3. \A j \in Index : j \in Here(u) <=> j \in Here(t)
        BY <1>1, <2>2
      <3>4. \A j \in Here(u) : u.slots[j] = t.slots[j]
        BY <1>1, <2>2
      <3>5. /\ Here(t) = {} => Absent(ks[<<c, f>>])
            /\ \A j \in Here(t) : Fits(encode(j, t.slots[j].generation),
                                       t.slots[j].entry, f, ks[<<c, f>>])
        BY DEF Agree
      <3>6. Here(u) = Here(t)
        BY <3>3
      <3> HIDE DEF Here
      <3>7. /\ Here(u) = {} => Absent(now[<<c, f>>])
            /\ \A j \in Here(u) : Fits(encode(j, u.slots[j].generation),
                                       u.slots[j].entry, f, now[<<c, f>>])
        BY <3>2, <3>4, <3>5, <3>6
      <3> QED
        BY <3>7, Zenon DEF Here
    <2> QED
      BY <2>1, <2>2
  <1> QED
    BY <1>2, <1>3 DEF Agree

\* The queue after a change lists each active place once.
LEMMA RefreshedQueued ==
    ASSUME NEW q \in Seq(Descriptors \X Filters), OnceEach(q),
           NEW ks, NEW ss, NEW d \in Descriptors
    PROVE  Queued(ks, ss, Refreshed(q, ks, ss, d))
  <1> DEFINE S == Descriptors \X Filters
             active == {p \in Places : Active(ks, ss, p)}
             kept == Only(q, active)
             ours == <<<<d, "Read">>, <<d, "Write">>>>
             fresh == Only(ours, {p \in active : ~Listed(kept, p)})
  <1>1. ours \in Seq(S) /\ OnceEach(ours)
    BY DEF Filters, OnceEach
  <1>2. /\ kept \in Seq(S) /\ OnceEach(kept)
        /\ \A x : Listed(kept, x) => x \in active
    <2> HIDE DEF active, S
    <2>1. q \in Seq(S)
      BY DEF S
    <2> QED
      BY <2>1, OnlyKept
  <1>3. /\ fresh \in Seq(S) /\ OnceEach(fresh)
        /\ \A x : Listed(fresh, x) => x \in active /\ ~Listed(kept, x)
    <2> DEFINE more == {p \in active : ~Listed(kept, p)}
    <2>1. \A x : x \in more => x \in active /\ ~Listed(kept, x)
      OBVIOUS
    <2> HIDE DEF more, S, ours, kept, active
    <2>2. /\ Only(ours, more) \in Seq(S) /\ OnceEach(Only(ours, more))
          /\ \A x : Listed(Only(ours, more), x) => x \in more
      BY <1>1, OnlyKept
    <2> QED
      BY <2>1, <2>2 DEF more
  <1>4. Refreshed(q, ks, ss, d) = kept \o fresh
    BY DEF Refreshed
  <1> HIDE DEF kept, fresh, S
  <1>5. \A j \in 1..Len(kept) : \A k \in 1..Len(fresh) : kept[j] # fresh[k]
    BY <1>2, <1>3 DEF Listed
  <1>6. kept \o fresh \in Seq(S) /\ OnceEach(kept \o fresh)
    BY <1>2, <1>3, <1>5, JoinedOnce
  <1>7. ASSUME NEW n \in 1..Len(kept \o fresh) PROVE (kept \o fresh)[n] \in active
    <2>1. /\ Len(kept \o fresh) = Len(kept) + Len(fresh)
          /\ (kept \o fresh)[n] = IF n <= Len(kept) THEN kept[n]
                                  ELSE fresh[n - Len(kept)]
      BY <1>2, <1>3, ConcatProperties
    <2>2. Len(kept) \in Nat /\ Len(fresh) \in Nat
      BY <1>2, <1>3
    <2>3. CASE n <= Len(kept)
      BY <1>2, <2>1, <2>2, <2>3 DEF Listed
    <2>4. CASE ~(n <= Len(kept))
      <3>1. n - Len(kept) \in 1..Len(fresh)
        BY <2>1, <2>2, <2>4
      <3> QED
        BY <1>3, <2>1, <2>4, <3>1 DEF Listed
    <2> QED
      BY <2>3, <2>4
  <1> QED
    BY <1>4, <1>6, <1>7 DEF Queued, S

\* A queue from which places have been removed.
LEMMA OnlyQueued ==
    ASSUME NEW q \in Seq(Descriptors \X Filters), OnceEach(q), NEW ks, NEW ss,
           NEW keep, \A n \in 1..Len(q) : q[n] \in keep => Active(ks, ss, q[n])
    PROVE  Queued(ks, ss, Only(q, keep))
  <1> DEFINE S == Descriptors \X Filters
             out == Only(q, keep)
  <1>1. /\ out \in Seq(S) /\ OnceEach(out)
        /\ \A x : Listed(out, x) => Listed(q, x) /\ x \in keep
    <2> HIDE DEF S
    <2>1. q \in Seq(S)
      BY DEF S
    <2> QED
      BY <2>1, OnlyKept
  <1> HIDE DEF out
  <1>2. \A n \in 1..Len(out) : Active(ks, ss, out[n])
    BY <1>1 DEF Listed
  <1> QED
    BY <1>1, <1>2 DEF Queued, out

------------------------------------------------------------------------------
(* Each action keeps the invariant.                                        *)

\* A step that reports nothing.
LEMMA NoReportReported == ASSUME NoReport PROVE Reported(events')
  BY CapacityAssumption DEF NoReport, Reported

\* Tokens are natural numbers.
LEMMA TokenNat ==
    ASSUME NEW i \in Index, NEW g \in Nat PROVE encode(i, g) \in Nat
  <1>1. Radix \in Nat /\ i + 1 \in Nat
    BY Limits DEF Radix
  <1>2. g * Radix \in Nat
    BY <1>1
  <1> QED
    BY <1>1, <1>2 DEF encode

\* An occupied slot has an entry and a generation.
LEMMA Occupies ==
    ASSUME NEW t, TableInv(t), NEW i \in Index, t.slots[i].entry # None
    PROVE  /\ t.slots[i].entry \in Entry
           /\ t.slots[i].generation \in 1..MAX_GENERATION
           /\ encode(i, t.slots[i].generation) \in Nat
  <1>1. t.slots[i].entry \in Entry
    BY DEF TableInv, Table, Slot
  <1>2. t.slots[i].generation \in 1..MAX_GENERATION
    BY Limits DEF TableInv, SlotsPushed, Unpushed, MAX_GENERATION
  <1>3. t.slots[i].generation \in Nat
    BY <1>2, Limits DEF MAX_GENERATION
  <1> QED
    BY <1>1, <1>2, <1>3, TokenNat

\* A call of the backend that settles the table as it left the knotes.
LEMMA EndsInv ==
    ASSUME Inv, Idle, NEW d \in Descriptors, NEW ends, NEW settled,
           Ends(d, ends, settled),
           \A end \in ends :
              /\ TableInv(settled[end.answer]) /\ Apart(settled[end.answer])
              /\ KnotesTyped(end.knotes)
              /\ Agree(settled[end.answer], end.knotes)
    PROVE  Inv'
  <1>1. PICK end \in ends :
           /\ table' = settled[end.answer]
           /\ knotes' = end.knotes
           /\ queue' = Refreshed(queue, end.knotes, sources, d)
           /\ UNCHANGED <<sources, triggered, pending, batch, notified>>
           /\ NoReport
    BY DEF Ends
  <1>2. /\ TableInv(table') /\ Apart(table')
        /\ KnotesTyped(knotes') /\ Agree(table', knotes')
    BY <1>1
  <1>3. Queued(knotes', sources', queue')
    <2>1. queue \in Seq(Descriptors \X Filters) /\ OnceEach(queue)
      BY DEF Inv, Queued
    <2>2. Queued(end.knotes, sources, Refreshed(queue, end.knotes, sources, d))
      BY <2>1, RefreshedQueued
    <2> QED
      BY <1>1, <2>2
  <1>4. /\ sources' \in [Places -> Sighting \cup {None}]
        /\ sources'[UserPlace] = None
        /\ triggered' \in BOOLEAN /\ pending' = pending_new /\ notified' \in BOOLEAN
    BY <1>1 DEF Inv
  <1>5. Idle' /\ WakeKept'
    BY <1>1 DEF Inv, Idle, WakeKept
  <1>6. Reported(events')
    BY <1>1, NoReportReported
  <1> QED
    BY <1>2, <1>3, <1>4, <1>5, <1>6 DEF Inv

\* Registration, whatever the kernel did with the submission and its cleanup.
LEMMA RegisterInv ==
    ASSUME Inv, NEW d \in Descriptors, NEW key \in Keys,
           NEW interest \in InterestRequests, NEW mode \in ModeRequests,
           Register(d, key, interest, mode)
    PROVE  Inv'
  <1> DEFINE i == Permit(table).index
             g == Permit(table).generation
             e == registered(d, key, interest, mode)
             r == reserve_with(table, e)
             ends == register_descriptor(knotes, d, encode(i, g), interest)
             settled == [answer \in Outcomes |-> SettledRegister(r, i, answer)]
  <1>1. /\ Idle /\ PermitStatus(table) = "Ok"
        /\ \A j \in Index : table.slots[j].entry # None =>
              table.slots[j].entry.descriptor # d
        /\ Ends(d, ends, settled)
    BY DEF Register, Occupants
  <1>2. /\ interest \in Interests /\ interest # {} /\ mode \in Modes
    BY RequestsAssumption
  <1>3. e \in Entry
    BY <1>2 DEF registered, Entry, RegistrationStates
  <1>4. /\ TableInv(table) /\ Apart(table) /\ KnotesTyped(knotes)
        /\ Agree(table, knotes)
    BY DEF Inv
  <1>5. /\ i \in Index
        /\ table.slots[i].entry = None
        /\ g \in 1..MAX_GENERATION
        /\ SlotBecomes(table, r, i, g, e)
    BY <1>1, <1>3, <1>4, Reserve
  <1>6. /\ e.descriptor = d /\ e.interest = interest /\ e.state = "Armed"
        /\ e # None
    BY <1>3, NoneAssumption DEF registered
  <1> HIDE DEF i, g, e, r
  <1>7. g \in Nat /\ encode(i, g) \in Nat
    <2>1. g \in Nat
      BY <1>5, Limits DEF MAX_GENERATION
    <2> QED
      BY <1>5, <2>1, TokenNat
  <1>8. Bare(knotes, d)
    BY <1>1, <1>4 DEF Agree, Bare
  <1>9. ASSUME NEW end \in ends
        PROVE  /\ TableInv(settled[end.answer]) /\ Apart(settled[end.answer])
               /\ KnotesTyped(end.knotes)
               /\ Agree(settled[end.answer], end.knotes)
    <2>1. /\ KnotesTyped(end.knotes)
          /\ OnlyAbout(knotes, end.knotes, d)
          /\ \/ /\ end.answer = "Success"
                /\ Holds(end.knotes, d, interest, encode(i, g), "Armed")
             \/ end.answer = "NotApplied" /\ Bare(end.knotes, d)
             \/ end.answer = "Unknown"
      BY <1>2, <1>4, <1>7, <1>8, RegisterEnds
    <2>2. end.answer \in Outcomes /\ settled[end.answer] = SettledRegister(r, i, end.answer)
      BY <2>1 DEF Outcomes, CommitStatus
    <2> HIDE DEF settled
    <2> DEFINE u == SettledRegister(r, i, end.answer)
               now == CASE end.answer \in {"Success", "Applied"} -> e
                        [] end.answer = "NotApplied" -> None
                        [] end.answer = "Unknown" -> Uncertainly(e)
    <2>3. /\ TableInv(r) /\ r.slots[i].entry = e /\ r.slots[i].generation = g
      BY <1>5 DEF SlotBecomes
    <2>4. SlotBecomes(r, u, i, g, now)
      BY <1>2, <1>5, <1>6, <2>2, <2>3, Settlements
    <2> HIDE DEF u
    <2>5. SlotBecomes(table, u, i, g, now)
      BY <1>5, <2>4 DEF SlotBecomes
    <2>6. /\ now = None => Bare(end.knotes, d)
          /\ now # None =>
                /\ now.descriptor = d /\ now.interest # {}
                /\ \A f \in Filters : Fits(encode(i, g), now, f, end.knotes[<<d, f>>])
      <3>1. CASE end.answer = "Success"
        <4>1. now = e
          BY <3>1
        <4>2. Holds(end.knotes, d, e.interest, encode(i, g), e.state)
          BY <1>6, <2>1, <3>1
        <4>3. \A f \in Filters : Fits(encode(i, g), e, f, end.knotes[<<d, f>>])
          BY <1>7, <4>2, HoldsFits
        <4> QED
          BY <1>2, <1>6, <4>1, <4>3
      <3>2. CASE end.answer = "NotApplied"
        BY <2>1, <3>2
      <3>3. CASE end.answer = "Unknown"
        <4>1. now = Uncertainly(e)
          BY <3>3
        <4>2. Uncertainly(e) \in Entry
          BY <1>2, <1>3, ChangedEntries DEF Uncertainly
        <4>3. /\ now.descriptor = d /\ now.interest = interest
              /\ now.state = "Uncertain" /\ now # None
          BY <1>3, <1>6, <4>1, <4>2, NoneAssumption DEF Uncertainly, Entry
        <4> HIDE DEF now
        <4> QED
          BY <1>2, <4>3 DEF Fits
      <3> QED
        BY <2>1, <3>1, <3>2, <3>3
    <2> HIDE DEF now
    <2>7. Settles(table, u, i, g, now, d, knotes, end.knotes)
      BY <1>1, <1>4, <1>5, <2>1, <2>5, <2>6 DEF Settles
    <2>8. Agree(u, end.knotes) /\ Apart(u)
      BY <1>5, <2>7, AgreeBecomes
    <2> QED
      BY <2>1, <2>2, <2>4, <2>8 DEF SlotBecomes, u
  <1> HIDE DEF ends, settled
  <1> QED
    BY <1>1, <1>9, EndsInv

\* Nobody else has the descriptor of slot i.
LEMMA OwnDescriptor ==
    ASSUME NEW t, Apart(t), NEW i \in Index, t.slots[i].entry # None
    PROVE  \A j \in Index : j # i /\ t.slots[j].entry # None =>
               t.slots[j].entry.descriptor # t.slots[i].entry.descriptor
  BY DEF Apart

\* Modification, whatever the kernel did with the replacement and its rollback.
LEMMA ModifyInv ==
    ASSUME Inv, NEW i \in Index, NEW interest \in InterestRequests,
           NEW mode \in ModeRequests, Modify(i, interest, mode)
    PROVE  Inv'
  <1> DEFINE e == table.slots[i].entry
             g == table.slots[i].generation
             d == e.descriptor
             ends == modify_descriptor(knotes, d, encode(i, g), e.interest,
                                       e.state, interest)
             settled == [answer \in Outcomes |->
                            SettledModify(table, i, interest, mode, answer)]
  <1>1. /\ Idle /\ e # None
        /\ binding(table, encode(i, g), FALSE) = "Ok"
        /\ Ends(d, ends, settled)
    BY DEF Modify, Occupants, IdOf
  <1>2. /\ interest \in Interests /\ interest # {} /\ mode \in Modes
    BY RequestsAssumption
  <1>3. /\ TableInv(table) /\ Apart(table) /\ KnotesTyped(knotes)
        /\ Agree(table, knotes)
    BY DEF Inv
  <1>4. e \in Entry /\ g \in 1..MAX_GENERATION /\ encode(i, g) \in Nat
    BY <1>1, <1>3, Occupies
  <1>5. e.state # "Uncertain"
    <2>1. IsLive(table, encode(i, g)) /\ entry(table, encode(i, g)) = e
      BY <1>1, <1>3, <1>4, Lookup
    <2> QED
      BY <1>1, <2>1 DEF binding
  <1>6. /\ d \in Descriptors /\ e.interest \in Interests
        /\ e.state \in {"Armed", "Disarmed"} /\ e.interest # {}
    BY <1>1, <1>3, <1>4, <1>5 DEF Entry, RegistrationStates, Apart
  <1>7. /\ \A j \in Index : j # i /\ table.slots[j].entry # None =>
              table.slots[j].entry.descriptor # d
        /\ table.slots[i].entry = e /\ table.slots[i].generation = g
    BY <1>1, <1>3, OwnDescriptor
  <1>8. ASSUME NEW end \in ends
        PROVE  /\ TableInv(settled[end.answer]) /\ Apart(settled[end.answer])
               /\ KnotesTyped(end.knotes)
               /\ Agree(settled[end.answer], end.knotes)
    <2>1. /\ KnotesTyped(end.knotes)
          /\ OnlyAbout(knotes, end.knotes, d)
          /\ \/ /\ end.answer = "Success"
                /\ Holds(end.knotes, d, interest, encode(i, g), "Armed")
             \/ /\ end.answer = "NotApplied"
                /\ Holds(end.knotes, d, e.interest, encode(i, g), e.state)
             \/ end.answer = "Unknown"
      <3> HIDE DEF e, g, d
      <3> QED
        BY <1>2, <1>3, <1>4, <1>6, ModifyEnds
    <2>2. /\ end.answer \in Outcomes
          /\ settled[end.answer] = SettledModify(table, i, interest, mode, end.answer)
      BY <2>1 DEF Outcomes, CommitStatus
    <2> HIDE DEF settled
    <2> DEFINE u == SettledModify(table, i, interest, mode, end.answer)
               now == CASE end.answer \in {"Success", "Applied"} ->
                              Rearmed(e, interest, mode)
                        [] end.answer = "NotApplied" -> e
                        [] end.answer = "Unknown" -> Uncertainly(e)
    <2>3. SlotBecomes(table, u, i, g, now)
      BY <1>1, <1>2, <1>3, <2>2, Settlements
    <2> HIDE DEF u, e, g, d
    <2>4. /\ now # None
          /\ now.descriptor = d /\ now.interest # {}
          /\ \A f \in Filters : Fits(encode(i, g), now, f, end.knotes[<<d, f>>])
      <3>0. e.descriptor = d
        BY DEF d
      <3>1. CASE end.answer = "Success"
        <4>1. now = Rearmed(e, interest, mode)
          BY <3>1
        <4>2. Rearmed(e, interest, mode) \in Entry
          BY <1>2, <1>4, ChangedEntries DEF Rearmed
        <4>3. /\ now.descriptor = d /\ now.interest = interest
              /\ now.state = "Armed" /\ now # None
          BY <1>4, <3>0, <4>1, <4>2, NoneAssumption DEF Rearmed, Entry
        <4> HIDE DEF now
        <4>4. Holds(end.knotes, d, now.interest, encode(i, g), now.state)
          BY <2>1, <3>1, <4>3
        <4>5. \A f \in Filters : Fits(encode(i, g), now, f, end.knotes[<<d, f>>])
          BY <1>4, <4>4, HoldsFits
        <4> QED
          BY <1>2, <4>3, <4>5
      <3>2. CASE end.answer = "NotApplied"
        <4>1. now = e
          BY <3>2
        <4>2. Holds(end.knotes, d, e.interest, encode(i, g), e.state)
          BY <2>1, <3>2
        <4>3. \A f \in Filters : Fits(encode(i, g), e, f, end.knotes[<<d, f>>])
          BY <1>4, <4>2, HoldsFits
        <4> QED
          BY <1>1, <1>6, <3>0, <4>1, <4>3
      <3>3. CASE end.answer = "Unknown"
        <4>1. now = Uncertainly(e)
          BY <3>3
        <4>2. Uncertainly(e) \in Entry
          BY <1>2, <1>4, ChangedEntries DEF Uncertainly
        <4>3. /\ now.descriptor = d /\ now.interest = e.interest
              /\ now.state = "Uncertain" /\ now # None
          BY <1>4, <3>0, <4>1, <4>2, NoneAssumption DEF Uncertainly, Entry
        <4> HIDE DEF now
        <4> QED
          BY <1>6, <4>3 DEF Fits
      <3> QED
        BY <2>1, <3>1, <3>2, <3>3
    <2> HIDE DEF now
    <2>5. Settles(table, u, i, g, now, d, knotes, end.knotes)
      <3>1. table.slots[i].entry # None => table.slots[i].entry.descriptor = d
        BY <1>7 DEF d
      <3> QED
        BY <1>3, <1>7, <2>1, <2>3, <2>4, <3>1 DEF Settles
    <2>6. Agree(u, end.knotes) /\ Apart(u)
      BY <1>6, <2>5, AgreeBecomes
    <2> QED
      BY <2>1, <2>2, <2>3, <2>6 DEF SlotBecomes, u
  <1> HIDE DEF ends, settled, d
  <1> QED
    BY <1>1, <1>6, <1>8, EndsInv

\* Deletion, of an uncertain registration too.
LEMMA DeleteInv ==
    ASSUME Inv, NEW i \in Index, Delete(i)
    PROVE  Inv'
  <1> DEFINE e == table.slots[i].entry
             g == table.slots[i].generation
             d == e.descriptor
             ends == delete_descriptor(knotes, d, e.interest, e.state)
             settled == [answer \in Outcomes |-> SettledDelete(table, i, answer)]
  <1>1. /\ Idle /\ e # None
        /\ Ends(d, ends, settled)
    BY DEF Delete, Occupants
  <1>3. /\ TableInv(table) /\ Apart(table) /\ KnotesTyped(knotes)
        /\ Agree(table, knotes)
    BY DEF Inv
  <1>4. e \in Entry /\ g \in 1..MAX_GENERATION /\ encode(i, g) \in Nat
    BY <1>1, <1>3, Occupies
  <1>6. /\ d \in Descriptors /\ e.interest \in Interests
        /\ e.state \in RegistrationStates /\ e.interest # {} /\ e.mode \in Modes
    BY <1>1, <1>3, <1>4 DEF Entry, Apart
  <1>7. /\ \A j \in Index : j # i /\ table.slots[j].entry # None =>
              table.slots[j].entry.descriptor # d
        /\ table.slots[i].entry = e /\ table.slots[i].generation = g
    BY <1>1, <1>3, OwnDescriptor
  <1>7a. e.state # "Uncertain" =>
            \A f \in Filters : ~Wanted(e.interest, f) => Absent(knotes[<<d, f>>])
    <2>1. \A f \in Filters : Fits(encode(i, g), e, f, knotes[<<d, f>>])
      BY <1>1, <1>3, <1>6 DEF Agree
    <2> QED
      BY <2>1 DEF Fits
  <1>8. ASSUME NEW end \in ends
        PROVE  /\ TableInv(settled[end.answer]) /\ Apart(settled[end.answer])
               /\ KnotesTyped(end.knotes)
               /\ Agree(settled[end.answer], end.knotes)
    <2>1. /\ KnotesTyped(end.knotes)
          /\ OnlyAbout(knotes, end.knotes, d)
          /\ \/ end.answer = "Success" /\ Bare(end.knotes, d)
             \/ end.answer = "Unknown"
      <3> HIDE DEF e, g, d
      <3> QED
        BY <1>3, <1>6, <1>7a, DeleteEnds
    <2>2. /\ end.answer \in Outcomes
          /\ settled[end.answer] = SettledDelete(table, i, end.answer)
      BY <2>1 DEF Outcomes, CommitStatus
    <2> HIDE DEF settled
    <2> DEFINE u == SettledDelete(table, i, end.answer)
               now == CASE end.answer \in {"Success", "Applied"} -> None
                        [] end.answer = "NotApplied" -> e
                        [] end.answer = "Unknown" -> Uncertainly(e)
    <2>3. SlotBecomes(table, u, i, g, now)
      BY <1>1, <1>3, <1>6, <2>2, Settlements
    <2> HIDE DEF u, e, g, d
    <2>4. /\ now = None => Bare(end.knotes, d)
          /\ now # None =>
                /\ now.descriptor = d /\ now.interest # {}
                /\ \A f \in Filters : Fits(encode(i, g), now, f, end.knotes[<<d, f>>])
      <3>0. e.descriptor = d
        BY DEF d
      <3>1. CASE end.answer = "Success"
        BY <2>1, <3>1
      <3>3. CASE end.answer = "Unknown"
        <4>1. now = Uncertainly(e)
          BY <3>3
        <4>2. Uncertainly(e) \in Entry
          BY <1>4, <1>6, ChangedEntries DEF Uncertainly
        <4>3. /\ now.descriptor = d /\ now.interest = e.interest
              /\ now.state = "Uncertain" /\ now # None
          BY <1>4, <3>0, <4>1, <4>2, NoneAssumption DEF Uncertainly, Entry
        <4> HIDE DEF now
        <4> QED
          BY <1>6, <4>3 DEF Fits
      <3> QED
        BY <2>1, <3>1, <3>3
    <2> HIDE DEF now
    <2>5. Settles(table, u, i, g, now, d, knotes, end.knotes)
      <3>1. table.slots[i].entry # None => table.slots[i].entry.descriptor = d
        BY <1>7 DEF d
      <3> QED
        BY <1>3, <1>7, <2>1, <2>3, <2>4, <3>1 DEF Settles
    <2>6. Agree(u, end.knotes) /\ Apart(u)
      BY <1>6, <2>5, AgreeBecomes
    <2> QED
      BY <2>1, <2>2, <2>3, <2>6 DEF SlotBecomes, u
  <1> HIDE DEF ends, settled, d
  <1> QED
    BY <1>1, <1>6, <1>8, EndsInv

\* With no entries there is nothing to reset.
LEMMA ClearNew == clear(pending_new) = pending_new
  <1>1. /\ pending_new.entries = <<>>
        /\ pending_new.by_slot = [i \in Index |-> EMPTY]
    BY DEF pending_new
  <1>2. clear(pending_new).by_slot = [i \in Index |-> EMPTY]
    BY <1>1 DEF clear
  <1>3. clear(pending_new) = [entries |-> <<>>, by_slot |-> clear(pending_new).by_slot]
    BY DEF clear
  <1> QED
    BY <1>2, <1>3 DEF pending_new

\* A wait that takes nothing.
LEMMA WaitFailsInv == ASSUME Inv, WaitFails PROVE Inv'
  <1>1. /\ UNCHANGED <<table, knotes, sources, queue, triggered, batch, notified>>
        /\ pending' = pending_new
    BY ClearNew DEF Inv, WaitFails
  <1>2. Reported(events')
    BY NoReportReported DEF WaitFails
  <1>3. (~Idle => ObservedBatch(table, batch))' /\ WakeKept'
    BY <1>1 DEF Inv, Idle, WakeKept, woke, raw
  <1> QED
    BY <1>1, <1>2, <1>3 DEF Inv

\* A source shows something else.
LEMMA SourceInv ==
    ASSUME Inv, NEW p \in Watchable, NEW s \in Sightings \cup {None},
           Source(p[1], p[2], s)
    PROVE  Inv'
  <1>1. /\ Idle
        /\ sources' = [sources EXCEPT ![<<p[1], p[2]>>] = s]
        /\ queue' = Refreshed(queue, knotes, sources', p[1])
        /\ UNCHANGED <<table, knotes, triggered, pending, batch, notified>>
        /\ NoReport
    BY DEF Source
  <1>2. p[1] \in Descriptors /\ p[2] \in Filters /\ s \in Sighting \cup {None}
    BY SourcesAssumption
  <1>3. /\ sources' \in [Places -> Sighting \cup {None}]
        /\ sources'[UserPlace] = None
    <2>1. <<p[1], p[2]>> \in Places /\ <<p[1], p[2]>> # UserPlace
      BY <1>2 DEF Places, UserPlace, Filters
    <2> QED
      BY <1>1, <1>2, <2>1 DEF Inv, Places
  <1>4. Queued(knotes', sources', queue')
    <2>1. queue \in Seq(Descriptors \X Filters) /\ OnceEach(queue)
      BY DEF Inv, Queued
    <2>2. Queued(knotes, sources', Refreshed(queue, knotes, sources', p[1]))
      BY <1>2, <2>1, RefreshedQueued
    <2> QED
      BY <1>1, <2>2
  <1>5. Idle' /\ WakeKept'
    BY <1>1 DEF Inv, Idle, WakeKept
  <1>6. Reported(events')
    BY <1>1, NoReportReported
  <1> QED
    BY <1>1, <1>3, <1>4, <1>5, <1>6 DEF Inv

\* A trigger whose receipt is good has been taken (Wake::wake).
LEMMA WakeInv == ASSUME Inv, wake PROVE Inv'
  <1> DEFINE trigger == <<Change(0, "User", "Trigger", 0)>>
  <1>1. PICK s \in Submissions(knotes, trigger) :
            /\ triggered' = (triggered \/ s.took # {})
            /\ notified' = (notified \/ exact(s.native, trigger, FALSE))
            /\ UNCHANGED <<table, knotes, sources, queue, pending, batch>>
            /\ NoReport
    <2> DEFINE ends == {[took |-> s.took # {}, ok |-> exact(s.native, trigger, FALSE)] :
                           s \in Submissions(knotes, trigger)}
    <2>1. PICK end \in ends :
            /\ triggered' = (triggered \/ end.took)
            /\ notified' = (notified \/ end.ok)
            /\ UNCHANGED <<table, knotes, sources, queue, pending, batch>>
            /\ NoReport
      BY Zenon DEF wake
    <2>2. PICK s \in Submissions(knotes, trigger) :
              end = [took |-> s.took # {}, ok |-> exact(s.native, trigger, FALSE)]
      BY <2>1, Zenon
    <2>3. end.took = (s.took # {}) /\ end.ok = exact(s.native, trigger, FALSE)
      BY <2>2, Zenon
    <2> HIDE DEF trigger
    <2> QED
      BY <2>1, <2>3, Zenon
  <1>2. /\ Len(trigger) \in Nat /\ 1 \in 1..Len(trigger)
        /\ trigger[1].action = "Trigger"
    BY DEF Change
  <1> HIDE DEF trigger
  <1>3. exact(s.native, trigger, FALSE) =>
           \A n \in 1..Len(trigger) :
               \/ n \in s.took
               \/ trigger[n].action \in {"Delete", "Disable"}
    BY <1>2, Submitted
  <1>4. exact(s.native, trigger, FALSE) => s.took # {}
    BY <1>2, <1>3
  <1>5. triggered' \in BOOLEAN /\ notified' \in BOOLEAN
    BY <1>1
  <1>6. WakeKept'
    <2>1. woke' = woke /\ Idle' = Idle
      BY <1>1 DEF woke, raw, Idle
    <2> QED
      BY <1>1, <1>4, <2>1 DEF Inv, WakeKept
  <1>7. (~Idle => ObservedBatch(table, batch))'
    BY <1>1 DEF Inv, Idle
  <1>8. Reported(events')
    BY <1>1, NoReportReported
  <1> QED
    BY <1>1, <1>5, <1>6, <1>7, <1>8 DEF Inv

\* A dropped knote fits whatever the table says.
LEMMA KnoteLostInv ==
    ASSUME Inv, NEW p \in Places, KnoteLost(p) PROVE Inv'
  <1>1. /\ p # UserPlace
        /\ knotes' = [knotes EXCEPT ![p] = Lost]
        /\ queue' = Only(queue, Places \ {p})
        /\ UNCHANGED <<table, sources, triggered, pending, batch, notified>>
        /\ NoReport
    BY DEF KnoteLost
  <1>2. KnotesTyped(knotes) /\ Agree(table, knotes) /\ Queued(knotes, sources, queue)
    BY DEF Inv
  <1>3. DOMAIN knotes = Places /\ \A q \in Places : knotes[q] \in Knote \cup {None, Lost}
    BY <1>2 DEF KnotesTyped
  <1>4. \A q \in Places : knotes'[q] = IF q = p THEN Lost ELSE knotes[q]
    BY <1>1, <1>3
  <1>5. KnotesTyped(knotes')
    <2>1. UserPlace \in Places
      BY DEF Places
    <2> QED
      BY <1>1, <1>2, <1>3, <2>1 DEF KnotesTyped
  <1>6. Agree(table, knotes')
    <2> DEFINE Here(c) == {j \in Index : /\ table.slots[j].entry # None
                                         /\ table.slots[j].entry.descriptor = c}
    <2>1. ASSUME NEW c \in Descriptors, NEW f \in Filters
          PROVE  /\ Here(c) = {} => Absent(knotes'[<<c, f>>])
                 /\ \A j \in Here(c) : Fits(encode(j, table.slots[j].generation),
                                            table.slots[j].entry, f,
                                            knotes'[<<c, f>>])
      <3>1. <<c, f>> \in Places
        BY DEF Places
      <3>2. /\ Here(c) = {} => Absent(knotes[<<c, f>>])
            /\ \A j \in Here(c) : Fits(encode(j, table.slots[j].generation),
                                       table.slots[j].entry, f, knotes[<<c, f>>])
        BY <1>2 DEF Agree
      <3> HIDE DEF Here
      <3>3. Absent(Lost) /\ \A id, e : Fits(id, e, f, Lost)
        BY DEF Absent, Fits
      <3> QED
        BY <1>4, <3>1, <3>2, <3>3
    <2> QED
      BY <2>1 DEF Agree
  <1>7. Queued(knotes', sources', queue')
    <2>1. \A n \in 1..Len(queue) : queue[n] \in Places
      BY <1>2 DEF Queued, Places
    <2>2. \A n \in 1..Len(queue) : queue[n] \in Places \ {p} =>
              Active(knotes', sources, queue[n])
      BY <1>2, <1>4, <2>1 DEF Queued, Active
    <2>3. Queued(knotes', sources, Only(queue, Places \ {p}))
      BY <1>2, <2>2, OnlyQueued DEF Queued
    <2> QED
      BY <1>1, <2>3
  <1>8. (~Idle => ObservedBatch(table, batch))' /\ WakeKept'
    BY <1>1 DEF Inv, Idle, WakeKept, woke, raw
  <1>9. Reported(events')
    BY <1>1, NoReportReported
  <1> QED
    BY <1>1, <1>5, <1>6, <1>7, <1>8, <1>9 DEF Inv

\* A new poller.
LEMMA InitInv == Init => Inv
  <1> SUFFICES ASSUME Init PROVE Inv
    OBVIOUS
  <1>1. TableInv(table) /\ \A i \in Index : table.slots[i].entry = None
    BY NewInv DEF Init, new, Unpushed
  <1>2. Apart(table)
    BY <1>1 DEF Apart
  <1>3. KnotesTyped(knotes) /\ \A d \in Descriptors : Bare(knotes, d)
    <2>1. [token |-> 0, enabled |-> TRUE] \in Knote
      BY DEF Knote
    <2>2. \A p \in Places : knotes[p] = IF p = UserPlace
                                       THEN [token |-> 0, enabled |-> TRUE]
                                       ELSE None
      BY DEF Init, SetUp
    <2>3. UserPlace \in Places /\ \A d \in Descriptors, f \in Filters :
              <<d, f>> \in Places /\ <<d, f>> # UserPlace
      BY DEF Places, UserPlace, Filters
    <2>4. knotes \in [Places -> Knote \cup {None, Lost}]
      BY <2>1 DEF Init, SetUp
    <2> QED
      BY <2>2, <2>3, <2>4 DEF KnotesTyped, Bare, Absent
  <1>4. Agree(table, knotes)
    BY <1>1, <1>3 DEF Agree, Bare
  <1>5. /\ sources \in [Places -> Sighting \cup {None}]
        /\ sources[UserPlace] = None
    BY DEF Init, Places
  <1>6. Queued(knotes, sources, queue)
    BY DEF Init, Queued, OnceEach
  <1>7. /\ triggered \in BOOLEAN /\ pending = pending_new /\ notified \in BOOLEAN
        /\ Idle /\ WakeKept /\ Reported(events)
    <2>1. triggered = FALSE /\ pending = pending_new /\ notified = FALSE /\ Idle
      BY DEF Init, Idle
    <2>2. Len(events) = 0 /\ Reported(events)
      BY CapacityAssumption DEF Init, Reported
    <2>3. WakeKept
      BY <2>1, Zenon DEF WakeKept
    <2> QED
      BY <2>1, <2>2, <2>3
  <1> QED
    BY <1>1, <1>2, <1>3, <1>4, <1>5, <1>6, <1>7 DEF Inv

\* A list all of whose members are in a smaller set.
LEMMA Retyped ==
    ASSUME NEW S, NEW R, NEW q \in Seq(S), \A k \in 1..Len(q) : q[k] \in R
    PROVE  q \in Seq(R)
  OBVIOUS

\* The kernel's record of a knote it reports (Kqueue::wait).
LEMMA RawKeventObserved ==
    ASSUME Inv, NEW p \in Places, p = UserPlace \/ Active(knotes, sources, p)
    PROVE  /\ RawKevent(p) \in RawRecord
           /\ Observed(table, RawKevent(p))
           /\ RawKevent(p).filter = p[2]
           /\ p = UserPlace => RawKevent(p).token = 0
  <1>1. /\ KnotesTyped(knotes) /\ Agree(table, knotes)
        /\ sources \in [Places -> Sighting \cup {None}]
    BY DEF Inv
  <1>2. knotes[p] \in Knote
    <2>1. CASE p = UserPlace
      <3>1. [token |-> 0, enabled |-> TRUE] \in Knote
        BY DEF Knote
      <3> QED
        BY <1>1, <2>1, <3>1 DEF KnotesTyped
    <2>2. CASE p # UserPlace
      <3>1. ~Absent(knotes[p]) /\ knotes[p] \in Knote \cup {None, Lost}
        BY <1>1, <2>2 DEF KnotesTyped, Active
      <3> QED
        BY <3>1 DEF Absent
    <2> QED
      BY <2>1, <2>2
  <1> DEFINE k == RawKevent(p)
  <1>3. /\ k.ident = p[1] /\ k.filter = p[2] /\ k.token = knotes[p].token
        /\ k.sighting = sources[p]
    BY DEF RawKevent
  <1>4. /\ p[1] \in Descriptors \cup {0} /\ p[2] \in Filters \cup {"User"}
        /\ knotes[p].token \in Nat /\ sources[p] \in Sighting \cup {None}
    BY <1>1, <1>2 DEF Places, UserPlace, Knote
  <1>5. k \in RawRecord
    BY <1>4 DEF RawKevent, RawRecord
  <1> HIDE DEF k
  <1>6. CASE p = UserPlace
    <2>1. k.filter = "User" /\ k.token = 0
      BY <1>1, <1>3, <1>6 DEF KnotesTyped, UserPlace
    <2> QED
      BY <1>3, <1>5, <2>1 DEF Observed, k
  <1>7. CASE p # UserPlace
    <2>1. p[1] \in Descriptors /\ p[2] \in Filters /\ p = <<p[1], p[2]>>
      BY <1>7 DEF Places
    <2>2. k.filter # "User"
      BY <1>3, <2>1 DEF Filters
    <2>3. k.sighting \in Sighting
      BY <1>1, <1>3, <1>7 DEF Active
    <2>4. ASSUME NEW i \in Index, table.slots[i].entry # None,
                 table.slots[i].entry.descriptor = k.ident,
                 table.slots[i].entry.state # "Uncertain"
          PROVE  /\ table.slots[i].entry.state = "Armed"
                 /\ k.token = encode(i, table.slots[i].generation)
      <3> DEFINE e == table.slots[i].entry
                 id == encode(i, table.slots[i].generation)
      <3>1. Fits(id, e, p[2], knotes[<<p[1], p[2]>>])
        BY <1>1, <1>3, <2>1, <2>4 DEF Agree
      <3> HIDE DEF e, id
      <3>2. ~Absent(knotes[p]) /\ knotes[p].enabled
        BY <1>7 DEF Active
      <3>3. /\ knotes[p].enabled = (e.state = "Armed")
            /\ knotes[p].enabled => knotes[p].token = id
        BY <2>1, <2>4, <3>1, <3>2, Zenon DEF Fits, e, Absent
      <3>4. e.state = "Armed" /\ knotes[p].token = id
        BY <3>2, <3>3, Zenon
      <3> QED
        BY <1>3, <3>4 DEF e, id
    <2> QED
      BY <1>3, <1>5, <1>7, <2>2, <2>3, <2>4 DEF Observed, k
  <1> QED
    BY <1>6, <1>7

\* What the first call of kevent takes goes back to the tail of the queue; the
\* wake does not.
LEMMA ObserveInv == ASSUME Inv, Observe PROVE Inv'
  <1> DEFINE reported == IF triggered THEN <<UserPlace>> \o queue ELSE queue
             n == Smaller(Len(reported), complete_observation_capacity)
             taken == SubSeq(reported, 1, n)
             rest == SubSeq(reported, n + 1, Len(reported))
             again == Only(taken, Places \ {UserPlace})
  <1>1. /\ Idle /\ pending' = clear(pending)
        /\ batch' = [k \in 1..n |-> RawKevent(taken[k])]
        /\ queue' = rest \o again
        /\ triggered' = FALSE
        /\ UNCHANGED <<table, knotes, sources, notified>>
        /\ NoReport
    BY DEF Observe
  <1>2. /\ queue \in Seq(Descriptors \X Filters) /\ OnceEach(queue)
        /\ \A k \in 1..Len(queue) : Active(knotes, sources, queue[k])
        /\ pending = pending_new /\ triggered \in BOOLEAN
    BY DEF Inv, Queued
  <1>3. /\ queue \in Seq(Places) /\ UserPlace \in Places
        /\ \A k \in 1..Len(queue) : queue[k] # UserPlace
    <2>1. Descriptors \X Filters \subseteq Places /\ UserPlace \in Places
      BY DEF Places
    <2>2. \A k \in 1..Len(queue) : queue[k] \in Descriptors \X Filters
      BY <1>2
    <2>3. UserPlace \notin Descriptors \X Filters
      BY DEF UserPlace, Filters
    <2> QED
      BY <1>2, <2>1, <2>2, <2>3, Retyped
  <1>4. /\ reported \in Seq(Places) /\ OnceEach(reported)
        /\ \A k \in 1..Len(reported) : \/ reported[k] = UserPlace
                                       \/ Active(knotes, sources, reported[k])
        /\ triggered => Len(reported) >= 1 /\ reported[1] = UserPlace
        /\ ~triggered => \A k \in 1..Len(reported) : reported[k] # UserPlace
    <2>1. CASE ~triggered
      BY <1>2, <1>3, <2>1
    <2>2. CASE triggered
      <3> DEFINE one == <<UserPlace>>
      <3>1. one \in Seq(Places) /\ Len(one) = 1 /\ one[1] = UserPlace
        BY <1>3
      <3> HIDE DEF one
      <3>2. OnceEach(one)
        BY <3>1 DEF OnceEach
      <3>3. \A j \in 1..Len(one) : \A k \in 1..Len(queue) : one[j] # queue[k]
        BY <1>3, <3>1
      <3>4. one \o queue \in Seq(Places) /\ OnceEach(one \o queue)
        BY <1>2, <1>3, <3>1, <3>2, <3>3, JoinedOnce
      <3>5. /\ Len(one \o queue) = Len(one) + Len(queue)
            /\ \A i \in 1..(Len(one) + Len(queue)) :
                  (one \o queue)[i] = IF i <= Len(one) THEN one[i]
                                      ELSE queue[i - Len(one)]
        BY <1>3, <3>1, ConcatProperties
      <3>6. reported = one \o queue
        BY <2>2 DEF one
      <3>7. Len(queue) \in Nat
        BY <1>3
      <3> HIDE DEF reported
      <3>8. /\ Len(reported) = Len(queue) + 1
            /\ reported[1] = UserPlace
            /\ \A i \in 1..Len(reported) : i # 1 => /\ i - 1 \in 1..Len(queue)
                                                    /\ reported[i] = queue[i - 1]
        BY <3>1, <3>5, <3>6, <3>7
      <3> QED
        BY <1>2, <2>2, <3>4, <3>6, <3>7, <3>8
    <2> QED
      BY <2>1, <2>2
  <1> HIDE DEF reported
  <1>5. /\ complete_observation_capacity \in Nat
        /\ complete_observation_capacity >= 1
    BY Limits DEF complete_observation_capacity
  <1>6. /\ n \in Nat /\ n <= Len(reported) /\ n <= complete_observation_capacity
        /\ n \in 0..complete_observation_capacity
        /\ Len(reported) \in Nat
        /\ triggered => n >= 1
    BY <1>4, <1>5 DEF Smaller
  <1> HIDE DEF n
  <1>7. /\ taken \in Seq(Places) /\ Len(taken) = n /\ OnceEach(taken)
        /\ \A k \in 1..n : taken[k] = reported[k] /\ taken[k] \in Places
    <2>1. /\ SubSeq(reported, 0 + 1, n) \in Seq(Places)
          /\ Len(SubSeq(reported, 0 + 1, n)) = n - 0
          /\ \A k \in 1..(n - 0) : SubSeq(reported, 0 + 1, n)[k] = reported[0 + k]
          /\ OnceEach(SubSeq(reported, 0 + 1, n))
      BY <1>4, <1>6, Piece
    <2>2. 0 + 1 = 1 /\ n - 0 = n /\ \A k \in 1..n : 0 + k = k
      BY <1>6
    <2>3. /\ taken \in Seq(Places) /\ Len(taken) = n /\ OnceEach(taken)
          /\ \A k \in 1..n : taken[k] = reported[k]
      BY <2>1, <2>2
    <2> HIDE DEF taken
    <2> QED
      BY <2>3
  <1>8. /\ rest \in Seq(Places) /\ Len(rest) = Len(reported) - n /\ OnceEach(rest)
        /\ \A k \in 1..Len(rest) : rest[k] = reported[n + k] /\ n + k \in 1..Len(reported)
    <2>1. /\ rest \in Seq(Places) /\ Len(rest) = Len(reported) - n
          /\ \A k \in 1..(Len(reported) - n) : rest[k] = reported[n + k]
          /\ OnceEach(rest)
      BY <1>4, <1>6, Piece
    <2> HIDE DEF rest
    <2> QED
      BY <1>6, <2>1
  <1>9. /\ again \in Seq(Places) /\ OnceEach(again)
        /\ \A x : Listed(again, x) <=> Listed(taken, x) /\ x \in Places \ {UserPlace}
    <2> HIDE DEF taken
    <2> QED
      BY <1>7, OnlyKept, Zenon
  <1> HIDE DEF taken, rest, again
  <1>10. \A k \in 1..Len(again) : \E m \in 1..n : /\ again[k] = reported[m]
                                                  /\ again[k] # UserPlace
    BY <1>7, <1>9 DEF Listed
  <1>11. \A k \in 1..Len(rest) : rest[k] # UserPlace
    <2>1. CASE triggered
      BY <1>4, <1>6, <1>8, <2>1 DEF OnceEach
    <2>2. CASE ~triggered
      BY <1>4, <1>8, <2>2
    <2> QED
      BY <2>1, <2>2
  <1>12. Queued(knotes', sources', queue')
    <2>1. \A j \in 1..Len(rest) : \A k \in 1..Len(again) : rest[j] # again[k]
      <3> TAKE j \in 1..Len(rest)
      <3> TAKE k \in 1..Len(again)
      <3>1. PICK m \in 1..n : again[k] = reported[m]
        BY <1>10
      <3>2. m \in 1..Len(reported) /\ n + j \in 1..Len(reported) /\ n + j # m
        BY <1>6, <1>8, <3>1
      <3> QED
        BY <1>4, <1>8, <3>1, <3>2 DEF OnceEach
    <2>2. rest \o again \in Seq(Places) /\ OnceEach(rest \o again)
      BY <1>8, <1>9, <2>1, JoinedOnce
    <2>3. /\ Len(rest \o again) = Len(rest) + Len(again)
          /\ \A i \in 1..(Len(rest) + Len(again)) :
                (rest \o again)[i] = IF i <= Len(rest) THEN rest[i]
                                     ELSE again[i - Len(rest)]
      BY <1>8, <1>9, ConcatProperties
    <2>4. Len(rest) \in Nat /\ Len(again) \in Nat
      BY <1>8, <1>9
    <2>5. ASSUME NEW i \in 1..Len(rest \o again)
          PROVE  /\ (rest \o again)[i] # UserPlace
                 /\ Active(knotes, sources, (rest \o again)[i])
      <3> DEFINE x == (rest \o again)[i]
      <3>1. x # UserPlace /\ \E m \in 1..Len(reported) : x = reported[m]
        <4>1. CASE i <= Len(rest)
          BY <1>8, <1>11, <2>3, <2>4, <4>1
        <4>2. CASE ~(i <= Len(rest))
          <5>1. i - Len(rest) \in 1..Len(again) /\ x = again[i - Len(rest)]
            BY <2>3, <2>4, <4>2
          <5>2. \A m \in 1..n : m \in 1..Len(reported)
            BY <1>6
          <5> HIDE DEF x
          <5> QED
            BY <1>10, <5>1, <5>2
        <4> QED
          BY <4>1, <4>2
      <3> HIDE DEF x
      <3>2. Active(knotes, sources, x)
        BY <1>4, <3>1
      <3> QED
        BY <3>1, <3>2 DEF x
    <2>6. \A i \in 1..Len(rest \o again) : (rest \o again)[i] \in Descriptors \X Filters
      BY <2>2, <2>5 DEF Places
    <2>7. rest \o again \in Seq(Descriptors \X Filters)
      BY <2>2, <2>6, Retyped
    <2> QED
      BY <1>1, <2>2, <2>5, <2>7 DEF Queued
  <1>13. \A k \in 1..n : /\ batch'[k] = RawKevent(taken[k])
                         /\ RawKevent(taken[k]) \in RawRecord
                         /\ Observed(table, RawKevent(taken[k]))
                         /\ taken[k] = UserPlace =>
                               batch'[k].filter = "User" /\ batch'[k].token = 0
    <2> TAKE k \in 1..n
    <2>1. batch'[k] = RawKevent(taken[k])
      BY <1>1
    <2>2. \/ taken[k] = UserPlace
          \/ Active(knotes, sources, taken[k])
      <3>1. k \in 1..Len(reported)
        BY <1>6
      <3> QED
        BY <1>4, <1>7, <3>1
    <2>3. taken[k] \in Places
      BY <1>7
    <2> DEFINE p == taken[k]
    <2> HIDE DEF p
    <2>4. /\ RawKevent(p) \in RawRecord
          /\ Observed(table, RawKevent(p))
          /\ RawKevent(p).filter = p[2]
          /\ p = UserPlace => RawKevent(p).token = 0
      BY <2>2, <2>3, RawKeventObserved DEF p
    <2>5. p = UserPlace => p[2] = "User"
      BY DEF UserPlace
    <2> QED
      BY <2>1, <2>4, <2>5 DEF p
  <1>14. ObservedBatch(table', batch') /\ batch' \in [1..n -> RawRecord]
    BY <1>1, <1>6, <1>13 DEF ObservedBatch
  <1>15. batch' # None
    BY <1>6, <1>14, BatchAssumption
  <1>16. WakeKept'
    <2>1. CASE triggered
      <3>1. 1 \in 1..n /\ taken[1] = UserPlace
        BY <1>4, <1>6, <1>7, <2>1
      <3>2. batch'[1].filter = "User" /\ batch'[1].token = 0
        BY <1>13, <3>1
      <3>3. raw(1)' = RawControl
        BY <3>2 DEF raw
      <3>4. raw(1)'.control
        BY <3>3 DEF RawControl
      <3>5. Len(batch') = n
        BY <1>1, <1>6
      <3>6. woke'
        BY <3>1, <3>4, <3>5 DEF woke
      <3> QED
        BY <1>15, <3>6 DEF WakeKept, Idle
    <2>2. CASE ~triggered
      BY <1>1, <2>2 DEF Inv, WakeKept
    <2> QED
      BY <2>1, <2>2
  <1>17. pending' = pending_new /\ triggered' \in BOOLEAN
    BY <1>1, <1>2, ClearNew
  <1>18. Reported(events')
    BY <1>1, NoReportReported
  <1> QED
    BY <1>1, <1>12, <1>14, <1>16, <1>17, <1>18 DEF Inv

------------------------------------------------------------------------------
(* The batch, coalesced.                                                   *)

Armed(i) == table.slots[i].entry # None /\ table.slots[i].entry.state = "Armed"

\* The id of an armed registration, along the lookups.
LEMMA ArmedId ==
    ASSUME Inv, NEW i \in Index, Armed(i)
    PROVE  /\ IdOf(i) \in Nat /\ ~DecodesStale(IdOf(i))
           /\ decode(IdOf(i)).index = i
           /\ entry(table, IdOf(i)) = table.slots[i].entry
           /\ table.slots[i].entry \in Entry
           /\ binding(table, IdOf(i), FALSE) = "Ok"
  <1>1. TableInv(table) /\ table.slots[i].entry # None
    BY DEF Inv, Armed
  <1> DEFINE g == table.slots[i].generation
  <1>2. table.slots[i].entry \in Entry /\ g \in 1..MAX_GENERATION /\ IdOf(i) \in Nat
    BY <1>1, Occupies DEF IdOf
  <1>3. ~DecodesStale(IdOf(i)) /\ decode(IdOf(i)).index = i
    BY <1>2, Unpacks DEF IdOf
  <1>4. IsLive(table, IdOf(i)) /\ entry(table, IdOf(i)) = table.slots[i].entry
    BY <1>1, <1>2, Lookup DEF IdOf
  <1>5. binding(table, IdOf(i), FALSE) = "Ok"
    BY <1>4 DEF binding, Armed
  <1> QED
    BY <1>2, <1>3, <1>4, <1>5

\* Two armed registrations have different ids.
LEMMA ArmedApart ==
    ASSUME Inv, NEW i \in Index, NEW j \in Index, Armed(i), Armed(j), IdOf(i) = IdOf(j)
    PROVE  i = j
  BY ArmedId

\* The batch is a list of native records, each as the table knows it.
LEMMA BatchShape ==
    ASSUME Inv, ~Idle
    PROVE  /\ Len(batch) \in Nat
           /\ \A m \in 1..Len(batch) : /\ batch[m] \in RawRecord
                                       /\ Observed(table, batch[m])
  <1>1. PICK n \in 0..complete_observation_capacity :
            /\ batch \in [1..n -> RawRecord]
            /\ \A k \in 1..n : Observed(table, batch[k])
    BY DEF Inv, ObservedBatch
  <1>2. complete_observation_capacity \in Nat
    BY Limits DEF complete_observation_capacity
  <1>3. n \in Nat
    BY <1>1, <1>2
  <1>4. Len(batch) = n
    BY <1>1, <1>3
  <1> QED
    BY <1>1, <1>3, <1>4

\* What a knote says becomes hints.
LEMMA HintsTyped ==
    ASSUME NEW k, k.filter \in Filters, k.sighting \in Sighting
    PROVE  from_kqueue_event(k) \in Readiness
  <1>1. k.sighting.eof \in BOOLEAN
    BY DEF Sighting
  <1>2. k.filter = "Read" \/ k.filter = "Write"
    BY DEF Filters
  <1> DEFINE closed == CASE ~k.sighting.eof -> {}
                [] k.sighting.eof /\ k.filter = "Read" -> {"READ_CLOSED"}
                [] k.sighting.eof /\ k.filter = "Write" -> {"WRITE_CLOSED"}
                [] OTHER -> {"ERROR"}
             shown == CASE k.filter = "Read" -> {"READABLE"}
                [] k.filter = "Write" -> {"WRITABLE"}
                [] OTHER -> {"ERROR"}
  <1>2a. shown = {"READABLE"} \/ shown = {"WRITABLE"}
    BY <1>2
  <1>3. closed = {} \/ closed = {"READ_CLOSED"} \/ closed = {"WRITE_CLOSED"}
    BY <1>1, <1>2
  <1>4. from_kqueue_event(k) =
            shown
                \cup closed
                \cup (IF \/ k.sighting.native_error
                         \/ k.sighting.eof /\ k.sighting.fflags
                      THEN {"ERROR"} ELSE {})
    BY DEF from_kqueue_event
  <1> HIDE DEF closed, shown
  <1> QED
    BY <1>2a, <1>3, <1>4 DEF Readiness

\* A record that counts carries the id of an armed registration.
LEMMA CountsArmed ==
    ASSUME Inv, ~Idle, NEW m \in 1..Len(batch), Counts(raw(m))
    PROVE  /\ raw(m).readiness \in Readiness
           /\ \E i \in Index : Armed(i) /\ raw(m).token = IdOf(i)
  <1> DEFINE k == batch[m]
  <1>1. k \in RawRecord /\ Observed(table, k)
    BY BatchShape
  <1>2. k.filter \in Filters \cup {"User"} /\ k.token \in Nat
    BY <1>1 DEF RawRecord
  <1>3. raw(m) = IF k.filter = "User" /\ k.token = 0 THEN RawControl
                 ELSE Resource(k.token, k.ident, from_kqueue_event(k))
    BY DEF raw
  <1>4. ~(k.filter = "User" /\ k.token = 0)
    <2>1. ~raw(m).control
      BY DEF Counts
    <2> QED
      BY <1>3, <2>1 DEF RawControl
  <1> HIDE DEF k
  <1>5. k.filter # "User" /\ k.filter \in Filters
    BY <1>1, <1>2, <1>4 DEF Observed
  <1>6. /\ raw(m).token = k.token /\ raw(m).descriptor = k.ident
        /\ raw(m).readiness = from_kqueue_event(k)
    BY <1>3, <1>4 DEF Resource
  <1>7. /\ k.sighting \in Sighting
        /\ \A i \in Index :
               /\ table.slots[i].entry # None
               /\ table.slots[i].entry.descriptor = k.ident
               /\ table.slots[i].entry.state # "Uncertain"
               => /\ table.slots[i].entry.state = "Armed"
                  /\ k.token = encode(i, table.slots[i].generation)
    BY <1>1, <1>5 DEF Observed
  <1>8. raw(m).readiness \in Readiness
    BY <1>5, <1>6, <1>7, HintsTyped
  <1> DEFINE i == decode(k.token).index
  <1>9. /\ ~DecodesStale(k.token) /\ i < table.len
        /\ table.slots[i].entry # None
        /\ table.slots[i].entry.descriptor = k.ident
        /\ table.slots[i].entry.state # "Uncertain"
    BY <1>6 DEF Counts, Resolves, IsLive, Occupied, entry
  <1>10. i \in Index
    <2>1. table.len \in 0..Limit
      BY DEF Inv, TableInv, Table
    <2>2. Radix \in Nat /\ Radix > 0
      BY Limits DEF Radix
    <2>3. k.token % Radix \in 0..(Radix - 1) /\ k.token % Radix # 0
      BY <1>2, <1>9, <2>2 DEF DecodesStale
    <2>4. i = (k.token % Radix) - 1
      BY DEF decode
    <2> QED
      BY <1>9, <2>1, <2>2, <2>3, <2>4, Limits
  <1> HIDE DEF i
  <1>11. Armed(i) /\ k.token = IdOf(i)
    BY <1>7, <1>9, <1>10 DEF Armed, IdOf
  <1> QED
    BY <1>6, <1>8, <1>10, <1>11

PendingEntry == [registration : Nat, key : Keys, readiness : Readiness]
Pending == [entries : Seq(PendingEntry), by_slot : [Index -> 0..U32Max]]

\* Entries of armed registrations, where by_slot says and nowhere else.
EntryOf(p, k, i) == /\ Armed(i)
                    /\ p.entries[k].registration = IdOf(i)
                    /\ p.by_slot[i] = k - 1
Placed(p) ==
    /\ p \in Pending
    /\ Len(p.entries) <= EventCapacity
    /\ \A k \in 1..Len(p.entries) : \E i \in Index : EntryOf(p, k, i)
    /\ \A i \in Index : p.by_slot[i] # EMPTY =>
          \E k \in 1..Len(p.entries) : EntryOf(p, k, i)

\* No registration has two entries.
LEMMA PlacedOnce ==
    ASSUME Inv, NEW p, Placed(p),
           NEW j \in 1..Len(p.entries), NEW k \in 1..Len(p.entries),
           p.entries[j].registration = p.entries[k].registration
    PROVE  j = k
  <1>1. PICK a \in Index : EntryOf(p, j, a)
    BY DEF Placed
  <1>2. PICK b \in Index : EntryOf(p, k, b)
    BY DEF Placed
  <1>3. a = b
    BY <1>1, <1>2, ArmedApart DEF EntryOf
  <1>4. Len(p.entries) \in Nat
    BY DEF Placed, Pending
  <1> QED
    BY <1>1, <1>2, <1>3, <1>4 DEF EntryOf

\* A list of different numbers below m is no longer than m.
LEMMA NoMoreThan ==
    ASSUME NEW n \in Nat, NEW m \in Nat, NEW at \in [1..n -> 0..(m - 1)],
           \A j, k \in 1..n : at[j] = at[k] => j = k
    PROVE  n <= m
  <1>1. IsFiniteSet(0..(m - 1)) /\ Cardinality(0..(m - 1)) = m
    BY FS_Interval, 0 \in Int, m - 1 \in Int
  <1>2. at \in Injection(1..n, 0..(m - 1))
    BY DEF Injection, IsInjective
  <1>3. Cardinality(1..n) <= Cardinality(0..(m - 1))
    BY <1>1, <1>2, FS_Injection
  <1>4. Cardinality(1..n) = n
    <2>1. 1 \in Int /\ n \in Int
      OBVIOUS
    <2>2. Cardinality(1..n) = IF 1 > n THEN 0 ELSE n - 1 + 1
      BY <2>1, FS_Interval
    <2> QED
      BY <2>2
  <1> QED
    BY <1>1, <1>3, <1>4

\* A pending batch has at most one entry for each slot.
LEMMA PlacedRoom ==
    ASSUME Inv, NEW p, Placed(p)
    PROVE  /\ Len(p.entries) <= Limit
           /\ \A i \in Index : p.by_slot[i] = EMPTY => Len(p.entries) < Limit
  <1> DEFINE n == Len(p.entries)
             at == [k \in 1..n |-> CHOOSE i \in Index : EntryOf(p, k, i)]
  <1>1. n \in Nat
    BY DEF Placed, Pending
  <1> HIDE DEF n
  <1>2. \A k \in 1..n : at[k] \in Index /\ EntryOf(p, k, at[k])
    BY DEF Placed, n
  <1>3. at = [k \in 1..n |-> at[k]]
    OBVIOUS
  <1> HIDE DEF at
  <1>4. \A j, k \in 1..n : at[j] = at[k] => j = k
    BY <1>1, <1>2 DEF EntryOf
  <1>5. n <= Limit
    <2>1. at \in [1..n -> Index]
      BY <1>2, <1>3
    <2> QED
      BY <1>1, <1>4, <2>1, Limits, NoMoreThan DEF Index
  <1>6. ASSUME NEW i \in Index, p.by_slot[i] = EMPTY PROVE n < Limit
    <2> DEFINE more == [k \in 1..(n + 1) |-> IF k = n + 1 THEN i ELSE at[k]]
    <2>1. \A k \in 1..n : at[k] # i
      <3>1. \A k \in 1..n : k - 1 < U32Max
        BY <1>1, <1>5, Limits
      <3>2. ASSUME NEW k \in 1..n, at[k] = i PROVE FALSE
        <4>1. p.by_slot[i] = k - 1
          BY <1>2, <3>2 DEF EntryOf
        <4>2. k - 1 = U32Max
          BY <1>6, <4>1 DEF EMPTY
        <4> QED
          BY <1>1, <3>1, <4>2, Limits
      <3> QED
        BY <3>2
    <2>2. more \in [1..(n + 1) -> Index]
      BY <1>1, <1>2
    <2>3. \A j, k \in 1..(n + 1) : more[j] = more[k] => j = k
      BY <1>1, <1>4, <2>1
    <2>4. n + 1 \in Nat
      BY <1>1
    <2>5. n + 1 <= Limit
      <3> HIDE DEF more
      <3> QED
        BY <2>2, <2>3, <2>4, Limits, NoMoreThan DEF Index
    <2> QED
      BY <1>1, <2>5, Limits
  <1> QED
    BY <1>5, <1>6 DEF n

\* What add does to the entries: hints of a member are joined to it, a batch
\* that is full takes no new member, one that is not takes it at its end.
Joined(es, fs, id, r) ==
    \E k \in 1..Len(es) :
        /\ es[k].registration = id
        /\ Len(fs) = Len(es)
        /\ \A j \in 1..Len(es) :
              /\ fs[j].registration = es[j].registration
              /\ fs[j].readiness = IF j = k THEN es[j].readiness \cup r
                                            ELSE es[j].readiness
Dropped(es, fs, id, r) ==
    /\ \A k \in 1..Len(es) : es[k].registration # id
    /\ fs = es
    /\ Len(es) = EventCapacity
Opened(es, fs, id, r) ==
    /\ \A k \in 1..Len(es) : es[k].registration # id
    /\ Len(fs) = Len(es) + 1
    /\ \A k \in 1..Len(es) : fs[k] = es[k]
    /\ fs[Len(es) + 1].registration = id
    /\ fs[Len(es) + 1].readiness = r

\* KqueuePending::add is never refused, and keeps every entry where by_slot says.
LEMMA AddEnds ==
    ASSUME Inv, NEW p, Placed(p), NEW i \in Index, Armed(i),
           NEW key \in Keys, NEW r \in Readiness
    PROVE  LET id == IdOf(i)
               q == add(p, id, key, r)
           IN  /\ ~AddRefused(p, id)
               /\ Placed(q)
               /\ \/ Joined(p.entries, q.entries, id, r)
                  \/ Dropped(p.entries, q.entries, id, r)
                  \/ Opened(p.entries, q.entries, id, r)
  <1> DEFINE id == IdOf(i)
             es == p.entries
             q == add(p, id, key, r)
  <1>1. id \in Nat /\ ~DecodesStale(id) /\ decode(id).index = i
    BY ArmedId
  <1> HIDE DEF id
  <1>2. /\ p \in Pending /\ es \in Seq(PendingEntry) /\ Len(es) \in Nat
        /\ p.by_slot \in [Index -> 0..U32Max]
        /\ Len(es) <= EventCapacity
        /\ \A k \in 1..Len(es) : es[k] \in PendingEntry
    BY DEF Placed, Pending
  <1>3. CASE p.by_slot[i] # EMPTY
    <2>1. PICK k \in 1..Len(es) : EntryOf(p, k, i)
      BY <1>3 DEF Placed
    <2>2. /\ p.by_slot[i] = k - 1 /\ p.by_slot[i] + 1 = k
          /\ es[k].registration = id /\ k \in Nat /\ k <= Len(es)
      BY <1>2, <2>1 DEF EntryOf, id
    <2>3. ~AddRefused(p, id)
      BY <1>1, <1>2, <2>2 DEF AddRefused
    <2> DEFINE new_entry == [es[k] EXCEPT !.readiness = @ \cup r]
               fs == [es EXCEPT ![k] = new_entry]
    <2>4. q = [p EXCEPT !.entries = fs]
      <3> DEFINE x == p.by_slot[i] + 1
      <3>1. q = [p EXCEPT !.entries =
                    [es EXCEPT ![x] = [es[x] EXCEPT !.readiness = @ \cup r]]]
        BY <1>1, <1>3 DEF add
      <3>2. x = k
        BY <2>2
      <3> HIDE DEF x, q
      <3> QED
        BY <3>1, <3>2
    <2>5. /\ new_entry \in PendingEntry
          /\ new_entry.registration = es[k].registration
          /\ new_entry.readiness = es[k].readiness \cup r
      <3>1. es[k] \in PendingEntry
        BY <1>2, <2>1
      <3>2. es[k].readiness \cup r \in Readiness
        BY <3>1 DEF PendingEntry, Readiness
      <3> QED
        BY <3>1, <3>2 DEF PendingEntry
    <2> HIDE DEF new_entry
    <2>6. /\ fs \in Seq(PendingEntry) /\ Len(fs) = Len(es)
          /\ \A j \in 1..Len(es) : fs[j] = IF j = k THEN new_entry ELSE es[j]
      BY <1>2, <2>1, <2>5
    <2> HIDE DEF fs
    <2>7. q \in Pending /\ q.entries = fs /\ q.by_slot = p.by_slot
      BY <1>2, <2>4, <2>6 DEF Pending
    <2>8. \A j \in 1..Len(es) : \A a : EntryOf(p, j, a) => EntryOf(q, j, a)
      BY <2>5, <2>6, <2>7 DEF EntryOf
    <2>9. Placed(q)
      BY <1>2, <2>6, <2>7, <2>8 DEF Placed
    <2>10. Joined(es, fs, id, r)
      BY <2>1, <2>2, <2>5, <2>6 DEF Joined
    <2> QED
      BY <2>3, <2>7, <2>9, <2>10 DEF id
  <1>4. CASE p.by_slot[i] = EMPTY
    <2>1. ~AddRefused(p, id)
      BY <1>1, <1>4 DEF AddRefused
    <2>2. \A k \in 1..Len(es) : es[k].registration # id
      <3> SUFFICES ASSUME NEW k \in 1..Len(es), es[k].registration = id PROVE FALSE
        OBVIOUS
      <3>1. PICK a \in Index : EntryOf(p, k, a)
        BY DEF Placed
      <3>2. a = i
        BY <3>1, ArmedApart DEF EntryOf, id
      <3>3. k - 1 = U32Max
        BY <1>4, <3>1, <3>2 DEF EntryOf, EMPTY
      <3>4. Len(es) <= Limit
        BY PlacedRoom
      <3> QED
        BY <1>2, <3>3, <3>4, Limits
    <2>3. CASE Len(es) >= EventCapacity
      <3>1. q = p
        BY <1>1, <1>4, <2>3 DEF add
      <3>2. Len(es) = EventCapacity
        BY <1>2, <2>3, CapacityAssumption
      <3>3. Dropped(es, q.entries, id, r)
        BY <2>2, <3>1, <3>2 DEF Dropped
      <3> QED
        BY <2>1, <3>1, <3>3 DEF id
    <2>4. CASE ~(Len(es) >= EventCapacity)
      <3> DEFINE e == [registration |-> id, key |-> key, readiness |-> r]
                 fs == Append(es, e)
                 by == [p.by_slot EXCEPT ![i] = Len(es)]
      <3>1. q = [entries |-> fs, by_slot |-> by]
        BY <1>1, <1>4, <2>4 DEF add
      <3>2. e \in PendingEntry /\ e.registration = id /\ e.readiness = r
        BY <1>1 DEF PendingEntry
      <3> HIDE DEF e
      <3>3. /\ fs \in Seq(PendingEntry) /\ Len(fs) = Len(es) + 1
            /\ \A k \in 1..Len(es) : fs[k] = es[k]
            /\ fs[Len(es) + 1] = e
        BY <1>2, <3>2, AppendProperties
      <3>4. Len(es) < Limit /\ Len(es) \in 0..U32Max /\ Len(es) # EMPTY
        <4>1. Len(es) < Limit
          BY <1>4, PlacedRoom
        <4> QED
          BY <1>2, <4>1, Limits DEF EMPTY
      <3>5. /\ by \in [Index -> 0..U32Max]
            /\ \A j \in Index : by[j] = IF j = i THEN Len(es) ELSE p.by_slot[j]
        BY <1>2, <3>4
      <3> HIDE DEF fs, by
      <3>6. q \in Pending /\ q.entries = fs /\ q.by_slot = by
        BY <3>1, <3>3, <3>5 DEF Pending
      <3>7. EntryOf(q, Len(es) + 1, i) /\ Len(es) + 1 \in 1..Len(fs)
        <4>1. (Len(es) + 1) - 1 = Len(es) /\ Len(es) + 1 \in 1..Len(fs)
          BY <1>2, <3>3
        <4> QED
          BY <3>2, <3>3, <3>5, <3>6, <4>1 DEF EntryOf, id
      <3>8. \A k \in 1..Len(es) : \A a \in Index : EntryOf(p, k, a) =>
                a # i /\ EntryOf(q, k, a) /\ k \in 1..Len(fs)
        <4> TAKE k \in 1..Len(es)
        <4> TAKE a \in Index
        <4> HAVE EntryOf(p, k, a)
        <4>1. a # i
          BY <2>2 DEF EntryOf, id
        <4>2. k \in 1..Len(fs)
          BY <1>2, <3>3
        <4> QED
          BY <3>3, <3>5, <3>6, <4>1, <4>2 DEF EntryOf
      <3>9. ASSUME NEW k \in 1..Len(fs) PROVE \E a \in Index : EntryOf(q, k, a)
        <4>1. CASE k = Len(es) + 1
          BY <3>7, <4>1
        <4>2. CASE k # Len(es) + 1
          <5>1. k \in 1..Len(es)
            BY <1>2, <3>3, <4>2
          <5> QED
            BY <3>8, <5>1 DEF Placed
        <4> QED
          BY <4>1, <4>2
      <3>10. ASSUME NEW a \in Index, q.by_slot[a] # EMPTY
             PROVE  \E k \in 1..Len(fs) : EntryOf(q, k, a)
        <4>1. CASE a = i
          BY <3>7, <4>1
        <4>2. CASE a # i
          <5>1. p.by_slot[a] # EMPTY
            BY <3>5, <3>6, <3>10, <4>2
          <5>2. PICK k \in 1..Len(es) : EntryOf(p, k, a)
            BY <5>1 DEF Placed
          <5> QED
            BY <3>8, <5>2
        <4> QED
          BY <4>1, <4>2
      <3>11. Len(fs) <= EventCapacity
        BY <1>2, <2>4, <3>3, CapacityAssumption
      <3>12. Placed(q)
        BY <3>6, <3>9, <3>10, <3>11 DEF Placed
      <3>13. Opened(es, fs, id, r)
        BY <2>2, <3>2, <3>3 DEF Opened
      <3> QED
        BY <2>1, <3>6, <3>12, <3>13 DEF id
    <2> QED
      BY <2>3, <2>4
  <1> QED
    BY <1>3, <1>4

\* The records up to n that count for id: c is the set of those that count,
\* tok and rd are what they carry.
Of(c, tok, n, id) == {m \in 1..n : m \in c /\ tok[m] = id}

\* An entry has the hints of all its records.
Hinted(c, tok, rd, n, es) ==
    \A k \in 1..Len(es) : \A h :
        h \in es[k].readiness <=>
            \E m \in Of(c, tok, n, es[k].registration) : h \in rd[m]

\* Entries are in the order of their first records; a registration without an
\* entry was first seen when there was no room left.
FirstAt(c, tok, n, es, first) ==
    /\ \A k \in 1..Len(es) :
          /\ first[k] \in Of(c, tok, n, es[k].registration)
          /\ \A m \in Of(c, tok, n, es[k].registration) : first[k] <= m
    /\ \A j, k \in 1..Len(es) : j < k => first[j] < first[k]
    /\ \A m \in 1..n : m \in c =>
          \/ \E k \in 1..Len(es) : es[k].registration = tok[m]
          \/ Len(es) = EventCapacity /\ \A k \in 1..Len(es) : first[k] < m
Ordered(c, tok, n, es) ==
    \E first \in [1..Len(es) -> 1..n] : FirstAt(c, tok, n, es, first)

\* A record that does not count changes nothing.
LEMMA SkipOrdered ==
    ASSUME NEW c, NEW tok, NEW rd, NEW n \in Nat, NEW es, Len(es) \in Nat,
           Hinted(c, tok, rd, n, es), Ordered(c, tok, n, es), n + 1 \notin c
    PROVE  Hinted(c, tok, rd, n + 1, es) /\ Ordered(c, tok, n + 1, es)
  <1>1. \A id : Of(c, tok, n + 1, id) = Of(c, tok, n, id)
    BY DEF Of
  <1>2. PICK first \in [1..Len(es) -> 1..n] : FirstAt(c, tok, n, es, first)
    BY DEF Ordered
  <1>3. \A m \in 1..(n + 1) : m \in c => m \in 1..n
    OBVIOUS
  <1>4. FirstAt(c, tok, n + 1, es, first)
    BY <1>1, <1>2, <1>3 DEF FirstAt
  <1>5. first \in [1..Len(es) -> 1..(n + 1)]
    BY <1>2
  <1> QED
    BY <1>1, <1>4, <1>5 DEF Hinted, Ordered

\* One more record for id.
LEMMA OneMore ==
    ASSUME NEW c, NEW tok, NEW n \in Nat, n + 1 \in c
    PROVE  LET id == tok[n + 1]
           IN  /\ Of(c, tok, n + 1, id) = Of(c, tok, n, id) \cup {n + 1}
               /\ \A x : x # id => Of(c, tok, n + 1, x) = Of(c, tok, n, x)
               /\ \A x : \A m \in Of(c, tok, n, x) : m <= n
  BY DEF Of

\* A record that counts, added: hints are joined, order of first sight kept.
LEMMA AddOrdered ==
    ASSUME NEW c, NEW tok, NEW rd, NEW n \in Nat, NEW es, Len(es) \in Nat,
           Hinted(c, tok, rd, n, es), Ordered(c, tok, n, es),
           \A j, k \in 1..Len(es) : es[j].registration = es[k].registration => j = k,
           n + 1 \in c, NEW id, tok[n + 1] = id, NEW r, rd[n + 1] = r,
           NEW fs, Len(fs) \in Nat, Len(fs) <= EventCapacity,
           \/ Joined(es, fs, id, r)
           \/ Dropped(es, fs, id, r)
           \/ Opened(es, fs, id, r)
    PROVE  Hinted(c, tok, rd, n + 1, fs) /\ Ordered(c, tok, n + 1, fs)
  <1>1. /\ Of(c, tok, n + 1, id) = Of(c, tok, n, id) \cup {n + 1}
        /\ \A x : x # id => Of(c, tok, n + 1, x) = Of(c, tok, n, x)
        /\ \A x : \A m \in Of(c, tok, n, x) : m <= n
    <2> DEFINE a == tok[n + 1]
    <2>1. a = id
      OBVIOUS
    <2>2. /\ Of(c, tok, n + 1, a) = Of(c, tok, n, a) \cup {n + 1}
          /\ \A x : x # a => Of(c, tok, n + 1, x) = Of(c, tok, n, x)
          /\ \A x : \A m \in Of(c, tok, n, x) : m <= n
      BY OneMore
    <2> HIDE DEF a
    <2> QED
      BY <2>1, <2>2, Zenon
  <1>2. PICK first \in [1..Len(es) -> 1..n] : FirstAt(c, tok, n, es, first)
    BY DEF Ordered
  <1>3. EventCapacity \in Nat
    BY CapacityAssumption
  <1>4. ASSUME Joined(es, fs, id, r)
        PROVE  Hinted(c, tok, rd, n + 1, fs) /\ Ordered(c, tok, n + 1, fs)
    <2>1. PICK k \in 1..Len(es) :
            /\ es[k].registration = id
            /\ Len(fs) = Len(es)
            /\ \A j \in 1..Len(es) :
                  /\ fs[j].registration = es[j].registration
                  /\ fs[j].readiness = IF j = k THEN es[j].readiness \cup r
                                                ELSE es[j].readiness
      BY <1>4 DEF Joined
    <2>2. \A j \in 1..Len(es) : j # k => es[j].registration # id
      BY <2>1
    <2>3. ASSUME NEW j \in 1..Len(fs), NEW h
          PROVE  h \in fs[j].readiness <=>
                    \E m \in Of(c, tok, n + 1, fs[j].registration) : h \in rd[m]
      <3>1. h \in es[j].readiness <=>
                \E m \in Of(c, tok, n, es[j].registration) : h \in rd[m]
        BY <2>1 DEF Hinted
      <3>2. CASE j = k
        <4>1. /\ fs[j].registration = id /\ es[j].registration = id
              /\ fs[j].readiness = es[j].readiness \cup r
          BY <2>1, <3>2
        <4> QED
          BY <1>1, <3>1, <4>1
      <3>3. CASE j # k
        BY <1>1, <2>1, <2>2, <3>1, <3>3
      <3> QED
        BY <3>2, <3>3
    <2>4. ASSUME NEW j \in 1..Len(fs)
          PROVE  /\ first[j] \in Of(c, tok, n + 1, fs[j].registration)
                 /\ \A m \in Of(c, tok, n + 1, fs[j].registration) : first[j] <= m
      <3>1. /\ first[j] \in Of(c, tok, n, es[j].registration)
            /\ \A m \in Of(c, tok, n, es[j].registration) : first[j] <= m
            /\ first[j] \in 1..n
        BY <1>2, <2>1 DEF FirstAt
      <3>2. first[j] <= n + 1
        BY <3>1
      <3>3. CASE j = k
        BY <1>1, <2>1, <3>1, <3>2, <3>3
      <3>4. CASE j # k
        BY <1>1, <2>1, <2>2, <3>1, <3>4
      <3> QED
        BY <3>3, <3>4
    <2>5. ASSUME NEW m \in 1..(n + 1), m \in c
          PROVE  \/ \E j \in 1..Len(fs) : fs[j].registration = tok[m]
                 \/ Len(fs) = EventCapacity /\ \A j \in 1..Len(fs) : first[j] < m
      <3>1. CASE m = n + 1
        BY <2>1, <3>1
      <3>2. CASE m # n + 1
        <4>1. m \in 1..n
          BY <3>2
        <4> QED
          BY <1>2, <2>1, <2>5, <4>1 DEF FirstAt
      <3> QED
        BY <3>1, <3>2
    <2>6. \A i, j \in 1..Len(fs) : i < j => first[i] < first[j]
      BY <1>2, <2>1 DEF FirstAt
    <2>7. first \in [1..Len(fs) -> 1..(n + 1)]
      BY <1>2, <2>1
    <2>8. FirstAt(c, tok, n + 1, fs, first)
      BY <2>4, <2>5, <2>6 DEF FirstAt
    <2> QED
      BY <2>3, <2>7, <2>8 DEF Hinted, Ordered
  <1>5. ASSUME Dropped(es, fs, id, r)
        PROVE  Hinted(c, tok, rd, n + 1, fs) /\ Ordered(c, tok, n + 1, fs)
    <2>1. /\ \A k \in 1..Len(es) : es[k].registration # id
          /\ fs = es /\ Len(es) = EventCapacity
      BY <1>5 DEF Dropped
    <2>2. Hinted(c, tok, rd, n + 1, es)
      BY <1>1, <2>1 DEF Hinted
    <2>3. ASSUME NEW m \in 1..(n + 1), m \in c
          PROVE  \/ \E j \in 1..Len(es) : es[j].registration = tok[m]
                 \/ Len(es) = EventCapacity /\ \A j \in 1..Len(es) : first[j] < m
      <3>1. CASE m = n + 1
        <4>1. \A j \in 1..Len(es) : first[j] < n + 1
          BY <1>2
        <4> QED
          BY <2>1, <3>1, <4>1
      <3>2. CASE m # n + 1
        <4>1. m \in 1..n
          BY <3>2
        <4> QED
          BY <1>2, <2>3, <4>1 DEF FirstAt
      <3> QED
        BY <3>1, <3>2
    <2>4. FirstAt(c, tok, n + 1, es, first)
      BY <1>1, <1>2, <2>1, <2>3 DEF FirstAt
    <2>5. first \in [1..Len(es) -> 1..(n + 1)]
      BY <1>2
    <2> QED
      BY <2>1, <2>2, <2>4, <2>5 DEF Ordered
  <1>6. ASSUME Opened(es, fs, id, r)
        PROVE  Hinted(c, tok, rd, n + 1, fs) /\ Ordered(c, tok, n + 1, fs)
    <2> DEFINE N == Len(es)
               later == [k \in 1..(N + 1) |-> IF k = N + 1 THEN n + 1 ELSE first[k]]
    <2>1. /\ \A k \in 1..N : es[k].registration # id
          /\ Len(fs) = N + 1
          /\ \A k \in 1..N : fs[k] = es[k]
          /\ fs[N + 1].registration = id
          /\ fs[N + 1].readiness = r
          /\ N \in Nat
      BY <1>6 DEF Opened
    <2> HIDE DEF N
    <2>2. N < EventCapacity
      BY <1>3, <2>1
    <2>3. \A m \in 1..n : m \in c => \E k \in 1..N : es[k].registration = tok[m]
      BY <1>2, <1>3, <2>1, <2>2 DEF FirstAt, N
    <2>4. Of(c, tok, n, id) = {}
      BY <2>1, <2>3 DEF Of
    <2>5. Of(c, tok, n + 1, id) = {n + 1}
      BY <1>1, <2>4
    <2>6. \A k \in 1..N : /\ k \in 1..(N + 1) /\ k # N + 1 /\ later[k] = first[k]
                          /\ Of(c, tok, n + 1, fs[k].registration)
                                = Of(c, tok, n, es[k].registration)
      BY <1>1, <2>1
    <2>7. later[N + 1] = n + 1 /\ N + 1 \in 1..(N + 1)
      BY <2>1
    <2>8. later \in [1..(N + 1) -> 1..(n + 1)]
      <3>1. \A k \in 1..N : first[k] \in 1..n
        BY <1>2 DEF N
      <3> QED
        BY <2>1, <3>1
    <2> HIDE DEF later
    <2>9. \A k \in 1..(N + 1) : k # N + 1 => k \in 1..N
      BY <2>1
    <2>10. Hinted(c, tok, rd, n + 1, fs)
      <3>1. ASSUME NEW k \in 1..(N + 1), NEW h
            PROVE  h \in fs[k].readiness <=>
                      \E m \in Of(c, tok, n + 1, fs[k].registration) : h \in rd[m]
        <4>1. CASE k = N + 1
          BY <2>1, <2>5, <4>1
        <4>2. CASE k # N + 1
          BY <2>1, <2>6, <2>9, <4>2 DEF Hinted, N
        <4> QED
          BY <4>1, <4>2
      <3> QED
        BY <2>1, <3>1 DEF Hinted
    <2>11. ASSUME NEW k \in 1..(N + 1)
           PROVE  /\ later[k] \in Of(c, tok, n + 1, fs[k].registration)
                  /\ \A m \in Of(c, tok, n + 1, fs[k].registration) : later[k] <= m
      <3>1. CASE k = N + 1
        BY <2>1, <2>5, <2>7, <3>1
      <3>2. CASE k # N + 1
        BY <1>2, <2>6, <2>9, <3>2 DEF FirstAt, N
      <3> QED
        BY <3>1, <3>2
    <2>12. ASSUME NEW j \in 1..(N + 1), NEW k \in 1..(N + 1), j < k
           PROVE  later[j] < later[k]
      <3>1. j \in 1..N
        BY <2>1, <2>12
      <3>2. CASE k = N + 1
        <4>1. first[j] \in 1..n
          BY <1>2, <3>1 DEF N
        <4> QED
          BY <2>6, <2>7, <3>1, <3>2, <4>1
      <3>3. CASE k # N + 1
        BY <1>2, <2>6, <2>9, <2>12, <3>1, <3>3 DEF FirstAt, N
      <3> QED
        BY <3>2, <3>3
    <2>13. ASSUME NEW m \in 1..(n + 1), m \in c
           PROVE  \E k \in 1..(N + 1) : fs[k].registration = tok[m]
      <3>1. CASE m = n + 1
        BY <2>1, <2>7, <3>1
      <3>2. CASE m # n + 1
        <4>1. m \in 1..n
          BY <3>2
        <4>2. PICK k \in 1..N : es[k].registration = tok[m]
          BY <2>3, <2>13, <4>1
        <4> QED
          BY <2>1, <2>6, <4>2
      <3> QED
        BY <3>1, <3>2
    <2>14. FirstAt(c, tok, n + 1, fs, later)
      BY <2>1, <2>11, <2>12, <2>13 DEF FirstAt
    <2> QED
      BY <2>1, <2>8, <2>10, <2>14 DEF Ordered
  <1> QED
    BY <1>4, <1>5, <1>6

\* The records of this batch.
Members == {m \in 1..Len(batch) : Counts(raw(m))}
Tokens == [m \in 1..Len(batch) |-> raw(m).token]
HintsOf == [m \in 1..Len(batch) |-> raw(m).readiness]

Good(n, p) == /\ Placed(p)
              /\ Hinted(Members, Tokens, HintsOf, n, p.entries)
              /\ Ordered(Members, Tokens, n, p.entries)

\* The batch before the first record.
LEMMA NewGood == ASSUME Inv PROVE Good(0, pending_new)
  <1> DEFINE p == pending_new
  <1>1. /\ p.entries = <<>> /\ p.by_slot = [i \in Index |-> EMPTY]
        /\ p = [entries |-> <<>>, by_slot |-> [i \in Index |-> EMPTY]]
    BY DEF pending_new
  <1>2. p \in Pending
    <2>1. EMPTY \in 0..U32Max
      BY Limits DEF EMPTY
    <2> QED
      BY <1>1, <2>1 DEF Pending
  <1> HIDE DEF p
  <1>3. Len(p.entries) = 0 /\ 1..Len(p.entries) = {}
    BY <1>1
  <1>4. Placed(p)
    BY <1>1, <1>2, <1>3, CapacityAssumption DEF Placed
  <1>5. Hinted(Members, Tokens, HintsOf, 0, p.entries)
    BY <1>3 DEF Hinted
  <1>6. Ordered(Members, Tokens, 0, p.entries)
    <2> DEFINE first == [k \in 1..Len(p.entries) |-> 0]
    <2>1. first \in [1..Len(p.entries) -> 1..0]
      BY <1>3
    <2>2. 1..0 = {}
      OBVIOUS
    <2> HIDE DEF first
    <2>3. FirstAt(Members, Tokens, 0, p.entries, first)
      BY <1>3, <2>2 DEF FirstAt
    <2> QED
      BY <2>1, <2>3 DEF Ordered
  <1> QED
    BY <1>4, <1>5, <1>6 DEF Good, p

\* One turn of translate_kqueue's loop: the add is never refused.
LEMMA GatheredGood ==
    ASSUME Inv, ~Idle, NEW n \in 0..(Len(batch) - 1), NEW p, Good(n, p)
    PROVE  \E q : /\ Good(n + 1, q)
                  /\ Gathered([pending |-> p, failed |-> FALSE], raw(n + 1))
                        = [pending |-> q, failed |-> FALSE]
  <1> DEFINE event == raw(n + 1)
             acc == [pending |-> p, failed |-> FALSE]
  <1>1. Len(batch) \in Nat /\ n \in Nat /\ n + 1 \in 1..Len(batch)
    BY BatchShape
  <1>2. /\ Placed(p) /\ Len(p.entries) \in Nat
        /\ Hinted(Members, Tokens, HintsOf, n, p.entries)
        /\ Ordered(Members, Tokens, n, p.entries)
    BY DEF Good, Placed, Pending
  <1>3. acc.pending = p /\ acc.failed = FALSE
    OBVIOUS
  <1>4. CASE ~Counts(event)
    <2>1. Gathered(acc, event) = acc
      BY <1>4 DEF Gathered
    <2>2. n + 1 \notin Members
      BY <1>4 DEF Members
    <2>3. Good(n + 1, p)
      BY <1>1, <1>2, <2>2, SkipOrdered DEF Good
    <2> QED
      BY <2>1, <2>3
  <1>5. CASE Counts(event)
    <2>1. event.readiness \in Readiness
      BY <1>1, <1>5, CountsArmed
    <2>2. PICK i \in Index : Armed(i) /\ event.token = IdOf(i)
      BY <1>1, <1>5, CountsArmed
    <2> DEFINE id == event.token
               r == event.readiness
               key == entry(table, id).key
               q == add(p, id, key, r)
    <2>3. key \in Keys
      BY <2>2, ArmedId DEF Entry
    <2> HIDE DEF event, key
    <2>4. /\ ~AddRefused(p, id)
          /\ Placed(q)
          /\ \/ Joined(p.entries, q.entries, id, r)
             \/ Dropped(p.entries, q.entries, id, r)
             \/ Opened(p.entries, q.entries, id, r)
      BY <1>2, <2>1, <2>2, <2>3, AddEnds
    <2>5. Gathered(acc, event) = [pending |-> q, failed |-> FALSE]
      <3>1. Gathered(acc, event) = [acc EXCEPT !.pending = add(acc.pending, event.token,
                                       entry(table, event.token).key, event.readiness)]
        BY <1>3, <1>5, <2>4 DEF Gathered
      <3> HIDE DEF q
      <3>2. add(acc.pending, event.token, entry(table, event.token).key,
                event.readiness) = q
        BY <1>3 DEF q, key
      <3> QED
        BY <3>1, <3>2
    <2> DEFINE es == p.entries
               fs == q.entries
    <2>6. /\ Len(fs) \in Nat /\ Len(fs) <= EventCapacity
          /\ n + 1 \in Members /\ Tokens[n + 1] = id /\ HintsOf[n + 1] = r
      <3>1. Len(fs) \in Nat /\ Len(fs) <= EventCapacity
        <4> HIDE DEF q
        <4> QED
          BY <2>4 DEF Placed, Pending
      <3>2. n + 1 \in Members
        BY <1>1, <1>5 DEF Members, event
      <3>3. Tokens[n + 1] = id /\ HintsOf[n + 1] = r
        BY <1>1 DEF Tokens, HintsOf, event
      <3> QED
        BY <3>1, <3>2, <3>3
    <2>7. \A j, k \in 1..Len(es) : es[j].registration = es[k].registration => j = k
      BY <1>2, PlacedOnce
    <2> HIDE DEF q, id, r
    <2>8. /\ Hinted(Members, Tokens, HintsOf, n + 1, fs)
          /\ Ordered(Members, Tokens, n + 1, fs)
      <3> HIDE DEF es, fs
      <3>1. /\ Len(es) \in Nat
            /\ Hinted(Members, Tokens, HintsOf, n, es)
            /\ Ordered(Members, Tokens, n, es)
            /\ \/ Joined(es, fs, id, r)
               \/ Dropped(es, fs, id, r)
               \/ Opened(es, fs, id, r)
        BY <1>2, <2>4 DEF es, fs
      <3> QED
        BY <1>1, <2>6, <2>7, <3>1, AddOrdered
    <2>9. Good(n + 1, q)
      BY <2>4, <2>8 DEF Good
    <2> QED
      BY <2>5, <2>9 DEF event
  <1> QED
    BY <1>4, <1>5

\* The recursion that Coalesced runs has a solution.
LEMMA CoalescedRuns ==
    ASSUME Inv, ~Idle
    PROVE  \E after :
              /\ after = [n \in 0..Len(batch) |->
                            IF n = 0 THEN [pending |-> pending, failed |-> FALSE]
                            ELSE Gathered(after[n - 1], raw(n))]
              /\ Coalesced = after[Len(batch)]
  <1> DEFINE N == Len(batch)
             Runs(m, f) == f = [n \in 0..m |->
                                  IF n = 0 THEN [pending |-> pending, failed |-> FALSE]
                                  ELSE Gathered(f[n - 1], raw(n))]
             T == {m \in 0..N : \E f : Runs(m, f)}
  <1>0. N \in Nat
    BY BatchShape
  <1> HIDE DEF N
  <1>1. 0 \in T
    <2> DEFINE f == [n \in 0..0 |-> [pending |-> pending, failed |-> FALSE]]
    <2>1. Runs(0, f)
      OBVIOUS
    <2> HIDE DEF f, Runs
    <2> QED
      BY <1>0, <2>1
  <1>2. ASSUME NEW m \in 0..(N - 1), m \in T PROVE m + 1 \in T
    <2>1. PICK f : Runs(m, f)
      BY <1>2
    <2> DEFINE g == [n \in 0..(m + 1) |->
                        IF n = m + 1 THEN Gathered(f[m], raw(m + 1)) ELSE f[n]]
    <2>2. ASSUME NEW n \in 0..(m + 1)
          PROVE  g[n] = IF n = 0 THEN [pending |-> pending, failed |-> FALSE]
                        ELSE Gathered(g[n - 1], raw(n))
      <3>1. CASE n = m + 1
        BY <3>1
      <3>2. CASE n # m + 1
        <4>1. n \in 0..m
          BY <3>2
        <4>2. f[n] = IF n = 0 THEN [pending |-> pending, failed |-> FALSE]
                     ELSE Gathered(f[n - 1], raw(n))
          BY <2>1, <4>1
        <4> QED
          BY <4>1, <4>2
      <3> QED
        BY <3>1, <3>2
    <2>3. g = [n \in 0..(m + 1) |-> g[n]]
      OBVIOUS
    <2> HIDE DEF g
    <2>4. Runs(m + 1, g)
      BY <2>2, <2>3
    <2> HIDE DEF Runs
    <2> QED
      BY <1>0, <2>4
  <1> HIDE DEF T
  <1>3. N \in T
    <2>1. \A m \in 0..N : m \in T
      BY <1>0, <1>1, <1>2, UpTo
    <2> QED
      BY <1>0, <2>1
  <1>4. \E f : Runs(N, f)
    BY <1>3 DEF T
  <1> DEFINE after == CHOOSE f : Runs(N, f)
  <1>5. Coalesced = after[N]
    BY DEF Coalesced, N
  <1>6. Runs(N, after)
    BY <1>4, Zenon
  <1> HIDE DEF after
  <1> QED
    BY <1>5, <1>6, Zenon DEF N

\* translate_kqueue's loop never fails.
LEMMA CoalescedGood ==
    ASSUME Inv, ~Idle
    PROVE  Coalesced.failed = FALSE /\ Good(Len(batch), Coalesced.pending)
  <1> DEFINE N == Len(batch)
  <1>1. PICK after : /\ after = [n \in 0..N |->
                            IF n = 0 THEN [pending |-> pending, failed |-> FALSE]
                            ELSE Gathered(after[n - 1], raw(n))]
                     /\ Coalesced = after[N]
    BY CoalescedRuns
  <1>2. N \in Nat
    BY BatchShape
  <1> DEFINE Fine(m, a) == \E q : Good(m, q) /\ a = [pending |-> q, failed |-> FALSE]
             T == {m \in 0..N : Fine(m, after[m])}
  <1> HIDE DEF N
  <1>3. 0 \in T
    <2>1. after[0] = [pending |-> pending_new, failed |-> FALSE]
      BY <1>1, <1>2 DEF Inv
    <2>2. Good(0, pending_new)
      BY NewGood
    <2>3. Fine(0, after[0])
      BY <2>1, <2>2, Zenon
    <2>4. 0 \in 0..N
      BY <1>2
    <2> QED
      BY <2>3, <2>4
  <1>4. ASSUME NEW m \in 0..(N - 1), m \in T PROVE m + 1 \in T
    <2>1. m + 1 \in 0..N /\ m + 1 # 0 /\ (m + 1) - 1 = m
      BY <1>2
    <2>2. after[m + 1] = Gathered(after[m], raw(m + 1))
      BY <1>1, <2>1
    <2>3. PICK p : Good(m, p) /\ after[m] = [pending |-> p, failed |-> FALSE]
      BY <1>4
    <2>4. m \in 0..(Len(batch) - 1)
      BY DEF N
    <2>5. \E q : /\ Good(m + 1, q)
                 /\ Gathered([pending |-> p, failed |-> FALSE], raw(m + 1))
                        = [pending |-> q, failed |-> FALSE]
      BY <2>3, <2>4, GatheredGood
    <2>6. Fine(m + 1, after[m + 1])
      BY <2>2, <2>3, <2>5, Zenon
    <2> QED
      BY <2>1, <2>6
  <1> HIDE DEF T
  <1>5. N \in T
    <2>1. \A m \in 0..N : m \in T
      BY <1>2, <1>3, <1>4, UpTo
    <2> QED
      BY <1>2, <2>1
  <1>6. PICK q : Good(N, q) /\ Coalesced = [pending |-> q, failed |-> FALSE]
    BY <1>1, <1>5 DEF T
  <1> QED
    BY <1>6 DEF N

\* Clearing a batch whose places are right leaves no place behind.
LEMMA ClearPlaced ==
    ASSUME Inv, NEW p, Placed(p) PROVE clear(p) = pending_new
  <1> DEFINE SlotOf(n) == decode(p.entries[n].registration).index
             valid == \A n \in 1..Len(p.entries) :
                    /\ ~DecodesStale(p.entries[n].registration)
                    /\ SlotOf(n) \in Index
                    /\ p.by_slot[SlotOf(n)] = n - 1
             slots == {SlotOf(n) : n \in 1..Len(p.entries)}
  <1>1. ASSUME NEW n \in 1..Len(p.entries), NEW i \in Index, EntryOf(p, n, i)
        PROVE  /\ ~DecodesStale(p.entries[n].registration) /\ SlotOf(n) = i
               /\ p.by_slot[i] = n - 1
    BY <1>1, ArmedId DEF EntryOf
  <1>2. valid
    BY <1>1 DEF Placed
  <1>3. \A i \in Index : i \notin slots => p.by_slot[i] = EMPTY
    BY <1>1 DEF Placed
  <1>4. clear(p) = [entries |-> <<>>,
                    by_slot |-> [i \in Index |-> IF i \in slots THEN EMPTY
                                                 ELSE p.by_slot[i]]]
    BY <1>2 DEF clear
  <1> HIDE DEF slots
  <1>5. [i \in Index |-> IF i \in slots THEN EMPTY ELSE p.by_slot[i]]
            = [i \in Index |-> EMPTY]
    BY <1>3
  <1> QED
    BY <1>4, <1>5 DEF pending_new

------------------------------------------------------------------------------
(* The delivery and the plans for its one-shot registrations.              *)

Wakes == IF woke THEN 1 ELSE 0

\* Entries of armed registrations, no more than there is room for.
Deliverable(es) ==
    /\ es \in Seq(PendingEntry)
    /\ Len(es) + Wakes <= EventCapacity
    /\ Len(es) <= Limit
    /\ \A k \in 1..Len(es) :
          \E i \in Index : Armed(i) /\ es[k].registration = IdOf(i)
    /\ \A j, k \in 1..Len(es) : es[j].registration = es[k].registration => j = k

\* The entries that are delivered leave room for the wake.
LEMMA ToDeliverEnds ==
    ASSUME Inv, NEW p, Placed(p)
    PROVE  LET out == ToDeliver(p.entries)
           IN  /\ Deliverable(out)
               /\ Len(out) = Smaller(Len(p.entries), EventCapacity - Wakes)
               /\ \A k \in 1..Len(out) : k \in 1..Len(p.entries) /\ out[k] = p.entries[k]
  <1> DEFINE es == p.entries
             n == Smaller(Len(es), resource_limit)
             out == SubSeq(es, 1, n)
  <1>1. es \in Seq(PendingEntry) /\ Len(es) \in Nat /\ Len(es) <= EventCapacity
    BY DEF Placed, Pending
  <1>2. Wakes \in {0, 1} /\ resource_limit = EventCapacity - Wakes
    BY DEF Wakes, resource_limit
  <1>3. resource_limit \in Nat
    BY <1>2, CapacityAssumption
  <1>4. /\ n \in Nat /\ n <= Len(es) /\ n + Wakes <= EventCapacity
        /\ n = Smaller(Len(es), EventCapacity - Wakes)
    BY <1>1, <1>2, <1>3, CapacityAssumption DEF Smaller
  <1> HIDE DEF n
  <1>5. /\ out \in Seq(PendingEntry) /\ Len(out) = n
        /\ \A k \in 1..n : out[k] = es[k]
    <2>1. /\ SubSeq(es, 0 + 1, n) \in Seq(PendingEntry)
          /\ Len(SubSeq(es, 0 + 1, n)) = n - 0
          /\ \A k \in 1..(n - 0) : SubSeq(es, 0 + 1, n)[k] = es[0 + k]
      BY <1>1, <1>4, Piece
    <2>2. 0 + 1 = 1 /\ n - 0 = n /\ \A k \in 1..n : 0 + k = k
      BY <1>4
    <2> QED
      BY <2>1, <2>2
  <1>6. ToDeliver(es) = out
    BY DEF ToDeliver, Delivered, n
  <1>7. \A k \in 1..n : k \in 1..Len(es)
    BY <1>1, <1>4
  <1>8. n <= Limit
    <2>1. Len(es) <= Limit
      BY PlacedRoom
    <2> QED
      BY <1>1, <1>4, <2>1, Limits
  <1> HIDE DEF out
  <1>9. \A k \in 1..n : \E i \in Index : Armed(i) /\ out[k].registration = IdOf(i)
    BY <1>5, <1>7 DEF Placed, EntryOf
  <1>10. \A j, k \in 1..n : out[j].registration = out[k].registration => j = k
    BY <1>5, <1>7, PlacedOnce
  <1> QED
    BY <1>4, <1>5, <1>6, <1>7, <1>8, <1>9, <1>10 DEF Deliverable

PlanType == [registration : Nat, descriptor : Descriptors,
             interest : Interests \ {{}}, commit : CommitStatus]

\* A plan for the armed one-shot registration in slot i.
PlanFor(plan, i) ==
    /\ Armed(i) /\ table.slots[i].entry.mode = "OneShot"
    /\ plan.registration = IdOf(i)
    /\ plan.descriptor = table.slots[i].entry.descriptor
    /\ plan.interest = table.slots[i].entry.interest

Planned(plans) ==
    /\ plans \in Seq(PlanType)
    /\ \A n \in 1..Len(plans) : \E i \in Index : PlanFor(plans[n], i)
    /\ \A m, n \in 1..Len(plans) :
          plans[m].registration = plans[n].registration => m = n

\* A plan has one change or two.
LEMMA ChangeCounts ==
    ASSUME NEW plan \in PlanType
    PROVE  /\ change_count(plan) \in 1..2
           /\ change_count(Plan(0, None, plan.interest)) = change_count(plan)
  <1>1. plan.interest \in Interests /\ plan.interest # {}
    BY DEF PlanType
  <1>2. Len(FiltersOf(plan.interest)) \in 1..2
    BY <1>1, FilterLists
  <1> QED
    BY <1>2 DEF change_count, Plan

\* How many changes come before those of a plan.
LEMMA BeforeRuns ==
    ASSUME NEW plans, Len(plans) \in Nat,
           \A n \in 1..Len(plans) : change_count(plans[n]) \in 1..2
    PROVE  LET before == Before(plans)
           IN  /\ before[1] = 0
               /\ \A n \in 1..Len(plans) :
                     before[n + 1] = before[n] + change_count(plans[n])
               /\ \A n \in 1..(Len(plans) + 1) : /\ before[n] \in Nat
                                                 /\ before[n] <= 2 * (n - 1)
  <1> DEFINE N == Len(plans)
             Runs(m, f) == f = [n \in 1..(m + 1) |->
                                  IF n = 1 THEN 0
                                  ELSE f[n - 1] + change_count(plans[n - 1])]
             T == {m \in 0..N : \E f : Runs(m, f)}
  <1>0. N \in Nat /\ \A n \in 1..N : change_count(plans[n]) \in 1..2
    OBVIOUS
  <1> HIDE DEF N
  <1>1. 0 \in T
    <2> DEFINE f == [n \in 1..(0 + 1) |-> 0]
    <2>1. Runs(0, f)
      OBVIOUS
    <2> HIDE DEF f, Runs
    <2> QED
      BY <1>0, <2>1
  <1>2. ASSUME NEW m \in 0..(N - 1), m \in T PROVE m + 1 \in T
    <2>1. PICK f : Runs(m, f)
      BY <1>2
    <2> DEFINE k == m + 1
               g == [n \in 1..(k + 1) |->
                        IF n = k + 1 THEN f[k] + change_count(plans[k])
                        ELSE f[n]]
    <2>0. k \in Nat /\ k >= 1 /\ k + 1 # 1 /\ (k + 1) - 1 = k /\ k \in 1..(k + 1)
      BY <1>0
    <2>2. ASSUME NEW n \in 1..(k + 1)
          PROVE  g[n] = IF n = 1 THEN 0
                        ELSE g[n - 1] + change_count(plans[n - 1])
      <3>1. CASE n = k + 1
        <4>1. g[n] = f[k] + change_count(plans[k])
          BY <3>1
        <4>2. g[n - 1] = f[k] /\ n - 1 = k /\ n # 1
          BY <2>0, <3>1
        <4> QED
          BY <4>1, <4>2
      <3>2. CASE n # k + 1
        <4>1. n \in 1..k
          BY <2>0, <3>2
        <4>2. f[n] = IF n = 1 THEN 0 ELSE f[n - 1] + change_count(plans[n - 1])
          BY <2>1, <4>1
        <4>3. g[n] = f[n] /\ n # 1 => g[n - 1] = f[n - 1]
          BY <2>0, <4>1
        <4> QED
          BY <2>0, <4>1, <4>2, <4>3
      <3> QED
        BY <3>1, <3>2
    <2>3. g = [n \in 1..(k + 1) |-> g[n]]
      OBVIOUS
    <2> HIDE DEF g
    <2>4. Runs(k, g)
      BY <2>2, <2>3
    <2> HIDE DEF Runs
    <2> QED
      BY <1>0, <2>4
  <1> HIDE DEF T
  <1>3. N \in T
    <2>1. \A m \in 0..N : m \in T
      BY <1>0, <1>1, <1>2, UpTo
    <2> QED
      BY <1>0, <2>1
  <1>4. \E f : Runs(N, f)
    BY <1>3 DEF T
  <1> DEFINE before == CHOOSE f : Runs(N, f)
  <1>5. Before(plans) = before
    BY DEF Before, N
  <1>6. Runs(N, before)
    BY <1>4, Zenon
  <1> HIDE DEF before
  <1>7. before[1] = 0
    BY <1>0, <1>6
  <1>8. ASSUME NEW n \in 1..N
        PROVE  before[n + 1] = before[n] + change_count(plans[n])
    <2>1. n + 1 \in 1..(N + 1) /\ n + 1 # 1 /\ (n + 1) - 1 = n
      BY <1>0
    <2> QED
      BY <1>6, <2>1
  <1> DEFINE S == {m \in 0..N : before[m + 1] \in Nat /\ before[m + 1] <= 2 * m}
  <1>9. 0 \in S
    BY <1>0, <1>7
  <1>10. ASSUME NEW m \in 0..(N - 1), m \in S PROVE m + 1 \in S
    <2>1. m + 1 \in 1..N /\ m + 1 \in 0..N
      BY <1>0
    <2>2. /\ before[(m + 1) + 1] = before[m + 1] + change_count(plans[m + 1])
          /\ change_count(plans[m + 1]) \in 1..2
      BY <1>0, <1>8, <2>1
    <2> DEFINE a == before[m + 1]
               b == change_count(plans[m + 1])
    <2>3. a \in Nat /\ a <= 2 * m /\ b \in 1..2
      BY <1>10, <2>2
    <2> HIDE DEF a, b
    <2>4. a + b \in Nat /\ a + b <= 2 * (m + 1)
      BY <2>3
    <2>5. before[(m + 1) + 1] = a + b
      BY <2>2 DEF a, b
    <2> QED
      BY <2>1, <2>4, <2>5
  <1>11. \A m \in 0..N : m \in S
    <2> HIDE DEF S
    <2> QED
      BY <1>0, <1>9, <1>10, UpTo
  <1>12. ASSUME NEW n \in 1..(N + 1)
         PROVE  before[n] \in Nat /\ before[n] <= 2 * (n - 1)
    <2>1. n - 1 \in S
      <3> HIDE DEF S
      <3>1. n - 1 \in 0..N
        BY <1>0
      <3> QED
        BY <1>11, <3>1
    <2>2. (n - 1) + 1 = n
      BY <1>0
    <2> QED
      BY <2>1, <2>2
  <1> QED
    BY <1>5, <1>7, <1>8, <1>12 DEF N

\* The counts grow, so that each change belongs to one plan.
LEMMA BeforeGrows ==
    ASSUME NEW plans, Len(plans) \in Nat,
           \A n \in 1..Len(plans) : change_count(plans[n]) \in 1..2
    PROVE  LET before == Before(plans)
           IN  /\ \A m, n \in 1..Len(plans) : m < n => before[m + 1] <= before[n]
               /\ \A c \in 1..change_len(plans) : \E n \in 1..Len(plans) :
                     before[n] < c /\ c <= before[n + 1]
               /\ change_len(plans) \in Nat
               /\ \A n \in 1..Len(plans) : before[n + 1] <= change_len(plans)
  <1> DEFINE N == Len(plans)
             before == Before(plans)
             cc(n) == change_count(plans[n])
  <1>0. N \in Nat /\ \A n \in 1..N : cc(n) \in 1..2
    OBVIOUS
  <1>1. /\ before[1] = 0
        /\ \A n \in 1..N : before[n + 1] = before[n] + cc(n)
        /\ \A n \in 1..(N + 1) : before[n] \in Nat
    BY BeforeRuns
  <1>2. change_len(plans) = before[N + 1]
    BY DEF change_len
  <1> HIDE DEF N, before, cc
  <1> DEFINE S == {k \in 0..N : \A m \in 1..(k + 1) : before[m] <= before[k + 1]}
  <1>3. 0 \in S
    BY <1>0, <1>1
  <1>4. ASSUME NEW k \in 0..(N - 1), k \in S PROVE k + 1 \in S
    <2>1. k + 1 \in 1..N /\ k + 1 \in 0..N /\ k + 1 \in 1..(N + 1)
          /\ (k + 1) + 1 \in 1..(N + 1)
      BY <1>0
    <2>2. /\ before[(k + 1) + 1] = before[k + 1] + cc(k + 1)
          /\ before[k + 1] \in Nat /\ before[(k + 1) + 1] \in Nat
          /\ cc(k + 1) \in 1..2
      BY <1>0, <1>1, <2>1
    <2>3. ASSUME NEW m \in 1..((k + 1) + 1) PROVE before[m] <= before[(k + 1) + 1]
      <3>1. CASE m = (k + 1) + 1
        BY <2>2, <3>1
      <3>2. CASE m # (k + 1) + 1
        <4>1. m \in 1..(k + 1) /\ m \in 1..(N + 1)
          BY <1>0, <3>2
        <4>2. before[m] <= before[k + 1] /\ before[m] \in Nat
          BY <1>1, <1>4, <4>1
        <4> QED
          BY <2>2, <4>2
      <3> QED
        BY <3>1, <3>2
    <2> QED
      BY <2>1, <2>3
  <1>5. \A k \in 0..N : k \in S
    <2> HIDE DEF S
    <2> QED
      BY <1>0, <1>3, <1>4, UpTo
  <1>6. \A n \in 1..(N + 1) : \A m \in 1..n : before[m] <= before[n]
    <2> TAKE n \in 1..(N + 1)
    <2> TAKE m \in 1..n
    <2>1. n - 1 \in 0..N
      BY <1>0
    <2>2. n - 1 \in S
      <3> HIDE DEF S
      <3> QED
        BY <1>5, <2>1
    <2>3. (n - 1) + 1 = n
      BY <1>0
    <2> QED
      BY <2>2, <2>3
  <1>7. \A m, n \in 1..N : m < n => before[m + 1] <= before[n]
    <2> TAKE m, n \in 1..N
    <2> HAVE m < n
    <2>1. n \in 1..(N + 1) /\ m + 1 \in 1..n
      BY <1>0
    <2> QED
      BY <1>6, <2>1
  <1> DEFINE R == {k \in 0..N : \A c \in 1..before[k + 1] : \E n \in 1..N :
                                    before[n] < c /\ c <= before[n + 1]}
  <1>8. 0 \in R
    <2>1. before[0 + 1] = 0 /\ 1..0 = {}
      BY <1>1
    <2> QED
      BY <1>0, <2>1
  <1>9. ASSUME NEW k \in 0..(N - 1), k \in R PROVE k + 1 \in R
    <2>1. k + 1 \in 1..N /\ k + 1 \in 0..N /\ k + 1 \in 1..(N + 1)
          /\ (k + 1) + 1 \in 1..(N + 1)
      BY <1>0
    <2>2. before[k + 1] \in Nat /\ before[(k + 1) + 1] \in Nat
      BY <1>1, <2>1
    <2>3. ASSUME NEW c \in 1..before[(k + 1) + 1]
          PROVE  \E n \in 1..N : before[n] < c /\ c <= before[n + 1]
      <3>1. CASE c <= before[k + 1]
        <4>1. c \in 1..before[k + 1]
          BY <2>2, <3>1
        <4> QED
          BY <1>9, <4>1
      <3>2. CASE ~(c <= before[k + 1])
        <4>1. before[k + 1] < c /\ c <= before[(k + 1) + 1]
          BY <2>2, <3>2
        <4> QED
          BY <2>1, <4>1
      <3> QED
        BY <3>1, <3>2
    <2> QED
      BY <2>1, <2>3
  <1>10. \A k \in 0..N : k \in R
    <2> HIDE DEF R
    <2> QED
      BY <1>0, <1>8, <1>9, UpTo
  <1>11. \A c \in 1..before[N + 1] : \E n \in 1..N : before[n] < c /\ c <= before[n + 1]
    <2>1. N \in R
      <3> HIDE DEF R
      <3>1. N \in 0..N
        BY <1>0
      <3> QED
        BY <1>10, <3>1
    <2> QED
      BY <2>1
  <1>12. /\ before[N + 1] \in Nat
         /\ \A n \in 1..N : before[n + 1] <= before[N + 1]
    <2>1. N + 1 \in 1..(N + 1) /\ \A n \in 1..N : n + 1 \in 1..(N + 1)
      BY <1>0
    <2> QED
      BY <1>1, <1>6, <2>1
  <1> QED
    BY <1>2, <1>7, <1>11, <1>12 DEF N, before

\* The list DisarmChanges walks: the j-th change of plan n is where it belongs.
AtPlan(cs, plans, c, n, j) ==
    /\ c \in 1..Len(cs) /\ n \in 1..Len(plans)
    /\ j \in 1..change_count(plans[n])
    /\ c = Before(plans)[n] + j
    /\ cs[c] = change(plans[n], j)

\* Places within the changes of one plan.
LEMMA Between ==
    ASSUME NEW a \in Nat, NEW b \in 1..2, NEW l \in Nat, a + b <= l
    PROVE  /\ \A j \in 1..b : /\ a + j \in 1..l /\ a < a + j
                               /\ a + j <= a + b /\ (a + j) - a = j
           /\ \A c \in 1..l : a < c /\ c <= a + b =>
                                 c - a \in 1..b /\ a + (c - a) = c
  OBVIOUS

\* DisarmChanges runs through the plans, one after another.
LEMMA ChangesRun ==
    ASSUME NEW plans, Len(plans) \in Nat,
           \A n \in 1..Len(plans) : change_count(plans[n]) \in 1..2
    PROVE  LET cs == changes(plans)
           IN  /\ Len(cs) = change_len(plans) /\ Len(cs) \in Nat
               /\ \A n \in 1..Len(plans) : \A j \in 1..change_count(plans[n]) :
                     AtPlan(cs, plans, Before(plans)[n] + j, n, j)
               /\ \A c \in 1..Len(cs) : \E n, j : AtPlan(cs, plans, c, n, j)
  <1> DEFINE N == Len(plans)
             before == Before(plans)
             cc(n) == change_count(plans[n])
             PlanOf(c) == CHOOSE n \in 1..N : before[n] < c /\ c <= before[n + 1]
             cs == [c \in 1..change_len(plans) |->
                        change(plans[PlanOf(c)], c - before[PlanOf(c)])]
  <1>0. N \in Nat /\ \A n \in 1..N : cc(n) \in 1..2
    OBVIOUS
  <1>1. /\ \A n \in 1..N : before[n + 1] = before[n] + cc(n)
        /\ \A n \in 1..(N + 1) : before[n] \in Nat
    BY BeforeRuns
  <1>2. /\ \A m, n \in 1..N : m < n => before[m + 1] <= before[n]
        /\ \A c \in 1..change_len(plans) : \E n \in 1..N :
              before[n] < c /\ c <= before[n + 1]
        /\ change_len(plans) \in Nat
        /\ \A n \in 1..N : before[n + 1] <= change_len(plans)
    BY BeforeGrows
  <1>3. changes(plans) = cs
    BY DEF changes
  <1> HIDE DEF N, before, cc
  <1>4. \A n \in 1..N : before[n] \in Nat /\ before[n + 1] \in Nat
    <2>1. \A n \in 1..N : n \in 1..(N + 1) /\ n + 1 \in 1..(N + 1)
      BY <1>0
    <2> QED
      BY <1>1, <2>1
  <1>5. ASSUME NEW c \in 1..change_len(plans), NEW n \in 1..N,
               before[n] < c, c <= before[n + 1]
        PROVE  PlanOf(c) = n
    <2> DEFINE m == PlanOf(c)
    <2>1. m \in 1..N /\ before[m] < c /\ c <= before[m + 1]
      BY <1>5
    <2> HIDE DEF m
    <2>2. /\ m < n => before[m + 1] <= before[n]
          /\ n < m => before[n + 1] <= before[m]
          /\ before[m] \in Nat /\ before[n] \in Nat
          /\ before[m + 1] \in Nat /\ before[n + 1] \in Nat
      BY <1>2, <1>4, <2>1
    <2>3. ~(m < n) /\ ~(n < m)
      <3> DEFINE a == before[m]
                 b == before[n]
                 aa == before[m + 1]
                 bb == before[n + 1]
      <3>1. /\ m < n => aa <= b
            /\ n < m => bb <= a
            /\ a \in Nat /\ b \in Nat /\ aa \in Nat /\ bb \in Nat
            /\ a < c /\ c <= aa /\ b < c /\ c <= bb
        BY <1>5, <2>1, <2>2
      <3>2. c \in Nat
        BY <1>2
      <3> HIDE DEF a, b, aa, bb
      <3>3. ~(aa <= b) /\ ~(bb <= a)
        BY <3>1, <3>2
      <3> QED
        BY <3>1, <3>3
    <2>4. m = n
      BY <1>0, <2>1, <2>3
    <2> QED
      BY <2>4 DEF m
  <1>6. ASSUME NEW n \in 1..N, NEW j \in 1..cc(n)
        PROVE  /\ before[n] + j \in 1..change_len(plans)
               /\ cs[before[n] + j] = change(plans[n], j)
    <2> DEFINE c == before[n] + j
    <2>1. /\ before[n] \in Nat /\ before[n + 1] = before[n] + cc(n)
          /\ cc(n) \in 1..2 /\ before[n + 1] <= change_len(plans)
      BY <1>0, <1>1, <1>2, <1>4
    <2>2. c \in 1..change_len(plans) /\ before[n] < c /\ c <= before[n + 1]
          /\ c - before[n] = j
      <3> DEFINE a == before[n]
                 b == cc(n)
                 l == change_len(plans)
      <3>1. a \in Nat /\ b \in 1..2 /\ l \in Nat /\ a + b <= l /\ j \in 1..b
        BY <1>2, <2>1
      <3>2. before[n + 1] = a + b
        BY <2>1
      <3> HIDE DEF a, b, l
      <3>3. a + j \in 1..l /\ a < a + j /\ a + j <= a + b /\ (a + j) - a = j
        BY <3>1, Between
      <3> QED
        BY <3>2, <3>3 DEF a, l
    <2> HIDE DEF c
    <2>3. PlanOf(c) = n
      BY <1>5, <2>2
    <2>4. cs[c] = change(plans[PlanOf(c)], c - before[PlanOf(c)])
      BY <2>2
    <2>5. cs[c] = change(plans[n], j)
      <3> HIDE DEF PlanOf, cs
      <3> QED
        BY <2>2, <2>3, <2>4
    <2> HIDE DEF cs
    <2> QED
      BY <2>2, <2>5 DEF c
  <1>7. Len(cs) = change_len(plans)
    BY <1>2
  <1> HIDE DEF cs
  <1>8. ASSUME NEW n \in 1..N, NEW j \in 1..cc(n)
        PROVE  AtPlan(cs, plans, before[n] + j, n, j)
    BY <1>6, <1>7 DEF AtPlan, N, before, cc
  <1>9. ASSUME NEW c \in 1..Len(cs) PROVE \E n, j : AtPlan(cs, plans, c, n, j)
    <2>1. PICK n \in 1..N : before[n] < c /\ c <= before[n + 1]
      BY <1>2, <1>7
    <2> DEFINE j == c - before[n]
    <2>2. before[n + 1] = before[n] + cc(n) /\ cc(n) \in 1..2 /\ before[n] \in Nat
      BY <1>0, <1>1, <1>4
    <2>3. j \in 1..cc(n) /\ before[n] + j = c
      <3> DEFINE a == before[n]
                 b == cc(n)
                 l == change_len(plans)
      <3>1. a \in Nat /\ b \in 1..2 /\ l \in Nat /\ a + b <= l
        BY <1>2, <2>2
      <3>2. c \in 1..l /\ a < c /\ c <= a + b
        BY <1>7, <2>1, <2>2
      <3> HIDE DEF a, b, l
      <3>3. c - a \in 1..b /\ a + (c - a) = c
        BY <3>1, <3>2, Between
      <3> QED
        BY <3>3 DEF a, b
    <2> HIDE DEF j
    <2> QED
      BY <1>8, <2>1, <2>3
  <1> QED
    BY <1>2, <1>3, <1>7, <1>8, <1>9 DEF N, before, cc

\* No plan is refused (DisarmBatch::push): there is a registration for each,
\* and two changes at most.
LEMMA PushAccepted ==
    ASSUME Inv, NEW plans, Planned(plans), Len(plans) <= EventCapacity,
           Len(plans) <= Limit, NEW n \in 1..Len(plans)
    PROVE  ~PushRefused(SubSeq(plans, 1, n - 1), plans[n].interest)
  <1> DEFINE q == SubSeq(plans, 1, n - 1)
             m == n - 1
  <1>1. /\ plans \in Seq(PlanType) /\ Len(plans) \in Nat /\ n \in Nat
        /\ m \in Nat /\ m <= Len(plans) /\ m + 1 = n /\ n <= Len(plans)
        /\ \A k \in 1..Len(plans) : plans[k] \in PlanType
    BY DEF Planned
  <1> HIDE DEF m
  <1>2. Len(q) = m /\ q \in Seq(PlanType)
    <2>1. /\ SubSeq(plans, 0 + 1, m) \in Seq(PlanType)
          /\ Len(SubSeq(plans, 0 + 1, m)) = m - 0
      BY <1>1, Piece
    <2>2. 0 + 1 = 1 /\ m - 0 = m
      BY <1>1
    <2> QED
      BY <2>1, <2>2 DEF m
  <1> HIDE DEF q
  <1>3. \A k \in 1..m : change_count(q[k]) \in 1..2
    <2>1. \A k \in 1..m : q[k] \in PlanType
      BY <1>2
    <2> QED
      BY <2>1, ChangeCounts
  <1>4. Before(q)[n] \in Nat /\ Before(q)[n] <= 2 * m
    <2>1. \A k \in 1..(m + 1) : Before(q)[k] \in Nat /\ Before(q)[k] <= 2 * (k - 1)
      BY <1>1, <1>2, <1>3, BeforeRuns
    <2>2. n \in 1..(m + 1) /\ n - 1 = m
      BY <1>1
    <2> QED
      BY <2>1, <2>2
  <1>5. change_len(q) = Before(q)[n]
    BY <1>1, <1>2 DEF change_len
  <1>6. change_count(Plan(0, None, plans[n].interest)) \in 1..2
    BY <1>1, ChangeCounts
  <1>7. plan_capacity \in Nat /\ n <= plan_capacity
    BY <1>1, CapacityAssumption, Limits DEF plan_capacity, Smaller
  <1> DEFINE a == Before(q)[n]
             b == change_count(Plan(0, None, plans[n].interest))
  <1>8. a \in Nat /\ a <= 2 * m /\ b \in 1..2
    BY <1>4, <1>6
  <1> HIDE DEF a, b
  <1>9. ~(b = 0) /\ ~(m >= plan_capacity) /\ ~(a + b > 2 * plan_capacity)
    BY <1>1, <1>7, <1>8
  <1> QED
    BY <1>2, <1>5, <1>9 DEF PushRefused, a, b, q

\* The plans are those of the one-shot registrations delivered.
LEMMA PlansMade ==
    ASSUME Inv, NEW entries, Deliverable(entries)
    PROVE  LET plans == prepare_disarms(entries).plans
               shots == OneShots(table, entries)
           IN  /\ ~prepare_disarms(entries).failed
               /\ Planned(plans)
               /\ Len(plans) = Len(shots) /\ Len(shots) <= Len(entries)
               /\ \A n \in 1..Len(shots) :
                     /\ shots[n] \in 1..Len(entries)
                     /\ plans[n].registration = entries[shots[n]].registration
                     /\ plans[n].commit = "Unknown"
               /\ \A k \in 1..Len(entries) :
                     entry(table, entries[k].registration).mode = "OneShot" =>
                        \E n \in 1..Len(shots) : shots[n] = k
  <1> DEFINE shots == OneShots(table, entries)
             E == Len(entries)
             keep == {n \in 1..E : entry(table, entries[n].registration).mode = "OneShot"}
             PlanOf(id) == Plan(id, entry(table, id).descriptor, entry(table, id).interest)
             plans == [n \in 1..Len(shots) |-> PlanOf(entries[shots[n]].registration)]
  <1>1. E \in Nat
    BY DEF Deliverable
  <1>2. shots = Chosen(E, keep)
    BY DEF OneShots
  <1> HIDE DEF E
  <1>3. /\ Len(shots) \in 0..E
        /\ \A k \in 1..Len(shots) : shots[k] \in 1..E /\ shots[k] \in keep
        /\ \A m \in 1..E : m \in keep => \E k \in 1..Len(shots) : shots[k] = m
        /\ \A j, k \in 1..Len(shots) : shots[j] = shots[k] => j = k
    <2> HIDE DEF keep, shots
    <2> DEFINE out == Chosen(E, keep)
    <2>1. /\ Len(out) \in 0..E
          /\ \A k \in 1..Len(out) : out[k] \in 1..E /\ out[k] \in keep
          /\ \A m \in 1..E : m \in keep => \E k \in 1..Len(out) : out[k] = m
          /\ \A j, k \in 1..Len(out) : out[j] = out[k] => j = k
      BY <1>1, ChosenUp, Zenon
    <2> HIDE DEF out
    <2>2. shots = out
      BY <1>2 DEF out
    <2> QED
      BY <2>1, <2>2
  <1>4. prepare_disarms(entries).plans = plans
    BY DEF prepare_disarms
  <1> HIDE DEF shots
  <1>5. /\ Len(shots) \in Nat /\ Len(plans) = Len(shots)
        /\ \A n \in 1..Len(shots) : plans[n] = PlanOf(entries[shots[n]].registration)
        /\ plans = [n \in 1..Len(shots) |-> plans[n]]
    BY <1>1, <1>3
  <1> HIDE DEF plans
  <1>6. ASSUME NEW n \in 1..Len(shots)
        PROVE  /\ plans[n] \in PlanType
               /\ \E i \in Index : PlanFor(plans[n], i)
               /\ plans[n].registration = entries[shots[n]].registration
               /\ plans[n].commit = "Unknown"
    <2> DEFINE id == entries[shots[n]].registration
    <2>1. shots[n] \in 1..E /\ entry(table, id).mode = "OneShot"
      BY <1>3
    <2>2. PICK i \in Index : Armed(i) /\ id = IdOf(i)
      BY <2>1 DEF Deliverable, E
    <2>3. /\ id \in Nat /\ entry(table, id) = table.slots[i].entry
          /\ table.slots[i].entry \in Entry
      BY <2>2, ArmedId
    <2> DEFINE e == table.slots[i].entry
    <2>4. e.descriptor \in Descriptors /\ e.interest \in Interests /\ e.interest # {}
      <3>1. e.interest # {}
        BY <2>2 DEF Inv, Apart, Armed
      <3> QED
        BY <2>3, <3>1 DEF Entry
    <2> HIDE DEF id
    <2>5. /\ plans[n] = PlanOf(id)
          /\ plans[n] = [registration |-> id, descriptor |-> e.descriptor,
                         interest |-> e.interest, commit |-> "Unknown"]
      BY <1>5, <2>3 DEF Plan, id
    <2>6. plans[n] \in PlanType
      BY <2>3, <2>4, <2>5 DEF PlanType, CommitStatus
    <2>7. /\ plans[n].registration = id /\ plans[n].descriptor = e.descriptor
          /\ plans[n].interest = e.interest /\ plans[n].commit = "Unknown"
      BY <2>5
    <2>8. PlanFor(plans[n], i)
      BY <2>1, <2>2, <2>3, <2>7 DEF PlanFor, id
    <2> QED
      BY <2>6, <2>7, <2>8 DEF id
  <1>7. Planned(plans)
    <2>1. plans \in Seq(PlanType)
      BY <1>5, <1>6
    <2>2. \A m, n \in 1..Len(plans) :
              plans[m].registration = plans[n].registration => m = n
      BY <1>3, <1>5, <1>6 DEF Deliverable, E
    <2> QED
      BY <1>5, <1>6, <2>1, <2>2 DEF Planned
  <1>8. ~prepare_disarms(entries).failed
    <2>1. \A n \in 1..E : binding(table, entries[n].registration, FALSE) = "Ok"
      <3> TAKE n \in 1..E
      <3>1. PICK i \in Index : Armed(i) /\ entries[n].registration = IdOf(i)
        BY DEF Deliverable, E
      <3>2. binding(table, IdOf(i), FALSE) = "Ok"
        BY <3>1, ArmedId, Zenon
      <3> QED
        BY <3>1, <3>2, Zenon
    <2>2. Len(plans) <= EventCapacity /\ Len(plans) <= Limit
      <3>1. E + Wakes <= EventCapacity /\ E <= Limit
        BY DEF Deliverable, E
      <3>2. Wakes \in {0, 1}
        BY DEF Wakes
      <3> QED
        BY <1>1, <1>3, <1>5, <3>1, <3>2, CapacityAssumption, Limits
    <2>3. \A n \in 1..Len(plans) : ~PushRefused(SubSeq(plans, 1, n - 1), plans[n].interest)
      BY <1>7, <2>2, PushAccepted
    <2>4. prepare_disarms(entries).failed <=>
             \/ \E n \in 1..E : binding(table, entries[n].registration, FALSE) # "Ok"
             \/ \E n \in 1..Len(plans) :
                   PushRefused(SubSeq(plans, 1, n - 1), plans[n].interest)
      BY Zenon DEF prepare_disarms, E, plans, shots
    <2> QED
      BY <2>1, <2>3, <2>4
  <1>9. \A k \in 1..E : entry(table, entries[k].registration).mode = "OneShot" =>
            \E n \in 1..Len(shots) : shots[n] = k
    BY <1>3
  <1> QED
    BY <1>1, <1>3, <1>4, <1>5, <1>6, <1>7, <1>8, <1>9 DEF shots, E

\* Plans of different registrations are about different descriptors.
LEMMA PlansApart ==
    ASSUME Inv, NEW plans, Planned(plans), NEW m \in 1..Len(plans),
           NEW n \in 1..Len(plans), plans[m].descriptor = plans[n].descriptor
    PROVE  m = n
  <1>1. PICK i \in Index : PlanFor(plans[m], i)
    BY DEF Planned
  <1>2. PICK j \in Index : PlanFor(plans[n], j)
    BY DEF Planned
  <1>3. i = j
    BY <1>1, <1>2 DEF PlanFor, Armed, Inv, Apart
  <1> QED
    BY <1>1, <1>2, <1>3 DEF PlanFor, Planned

\* The changes submitted: each disables one filter of one plan, and every
\* filter of every plan is among them.
LEMMA DisarmChanges ==
    ASSUME Inv, NEW plans, Planned(plans)
    PROVE  LET cs == changes(plans)
           IN  /\ ChangeList(cs)
               /\ \A c \in 1..Len(cs) : cs[c].action = "Disable" /\ cs[c].token = 0
               /\ \A c, n, j : AtPlan(cs, plans, c, n, j) =>
                     /\ cs[c].place \in Descriptors \X Filters
                     /\ cs[c].place[1] = plans[n].descriptor
                     /\ Wanted(plans[n].interest, cs[c].place[2])
               /\ \A n \in 1..Len(plans) : \A f \in Filters :
                     Wanted(plans[n].interest, f) =>
                        \E c, j : /\ AtPlan(cs, plans, c, n, j)
                                  /\ cs[c].place = <<plans[n].descriptor, f>>
  <1> DEFINE cs == changes(plans)
  <1>1. Len(plans) \in Nat /\ \A n \in 1..Len(plans) : plans[n] \in PlanType
    BY DEF Planned
  <1>2. \A n \in 1..Len(plans) : change_count(plans[n]) \in 1..2
    BY <1>1, ChangeCounts
  <1>3. /\ Len(cs) \in Nat
        /\ \A n \in 1..Len(plans) : \A j \in 1..change_count(plans[n]) :
               AtPlan(cs, plans, Before(plans)[n] + j, n, j)
        /\ \A c \in 1..Len(cs) : \E n, j : AtPlan(cs, plans, c, n, j)
    BY <1>1, <1>2, ChangesRun
  <1> HIDE DEF cs
  <1>4. ASSUME NEW c, NEW n, NEW j, AtPlan(cs, plans, c, n, j)
        PROVE  LET fs == FiltersOf(plans[n].interest)
               IN  /\ n \in 1..Len(plans) /\ c = Before(plans)[n] + j
                   /\ j \in 1..Len(fs) /\ OnceEach(fs)
                   /\ fs[j] \in Filters /\ Wanted(plans[n].interest, fs[j])
                   /\ cs[c].place = <<plans[n].descriptor, fs[j]>>
                   /\ cs[c].action = "Disable" /\ cs[c].token = 0
                   /\ plans[n].descriptor \in Descriptors
    <2> DEFINE fs == FiltersOf(plans[n].interest)
    <2>1. /\ n \in 1..Len(plans) /\ j \in 1..Len(fs)
          /\ c = Before(plans)[n] + j /\ cs[c] = change(plans[n], j)
      BY <1>4 DEF AtPlan, change_count
    <2>2. plans[n].interest \in Interests /\ plans[n].descriptor \in Descriptors
      BY <1>1, <2>1 DEF PlanType
    <2>3. /\ OnceEach(fs)
          /\ \A k \in 1..Len(fs) : fs[k] \in Filters /\ Wanted(plans[n].interest, fs[k])
      BY <2>2, FilterLists
    <2>4. change(plans[n], j) = [place |-> <<plans[n].descriptor, fs[j]>>,
                                 action |-> "Disable", token |-> 0]
      BY DEF change, Change
    <2> HIDE DEF fs
    <2>5. /\ cs[c].place = <<plans[n].descriptor, fs[j]>>
          /\ cs[c].action = "Disable" /\ cs[c].token = 0
      BY <2>1, <2>4
    <2> QED
      BY <2>1, <2>2, <2>3, <2>5 DEF fs
  <1>5. ASSUME NEW c, NEW n, NEW j, AtPlan(cs, plans, c, n, j)
        PROVE  /\ cs[c].place \in Descriptors \X Filters
               /\ cs[c].place[1] = plans[n].descriptor
               /\ Wanted(plans[n].interest, cs[c].place[2])
               /\ cs[c].action = "Disable" /\ cs[c].token = 0
    <2> DEFINE f == FiltersOf(plans[n].interest)[j]
    <2>1. /\ f \in Filters /\ Wanted(plans[n].interest, f)
          /\ cs[c].place = <<plans[n].descriptor, f>>
          /\ cs[c].action = "Disable" /\ cs[c].token = 0
          /\ plans[n].descriptor \in Descriptors
      BY <1>4, <1>5
    <2> HIDE DEF f
    <2> QED
      BY <2>1
  <1>6. ASSUME NEW c \in 1..Len(cs), NEW b \in 1..Len(cs), cs[c].place = cs[b].place
        PROVE  c = b
    <2>1. PICK n, j : AtPlan(cs, plans, c, n, j)
      BY <1>3
    <2>2. PICK m, k : AtPlan(cs, plans, b, m, k)
      BY <1>3
    <2>3. n \in 1..Len(plans) /\ m \in 1..Len(plans)
      BY <2>1, <2>2 DEF AtPlan
    <2>4. n = m
      <3>1. plans[n].descriptor = plans[m].descriptor
        BY <1>5, <1>6, <2>1, <2>2
      <3> QED
        BY <2>3, <3>1, PlansApart
    <2> DEFINE fs == FiltersOf(plans[n].interest)
    <2>5. /\ c = Before(plans)[n] + j /\ j \in 1..Len(fs) /\ OnceEach(fs)
          /\ cs[c].place = <<plans[n].descriptor, fs[j]>>
      BY <1>4, <2>1
    <2>6. /\ b = Before(plans)[n] + k /\ k \in 1..Len(fs)
          /\ cs[b].place = <<plans[n].descriptor, fs[k]>>
      BY <1>4, <2>2, <2>4
    <2> HIDE DEF fs
    <2>7. fs[j] = fs[k]
      BY <1>6, <2>5, <2>6
    <2>8. j = k
      BY <2>5, <2>6, <2>7 DEF OnceEach
    <2> QED
      BY <2>5, <2>6, <2>8
  <1>7. ASSUME NEW n \in 1..Len(plans), NEW f \in Filters, Wanted(plans[n].interest, f)
        PROVE  \E c, j : /\ AtPlan(cs, plans, c, n, j)
                         /\ cs[c].place = <<plans[n].descriptor, f>>
    <2> DEFINE fs == FiltersOf(plans[n].interest)
    <2>1. plans[n].interest \in Interests
      BY <1>1 DEF PlanType
    <2>2. PICK j \in 1..Len(fs) : fs[j] = f
      BY <1>7, <2>1, FilterLists
    <2>3. j \in 1..change_count(plans[n])
      BY <2>2 DEF change_count
    <2>4. AtPlan(cs, plans, Before(plans)[n] + j, n, j)
      BY <1>3, <2>3
    <2>5. cs[Before(plans)[n] + j].place = <<plans[n].descriptor, fs[j]>>
      BY <1>4, <2>4
    <2> QED
      BY <2>2, <2>4, <2>5
  <1>8. ChangeList(cs)
    <2>1. ASSUME NEW c \in 1..Len(cs)
          PROVE  /\ cs[c].place \in Descriptors \X Filters
                 /\ cs[c].action = "Disable" /\ cs[c].token = 0
      BY <1>3, <1>5
    <2> QED
      BY <1>3, <1>6, <2>1 DEF ChangeList
  <1>9. \A c \in 1..Len(cs) : cs[c].action = "Disable" /\ cs[c].token = 0
    BY <1>3, <1>5
  <1> QED
    BY <1>5, <1>7, <1>8, <1>9 DEF cs

------------------------------------------------------------------------------
(* The second call of kevent, and its outcomes.                            *)

\* What a receipt for a disabling change says (KeventBatch::receipt).
LEMMA ReceiptTrue ==
    ASSUME NEW ks, NEW cs, Len(cs) \in Nat, NEW s \in Submissions(ks, cs),
           \A c \in 1..Len(cs) : cs[c].action = "Disable",
           s.native.kind = "Receipts", NEW c \in 1..Len(cs)
    PROVE  LET r == receipt(s.native.results, c)
           IN  /\ r \in {"Applied", "AlreadyAbsent", "errno", "Unknown"}
               /\ r \in {"Applied", "AlreadyAbsent"} =>
                     c \in s.took \/ Absent(ks[cs[c].place])
               /\ r = "errno" => c \notin s.took
  <1> DEFINE results == s.native.results
             r == receipt(results, c)
  <1>0. PICK n \in 0..(Len(cs) + 1) : \E g \in SUBSET (1..n) :
                results = Returned(ks, cs, s.took, n, g)
    BY Answers
  <1>1. PICK g \in SUBSET (1..n) : results = Returned(ks, cs, s.took, n, g)
    BY <1>0
  <1>2. /\ DOMAIN results = 1..n
        /\ \A k \in 1..n : results[k] = IF k \in g THEN "Unknown"
                                       ELSE IF k \in s.took THEN "Applied"
                                       ELSE IF k \in CanTake(ks, cs) THEN "errno"
                                       ELSE "ENOENT"
    BY <1>1, ReturnedTrue
  <1> HIDE DEF results
  <1>3. c \notin CanTake(ks, cs) => Absent(ks[cs[c].place])
    BY DEF CanTake
  <1>4. CASE c \notin 1..n
    BY <1>2, <1>4 DEF receipt, results
  <1>5. CASE c \in 1..n
    <2>1. results[c] \in {"Unknown", "Applied", "errno", "ENOENT"}
      BY <1>2, <1>5
    <2>2. r = IF results[c] = "ENOENT" THEN "AlreadyAbsent" ELSE results[c]
      BY <1>2, <1>5 DEF receipt
    <2>3. results[c] = "ENOENT" => Absent(ks[cs[c].place])
      BY <1>2, <1>3, <1>5
    <2>4. results[c] = "Applied" => c \in s.took
      BY <1>2, <1>5
    <2>5. results[c] = "errno" => c \notin s.took
      BY <1>2, <1>5
    <2> HIDE DEF r
    <2>6. /\ r \in {"Applied", "AlreadyAbsent", "errno", "Unknown"}
          /\ r \in {"Applied", "AlreadyAbsent"} =>
                c \in s.took \/ Absent(ks[cs[c].place])
          /\ r = "errno" => c \notin s.took
      BY <2>1, <2>2, <2>3, <2>4, <2>5
    <2> QED
      BY <2>6 DEF r, results
  <1> QED
    BY <1>4, <1>5

\* The outcome of one plan against what became of its knotes.
TrueOutcome(plan, end, now) ==
    /\ end.registration = plan.registration
    /\ end.commit \in CommitStatus
    /\ \A f \in Filters :
          LET at == <<plan.descriptor, f>>
          IN  /\ ~Wanted(plan.interest, f) => now[at] = knotes[at]
              /\ end.commit = "NotApplied" => now[at] = knotes[at]
              /\ end.commit = "Applied" /\ Wanted(plan.interest, f) =>
                    \/ now[at] = [token |-> 0, enabled |-> FALSE]
                    \/ now[at] = knotes[at] /\ Absent(knotes[at])

\* The outcomes of all the plans, and whether the submission counts as failed.
TrueOutcomes(plans, o) ==
    /\ KnotesTyped(o.knotes)
    /\ Len(o.plans) = Len(plans)
    /\ \A n \in 1..Len(plans) : TrueOutcome(plans[n], o.plans[n], o.knotes)
    /\ o.failed \in BOOLEAN
    /\ o.failed <=> \E n \in 1..Len(plans) : o.plans[n].commit # "Applied"
    /\ \A d \in Descriptors, f \in Filters :
          (\A n \in 1..Len(plans) : plans[n].descriptor # d) =>
              o.knotes[<<d, f>>] = knotes[<<d, f>>]

\* A commit status that is true of the changes of a plan is true of its knotes.
LEMMA OutcomeOfChanges ==
    ASSUME Inv, NEW plans, Planned(plans), NEW took,
           took \subseteq 1..Len(changes(plans)),
           NEW n \in 1..Len(plans), NEW end,
           end.registration = plans[n].registration, end.commit \in CommitStatus,
           \A c, j : AtPlan(changes(plans), plans, c, n, j) =>
              /\ end.commit = "Applied" =>
                    c \in took \/ Absent(knotes[changes(plans)[c].place])
              /\ end.commit = "NotApplied" => c \notin took
    PROVE  TrueOutcome(plans[n], end, Applied(knotes, changes(plans), took))
  <1> DEFINE cs == changes(plans)
             now == Applied(knotes, cs, took)
             plan == plans[n]
  <1>1. /\ ChangeList(cs)
        /\ \A c \in 1..Len(cs) : cs[c].action = "Disable" /\ cs[c].token = 0
        /\ \A c, m, j : AtPlan(cs, plans, c, m, j) =>
              /\ cs[c].place \in Descriptors \X Filters
              /\ cs[c].place[1] = plans[m].descriptor
              /\ Wanted(plans[m].interest, cs[c].place[2])
        /\ \A f \in Filters : Wanted(plan.interest, f) =>
              \E c, j : /\ AtPlan(cs, plans, c, n, j)
                        /\ cs[c].place = <<plan.descriptor, f>>
    BY DisarmChanges
  <1>2. \A c \in 1..Len(cs) : \E m, j : AtPlan(cs, plans, c, m, j)
    <2>1. Len(plans) \in Nat /\ \A m \in 1..Len(plans) : plans[m] \in PlanType
      BY DEF Planned
    <2>2. \A m \in 1..Len(plans) : change_count(plans[m]) \in 1..2
      BY <2>1, ChangeCounts
    <2> QED
      BY <2>1, <2>2, ChangesRun
  <1>3. plan.descriptor \in Descriptors
    <2>1. plan \in PlanType
      BY DEF Planned
    <2> HIDE DEF plan
    <2> QED
      BY <2>1 DEF PlanType
  <1> HIDE DEF cs
  <1>4. /\ \A c \in took : now[cs[c].place] = After(knotes[cs[c].place], cs[c])
        /\ \A c \in 1..Len(cs) : c \notin took => now[cs[c].place] = knotes[cs[c].place]
        /\ \A p \in Places : (\A c \in 1..Len(cs) : cs[c].place # p) => now[p] = knotes[p]
    <2>1. KnotesTyped(knotes) /\ took \in SUBSET (1..Len(cs))
      BY DEF Inv, cs
    <2> QED
      BY <1>1, <2>1, Effect
  <1> HIDE DEF now
  <1>5. ASSUME NEW f \in Filters
        PROVE  LET at == <<plan.descriptor, f>>
               IN  /\ ~Wanted(plan.interest, f) => now[at] = knotes[at]
                   /\ end.commit = "NotApplied" => now[at] = knotes[at]
                   /\ end.commit = "Applied" /\ Wanted(plan.interest, f) =>
                         \/ now[at] = [token |-> 0, enabled |-> FALSE]
                         \/ now[at] = knotes[at] /\ Absent(knotes[at])
    <2> DEFINE at == <<plan.descriptor, f>>
    <2>1. at \in Places
      BY <1>3 DEF Places
    <2>2. CASE ~Wanted(plan.interest, f)
      <3>1. ASSUME NEW c \in 1..Len(cs), cs[c].place = at PROVE FALSE
        <4>1. PICK m, j : AtPlan(cs, plans, c, m, j)
          BY <1>2
        <4>2. /\ plans[m].descriptor = plan.descriptor
              /\ Wanted(plans[m].interest, f) /\ m \in 1..Len(plans)
          BY <1>1, <3>1, <4>1 DEF AtPlan
        <4>3. m = n
          BY <4>2, PlansApart
        <4> QED
          BY <2>2, <4>2, <4>3
      <3>2. now[at] = knotes[at]
        BY <1>4, <2>1, <3>1
      <3> QED
        BY <2>2, <3>2
    <2>3. CASE Wanted(plan.interest, f)
      <3>1. PICK c, j : AtPlan(cs, plans, c, n, j) /\ cs[c].place = at
        BY <1>1, <2>3
      <3>2. /\ c \in 1..Len(cs)
            /\ end.commit = "Applied" => c \in took \/ Absent(knotes[at])
            /\ end.commit = "NotApplied" => c \notin took
        BY <3>1 DEF AtPlan, cs
      <3>3. CASE c \in took
        <4>1. now[at] = After(knotes[at], cs[c])
          BY <1>4, <3>1, <3>3
        <4>2. now[at] = [token |-> 0, enabled |-> FALSE]
          BY <1>1, <3>2, <4>1 DEF After
        <4> QED
          BY <2>3, <3>2, <3>3, <4>2
      <3>4. CASE c \notin took
        <4>1. now[at] = knotes[at]
          BY <1>4, <3>1, <3>2, <3>4
        <4> QED
          BY <2>3, <3>2, <3>4, <4>1
      <3> QED
        BY <3>3, <3>4
    <2> QED
      BY <2>2, <2>3
  <1>6. TrueOutcome(plan, end, now)
    <2> HIDE DEF plan
    <2>1. end.registration = plan.registration
      BY DEF plan
    <2> QED
      BY <1>5, <2>1, Zenon DEF TrueOutcome
  <1> QED
    BY <1>6 DEF now, cs

\* What a submission that ended in `end' plans leaves.
LEMMA OutcomesOfChanges ==
    ASSUME Inv, NEW plans, Planned(plans), NEW s \in Submissions(knotes, changes(plans)),
           NEW ends, NEW failed \in BOOLEAN, Len(ends) = Len(plans),
           failed <=> \E n \in 1..Len(plans) : ends[n].commit # "Applied",
           \A n \in 1..Len(plans) :
              /\ ends[n].registration = plans[n].registration
              /\ ends[n].commit \in CommitStatus
              /\ \A c, j : AtPlan(changes(plans), plans, c, n, j) =>
                    /\ ends[n].commit = "Applied" =>
                          \/ c \in s.took
                          \/ Absent(knotes[changes(plans)[c].place])
                    /\ ends[n].commit = "NotApplied" => c \notin s.took,
           NEW o, o.knotes = Applied(knotes, changes(plans), s.took),
           o.plans = ends, o.failed = failed
    PROVE  TrueOutcomes(plans, o)
  <1> DEFINE cs == changes(plans)
             now == Applied(knotes, cs, s.took)
  <1>1. /\ ChangeList(cs)
        /\ \A c, m, j : AtPlan(cs, plans, c, m, j) => cs[c].place[1] = plans[m].descriptor
    BY DisarmChanges
  <1>2. \A c \in 1..Len(cs) : \E m, j : AtPlan(cs, plans, c, m, j)
    <2>1. Len(plans) \in Nat /\ \A m \in 1..Len(plans) : plans[m] \in PlanType
      BY DEF Planned
    <2>2. \A m \in 1..Len(plans) : change_count(plans[m]) \in 1..2
      BY <2>1, ChangeCounts
    <2> QED
      BY <2>1, <2>2, ChangesRun
  <1>3. s.took \subseteq 1..Len(cs)
    BY <1>1, Answers DEF ChangeList
  <1>4. \A n \in 1..Len(plans) : TrueOutcome(plans[n], ends[n], now)
    BY <1>3, OutcomeOfChanges
  <1> HIDE DEF cs
  <1>5. /\ KnotesTyped(now)
        /\ \A p \in Places : (\A c \in 1..Len(cs) : cs[c].place # p) => now[p] = knotes[p]
    <2>1. KnotesTyped(knotes) /\ s.took \in SUBSET (1..Len(cs))
      BY <1>3 DEF Inv
    <2> QED
      BY <1>1, <2>1, Effect
  <1> HIDE DEF now
  <1>6. ASSUME NEW d \in Descriptors, NEW f \in Filters,
               \A n \in 1..Len(plans) : plans[n].descriptor # d
        PROVE  now[<<d, f>>] = knotes[<<d, f>>]
    <2>1. <<d, f>> \in Places
      BY DEF Places
    <2>2. ASSUME NEW c \in 1..Len(cs), cs[c].place = <<d, f>> PROVE FALSE
      <3>1. PICK m, j : AtPlan(cs, plans, c, m, j)
        BY <1>2
      <3>2. m \in 1..Len(plans)
        BY <3>1 DEF AtPlan
      <3>3. cs[c].place[1] = plans[m].descriptor
        BY <1>1, <3>1
      <3>4. plans[m].descriptor = d
        BY <2>2, <3>3
      <3> QED
        BY <1>6, <3>2, <3>4
    <2> QED
      BY <1>5, <2>1, <2>2
  <1>7. o.knotes = now /\ o.plans = ends /\ o.failed = failed
    BY DEF now, cs
  <1> QED
    BY <1>4, <1>5, <1>6, <1>7 DEF TrueOutcomes

\* The outcomes DisarmBatch::submit reports are true, whatever the kernel did.
LEMMA SubmitTrue ==
    ASSUME Inv, NEW plans, Planned(plans), NEW o \in submit_disarms(plans)
    PROVE  TrueOutcomes(plans, o)
  <1>0. Len(plans) \in Nat /\ \A n \in 1..Len(plans) : plans[n] \in PlanType
    BY DEF Planned
  <1>1. CASE plans = <<>>
    <2>1. o = [knotes |-> knotes, plans |-> <<>>, failed |-> FALSE]
      BY <1>1 DEF submit_disarms
    <2>2. o.knotes = knotes /\ Len(o.plans) = 0 /\ o.failed = FALSE /\ Len(plans) = 0
      BY <1>1, <2>1
    <2>3. KnotesTyped(knotes) /\ 1..0 = {}
      BY DEF Inv
    <2> QED
      BY <2>2, <2>3 DEF TrueOutcomes
  <1>2. CASE plans # <<>>
    <2> DEFINE cs == changes(plans)
    <2>1. PICK s \in Submissions(knotes, cs) :
              o = [knotes |-> Applied(knotes, cs, s.took),
                   plans |-> submit(plans, s.native).plans,
                   failed |-> submit(plans, s.native).failed]
      BY <1>2 DEF submit_disarms
    <2>2. /\ o.knotes = Applied(knotes, cs, s.took)
          /\ o.plans = submit(plans, s.native).plans
          /\ o.failed = submit(plans, s.native).failed
      BY <2>1
    <2>3. 1 \in 1..Len(plans)
      <3>1. Len(plans) # 0
        BY <1>2 DEF Planned
      <3> QED
        BY <1>0, <3>1
    <2>4. /\ ChangeList(cs)
          /\ \A c \in 1..Len(cs) : cs[c].action = "Disable"
      BY DisarmChanges
    <2>5. /\ s.took \subseteq CanTake(knotes, cs)
          /\ \/ s.native.kind = "Unknown"
             \/ s.native.kind = "AppliedWithoutReceipts" /\ s.took = CanTake(knotes, cs)
             \/ s.native.kind = "Receipts"
      BY <2>4, Answers DEF ChangeList
    <2>6. ASSUME NEW status \in CommitStatus, NEW n \in 1..Len(plans)
          PROVE  LET ends == fill_outcomes(plans, status)
                 IN  /\ Len(ends) = Len(plans)
                     /\ ends[n].registration = plans[n].registration
                     /\ ends[n].commit = status
      <3>1. fill_outcomes(plans, status)[n] = [plans[n] EXCEPT !.commit = status]
        BY DEF fill_outcomes
      <3>2. Len(fill_outcomes(plans, status)) = Len(plans)
        BY <1>0 DEF fill_outcomes
      <3>3. plans[n] \in PlanType
        BY <1>0
      <3> QED
        BY <3>1, <3>2, <3>3 DEF PlanType
    <2>7. CASE \/ s.native.kind = "Unknown"
               \/ s.native.kind = "Receipts" /\ Surplus(plans, s.native.results)
      <3> DEFINE ends == fill_outcomes(plans, "Unknown")
      <3>1. submit(plans, s.native) = [plans |-> ends, failed |-> TRUE]
        BY <2>7 DEF submit, reduce_receipts
      <3>2. o.plans = ends /\ o.failed = TRUE
        BY <2>2, <3>1
      <3>3. \A n \in 1..Len(plans) : /\ Len(ends) = Len(plans)
                                     /\ ends[n].registration = plans[n].registration
                                     /\ ends[n].commit = "Unknown"
        BY <2>6 DEF CommitStatus
      <3> HIDE DEF ends, cs
      <3>4. \A n \in 1..Len(plans) :
              /\ ends[n].registration = plans[n].registration
              /\ ends[n].commit \in CommitStatus
              /\ \A c, j : AtPlan(cs, plans, c, n, j) =>
                    /\ ends[n].commit = "Applied" =>
                          c \in s.took \/ Absent(knotes[cs[c].place])
                    /\ ends[n].commit = "NotApplied" => c \notin s.took
        BY <3>3 DEF CommitStatus
      <3>5. TRUE <=> \E n \in 1..Len(plans) : ends[n].commit # "Applied"
        BY <2>3, <3>3
      <3> QED
        BY <2>2, <2>3, <3>2, <3>3, <3>4, <3>5, OutcomesOfChanges DEF cs
    <2>8. CASE s.native.kind = "AppliedWithoutReceipts"
      <3> DEFINE ends == fill_outcomes(plans, "Applied")
      <3>1. submit(plans, s.native) = [plans |-> ends, failed |-> FALSE]
        BY <2>8 DEF submit
      <3>2. o.plans = ends /\ o.failed = FALSE
        BY <2>2, <3>1
      <3>3. \A n \in 1..Len(plans) : /\ Len(ends) = Len(plans)
                                     /\ ends[n].registration = plans[n].registration
                                     /\ ends[n].commit = "Applied"
        BY <2>6 DEF CommitStatus
      <3> HIDE DEF ends
      <3>4. \A c \in 1..Len(cs) : c \in s.took \/ Absent(knotes[cs[c].place])
        BY <2>4, <2>5, <2>8 DEF CanTake
      <3> HIDE DEF cs
      <3>5. \A n \in 1..Len(plans) :
              /\ ends[n].registration = plans[n].registration
              /\ ends[n].commit \in CommitStatus
              /\ \A c, j : AtPlan(cs, plans, c, n, j) =>
                    /\ ends[n].commit = "Applied" =>
                          c \in s.took \/ Absent(knotes[cs[c].place])
                    /\ ends[n].commit = "NotApplied" => c \notin s.took
        BY <3>3, <3>4 DEF CommitStatus, AtPlan
      <3>6. FALSE <=> \E n \in 1..Len(plans) : ends[n].commit # "Applied"
        BY <3>3
      <3> QED
        BY <2>2, <2>3, <3>2, <3>3, <3>5, <3>6, OutcomesOfChanges DEF cs
    <2>9. CASE s.native.kind = "Receipts" /\ ~Surplus(plans, s.native.results)
      <3> DEFINE results == s.native.results
                 ends == reduce_receipts(plans, results)
                 good == {"Applied", "AlreadyAbsent"}
                 bad == \E c \in 1..change_len(plans) : receipt(results, c) \notin good
                 answers(n) == [k \in 1..change_count(plans[n]) |->
                                   receipt(results, Before(plans)[n] + k)]
      <3>1. submit(plans, s.native) = [plans |-> ends, failed |-> bad]
        <4>1. s.native.kind # "Unknown" /\ s.native.kind # "AppliedWithoutReceipts"
          BY <2>9
        <4> QED
          BY <2>9, <4>1 DEF submit
      <3>2. o.plans = ends /\ o.failed = bad
        <4> HIDE DEF ends, bad
        <4> QED
          BY <2>2, <3>1
      <3>3. Len(ends) = Len(plans)
        BY <1>0, <2>9 DEF reduce_receipts
      <3>4. ASSUME NEW n \in 1..Len(plans)
            PROVE  /\ ends[n].registration = plans[n].registration
                   /\ ends[n].commit = commit(answers(n))
        <4>1. ends[n] = [plans[n] EXCEPT !.commit = commit(answers(n))]
          BY <2>9 DEF reduce_receipts
        <4>2. plans[n] \in PlanType
          BY <1>0
        <4> HIDE DEF answers, ends
        <4> QED
          BY <4>1, <4>2 DEF PlanType
      <3>5. ASSUME NEW n \in 1..Len(plans)
            PROVE  /\ ends[n].commit \in CommitStatus
                   /\ ends[n].commit = "Applied" <=>
                         \A j \in 1..change_count(plans[n]) :
                            receipt(results, Before(plans)[n] + j) \in good
                   /\ ends[n].commit = "NotApplied" =>
                         \A j \in 1..change_count(plans[n]) :
                            receipt(results, Before(plans)[n] + j) = "errno"
        <4> DEFINE a == answers(n)
        <4>1. /\ DOMAIN a = 1..change_count(plans[n])
              /\ \A j \in 1..change_count(plans[n]) :
                    a[j] = receipt(results, Before(plans)[n] + j)
          OBVIOUS
        <4> HIDE DEF a, ends
        <4>2. /\ commit(a) \in CommitStatus
              /\ commit(a) = "Applied" <=> \A j \in DOMAIN a : a[j] \in good
              /\ commit(a) = "NotApplied" => \A j \in DOMAIN a : a[j] = "errno"
          BY DEF commit, CommitStatus
        <4>3. ends[n].commit = commit(a)
          BY <3>4 DEF a
        <4> QED
          BY <4>1, <4>2, <4>3
      <3>6. \A n \in 1..Len(plans) : change_count(plans[n]) \in 1..2
        BY <1>0, ChangeCounts
      <3>7. /\ Len(cs) = change_len(plans)
            /\ \A n \in 1..Len(plans) : \A j \in 1..change_count(plans[n]) :
                  AtPlan(cs, plans, Before(plans)[n] + j, n, j)
            /\ \A c \in 1..Len(cs) : \E n, j : AtPlan(cs, plans, c, n, j)
        BY <1>0, <3>6, ChangesRun
      <3>8. \A c \in 1..Len(cs) :
               /\ receipt(results, c) \in good =>
                     c \in s.took \/ Absent(knotes[cs[c].place])
               /\ receipt(results, c) = "errno" => c \notin s.took
        BY <2>4, <2>9, ReceiptTrue DEF ChangeList
      <3> HIDE DEF ends, cs, results, answers, good
      <3>9. \A n \in 1..Len(plans) :
              /\ ends[n].registration = plans[n].registration
              /\ ends[n].commit \in CommitStatus
              /\ \A c, j : AtPlan(cs, plans, c, n, j) =>
                    /\ ends[n].commit = "Applied" =>
                          c \in s.took \/ Absent(knotes[cs[c].place])
                    /\ ends[n].commit = "NotApplied" => c \notin s.took
        BY <3>4, <3>5, <3>8 DEF AtPlan
      <3>10. bad <=> \E n \in 1..Len(plans) : ends[n].commit # "Applied"
        <4>1. ASSUME NEW c \in 1..change_len(plans), receipt(results, c) \notin good
              PROVE  \E n \in 1..Len(plans) : ends[n].commit # "Applied"
          <5>1. PICK n, j : AtPlan(cs, plans, c, n, j)
            BY <3>7, <4>1
          <5>2. /\ n \in 1..Len(plans) /\ j \in 1..change_count(plans[n])
                /\ c = Before(plans)[n] + j
            BY <5>1 DEF AtPlan
          <5> QED
            BY <3>5, <4>1, <5>2
        <4>2. ASSUME NEW n \in 1..Len(plans), ends[n].commit # "Applied"
              PROVE  bad
          <5>1. PICK j \in 1..change_count(plans[n]) :
                    receipt(results, Before(plans)[n] + j) \notin good
            BY <3>5, <4>2
          <5>2. Before(plans)[n] + j \in 1..change_len(plans)
            BY <3>7, <5>1 DEF AtPlan
          <5> QED
            BY <5>1, <5>2
        <4> QED
          BY <4>1, <4>2
      <3>11. bad \in BOOLEAN
        BY Zenon
      <3> HIDE DEF bad
      <3> QED
        BY <2>2, <3>2, <3>3, <3>9, <3>10, <3>11, OutcomesOfChanges DEF cs
    <2> QED
      BY <2>5, <2>7, <2>8, <2>9
  <1> QED
    BY <1>1, <1>2

------------------------------------------------------------------------------
(* The outcomes, entered in the table.                                     *)

\* The slot of a delivered one-shot registration, its outcome entered.
Changed(i, status) ==
    [generation |-> table.slots[i].generation,
     entry |-> [table.slots[i].entry EXCEPT !.state = OutcomeState(status)],
     next_free |-> table.slots[i].next_free]

\* Outcomes in the order of the plans.
Matching(plans, ends) ==
    /\ Len(ends) = Len(plans)
    /\ \A n \in 1..Len(plans) : /\ ends[n].registration = plans[n].registration
                                /\ ends[n].commit \in CommitStatus

\* The table once the first m outcomes have been entered.
Entering(plans, ends, m, u) ==
    /\ TableInv(u)
    /\ \A i \in Index :
          /\ \A k \in 1..m : PlanFor(plans[k], i) =>
                                u.slots[i] = Changed(i, ends[k].commit)
          /\ (\A k \in 1..m : ~PlanFor(plans[k], i)) => u.slots[i] = table.slots[i]

\* A plan is for one slot, and no other plan is for it.
LEMMA PlanForOnce ==
    ASSUME Inv, NEW plans, Planned(plans), NEW m \in 1..Len(plans),
           NEW n \in 1..Len(plans), NEW i \in Index, NEW j \in Index,
           PlanFor(plans[m], i), PlanFor(plans[n], j)
    PROVE  m = n <=> i = j
  <1>1. ASSUME m = n PROVE i = j
    BY <1>1, ArmedApart DEF PlanFor
  <1>2. ASSUME i = j PROVE m = n
    BY <1>2 DEF PlanFor, Planned
  <1> QED
    BY <1>1, <1>2

\* What apply_disarm leaves of table t.
DisarmLeaves(t, i, status) ==
    LET u == apply_disarm(t, i, status)
        e == [t.slots[i].entry EXCEPT !.state = OutcomeState(status)]
    IN  /\ TableInv(u)
        /\ u.slots = [t.slots EXCEPT ![i] =
                         [generation |-> t.slots[i].generation, entry |-> e,
                          next_free |-> t.slots[i].next_free]]
        /\ e \in Entry /\ e.state = OutcomeState(status)

\* The entry an outcome leaves (apply_disarm).
LEMMA DisarmedEntry ==
    ASSUME NEW t, TableInv(t), NEW i \in Index, t.slots[i].entry # None,
           t.slots[i].entry.state = "Armed", NEW status \in CommitStatus
    PROVE  DisarmLeaves(t, i, status)
  <1> DEFINE old == t.slots[i].entry
             e == [old EXCEPT !.state = OutcomeState(status)]
  <1>1. old \in Entry
    BY Occupies
  <1>2. OutcomeState(status) \in RegistrationStates
    BY DEF OutcomeState, CommitStatus, RegistrationStates
  <1>3. e \in Entry /\ e.state = OutcomeState(status)
    <2> HIDE DEF old
    <2> QED
      BY <1>1, <1>2 DEF Entry
  <1>4. apply_disarm(t, i, status) = SetEntry(t, i, e)
    <2>1. OutcomeState(status) = CASE status = "Applied"    -> "Disarmed"
                                   [] status = "NotApplied" -> old.state
                                   [] status = "Unknown"    -> "Uncertain"
      BY DEF OutcomeState, CommitStatus
    <2> QED
      BY <2>1 DEF apply_disarm
  <1> HIDE DEF e
  <1>5. /\ TableInv(SetEntry(t, i, e))
        /\ SetEntry(t, i, e).slots =
              [t.slots EXCEPT ![i] = [generation |-> t.slots[i].generation,
                                      entry |-> e,
                                      next_free |-> t.slots[i].next_free]]
    BY <1>3, SetEntryInv
  <1> QED
    BY <1>3, <1>4, <1>5 DEF e, DisarmLeaves

\* One outcome is entered, and never refused.
LEMMA EnteredOne ==
    ASSUME Inv, NEW plans, Planned(plans), NEW ends, Matching(plans, ends),
           NEW m \in 0..(Len(plans) - 1), NEW u, Entering(plans, ends, m, u)
    PROVE  \E v : /\ Entering(plans, ends, m + 1, v)
                  /\ Entered([table |-> u, failed |-> FALSE], ends[m + 1])
                        = [table |-> v, failed |-> FALSE]
  <1> DEFINE q == m + 1
             c == ends[q].commit
  <1>1. /\ Len(plans) \in Nat /\ m \in Nat /\ q \in 1..Len(plans)
        /\ 1..q = (1..m) \cup {q} /\ \A k \in 1..m : k \in 1..Len(plans) /\ k # q
    BY DEF Planned
  <1> HIDE DEF q
  <1>2. PICK i \in Index : PlanFor(plans[q], i)
    BY <1>1 DEF Planned
  <1>3. u.slots[i] = table.slots[i] /\ TableInv(u)
    BY <1>1, <1>2, PlanForOnce DEF Entering
  <1>4. /\ ends[q].registration = IdOf(i) /\ c \in CommitStatus
        /\ decode(IdOf(i)).index = i /\ Armed(i)
        /\ table.slots[i].entry.mode = "OneShot"
    BY <1>1, <1>2, ArmedId DEF Matching, PlanFor
  <1> HIDE DEF c
  <1> DEFINE v == apply_disarm(u, i, c)
  <1>5. /\ TableInv(v)
        /\ v.slots = [u.slots EXCEPT ![i] = Changed(i, c)]
        /\ Changed(i, c).entry.state = OutcomeState(c)
    <2>1. /\ u.slots[i].entry # None /\ u.slots[i].entry.state = "Armed"
          /\ c \in CommitStatus /\ TableInv(u)
      BY <1>3, <1>4 DEF Armed
    <2> DEFINE e == [u.slots[i].entry EXCEPT !.state = OutcomeState(c)]
               s == [generation |-> u.slots[i].generation, entry |-> e,
                     next_free |-> u.slots[i].next_free]
    <2>2. TableInv(v) /\ v.slots = [u.slots EXCEPT ![i] = s] /\ e.state = OutcomeState(c)
      <3>1. DisarmLeaves(u, i, c)
        BY <2>1, DisarmedEntry
      <3> QED
        BY <3>1 DEF DisarmLeaves
    <2>3. s = Changed(i, c) /\ s.entry = e
      BY <1>3 DEF Changed
    <2> HIDE DEF s, e, v
    <2> QED
      BY <2>2, <2>3
  <1>6. u.slots \in [Index -> Slot]
    BY <1>3 DEF TableInv, Table
  <1> HIDE DEF v
  <1>7. /\ v.slots[i] = Changed(i, c)
        /\ \A j \in Index : j # i => v.slots[j] = u.slots[j]
    BY <1>5, <1>6
  <1>8. Entering(plans, ends, q, v)
    <2>1. ASSUME NEW j \in Index, NEW k \in 1..q, PlanFor(plans[k], j)
          PROVE  v.slots[j] = Changed(j, ends[k].commit)
      <3>1. CASE k = q
        BY <1>1, <1>2, <1>7, <2>1, <3>1, PlanForOnce DEF c
      <3>2. CASE k # q
        <4>1. k \in 1..m /\ k \in 1..Len(plans)
          BY <1>1, <3>2
        <4>2. j # i
          BY <1>1, <1>2, <2>1, <3>2, <4>1, PlanForOnce
        <4> QED
          BY <1>7, <2>1, <4>1, <4>2 DEF Entering
      <3> QED
        BY <3>1, <3>2
    <2>2. ASSUME NEW j \in Index, \A k \in 1..q : ~PlanFor(plans[k], j)
          PROVE  v.slots[j] = table.slots[j]
      <3>1. j # i
        BY <1>1, <1>2, <2>2
      <3> QED
        BY <1>1, <1>7, <2>2, <3>1 DEF Entering
    <2> QED
      BY <1>5, <2>1, <2>2 DEF Entering
  <1>9. Entered([table |-> u, failed |-> FALSE], ends[q])
            = [table |-> v, failed |-> FALSE]
    <2> DEFINE acc == [table |-> u, failed |-> FALSE]
    <2>1. acc.table = u /\ acc.failed = FALSE
      OBVIOUS
    <2>2. ~DisarmRefused(u, i)
      BY <1>3, <1>4 DEF DisarmRefused, Armed
    <2>3. decode(ends[q].registration).index = i
      BY <1>4
    <2>4. v.slots[i].entry.state = OutcomeState(ends[q].commit)
      BY <1>5, <1>7 DEF c
    <2>5. v = apply_disarm(acc.table, i, ends[q].commit)
      BY <2>1 DEF v, c
    <2> HIDE DEF acc
    <2>6. Entered(acc, ends[q]) =
             [table |-> v,
              failed |-> v.slots[i].entry.state # OutcomeState(ends[q].commit)]
      BY <2>1, <2>2, <2>3, <2>5, Zenon DEF Entered
    <2>7. (v.slots[i].entry.state # OutcomeState(ends[q].commit)) = FALSE
      BY <2>4, Zenon
    <2> QED
      BY <2>6, <2>7, Zenon DEF acc
  <1> QED
    BY <1>8, <1>9, Zenon DEF q

\* The recursion that Disarmed runs has a solution.
LEMMA DisarmedRuns ==
    ASSUME NEW t, NEW plans, Len(plans) \in Nat
    PROVE  \E after :
              /\ after = [n \in 0..Len(plans) |->
                            IF n = 0 THEN [table |-> t, failed |-> FALSE]
                            ELSE Entered(after[n - 1], plans[n])]
              /\ Disarmed(t, plans) = after[Len(plans)]
  <1> DEFINE N == Len(plans)
             Runs(m, f) == f = [n \in 0..m |->
                                  IF n = 0 THEN [table |-> t, failed |-> FALSE]
                                  ELSE Entered(f[n - 1], plans[n])]
             T == {m \in 0..N : \E f : Runs(m, f)}
  <1>0. N \in Nat
    OBVIOUS
  <1> HIDE DEF N
  <1>1. 0 \in T
    <2> DEFINE f == [n \in 0..0 |-> [table |-> t, failed |-> FALSE]]
    <2>1. Runs(0, f)
      OBVIOUS
    <2> HIDE DEF f, Runs
    <2> QED
      BY <1>0, <2>1
  <1>2. ASSUME NEW m \in 0..(N - 1), m \in T PROVE m + 1 \in T
    <2>1. PICK f : Runs(m, f)
      BY <1>2
    <2> DEFINE g == [n \in 0..(m + 1) |->
                        IF n = m + 1 THEN Entered(f[m], plans[m + 1]) ELSE f[n]]
    <2>2. ASSUME NEW n \in 0..(m + 1)
          PROVE  g[n] = IF n = 0 THEN [table |-> t, failed |-> FALSE]
                        ELSE Entered(g[n - 1], plans[n])
      <3>1. CASE n = m + 1
        BY <3>1
      <3>2. CASE n # m + 1
        <4>1. n \in 0..m
          BY <3>2
        <4>2. f[n] = IF n = 0 THEN [table |-> t, failed |-> FALSE]
                     ELSE Entered(f[n - 1], plans[n])
          BY <2>1, <4>1
        <4> QED
          BY <4>1, <4>2
      <3> QED
        BY <3>1, <3>2
    <2>3. g = [n \in 0..(m + 1) |-> g[n]]
      OBVIOUS
    <2> HIDE DEF g
    <2>4. Runs(m + 1, g)
      BY <2>2, <2>3
    <2> HIDE DEF Runs
    <2> QED
      BY <1>0, <2>4
  <1> HIDE DEF T
  <1>3. N \in T
    <2>1. \A m \in 0..N : m \in T
      BY <1>0, <1>1, <1>2, UpTo
    <2> QED
      BY <1>0, <2>1
  <1>4. \E f : Runs(N, f)
    BY <1>3 DEF T
  <1> DEFINE after == CHOOSE f : Runs(N, f)
  <1>5. Disarmed(t, plans) = after[N]
    BY DEF Disarmed, N
  <1>6. Runs(N, after)
    BY <1>4, Zenon
  <1> HIDE DEF after
  <1> QED
    BY <1>5, <1>6, Zenon DEF N

\* The outcomes are all entered in the table (observe_recovery.rs).
LEMMA DisarmedEntered ==
    ASSUME Inv, NEW plans, Planned(plans), NEW ends, Matching(plans, ends)
    PROVE  \E u : /\ Entering(plans, ends, Len(plans), u)
                  /\ Disarmed(table, ends) = [table |-> u, failed |-> FALSE]
  <1> DEFINE N == Len(plans)
  <1>1. N \in Nat /\ Len(ends) = N
    BY DEF Planned, Matching
  <1>2. PICK after : /\ after = [n \in 0..N |->
                            IF n = 0 THEN [table |-> table, failed |-> FALSE]
                            ELSE Entered(after[n - 1], ends[n])]
                     /\ Disarmed(table, ends) = after[N]
    <2>1. Len(ends) \in Nat
      BY <1>1
    <2>2. \E after : /\ after = [n \in 0..Len(ends) |->
                                   IF n = 0 THEN [table |-> table, failed |-> FALSE]
                                   ELSE Entered(after[n - 1], ends[n])]
                     /\ Disarmed(table, ends) = after[Len(ends)]
      BY <2>1, DisarmedRuns, Zenon
    <2> HIDE DEF N
    <2> QED
      BY <1>1, <2>2, Zenon
  <1> DEFINE Fine(m, a) == \E u : /\ Entering(plans, ends, m, u)
                                  /\ a = [table |-> u, failed |-> FALSE]
             T == {m \in 0..N : Fine(m, after[m])}
  <1> HIDE DEF N
  <1>3. 0 \in T
    <2>1. after[0] = [table |-> table, failed |-> FALSE]
      BY <1>1, <1>2
    <2>2. Entering(plans, ends, 0, table)
      BY DEF Entering, Inv
    <2>3. Fine(0, after[0])
      BY <2>1, <2>2, Zenon
    <2>4. 0 \in 0..N
      BY <1>1
    <2> QED
      BY <2>3, <2>4
  <1>4. ASSUME NEW m \in 0..(N - 1), m \in T PROVE m + 1 \in T
    <2>1. m + 1 \in 0..N /\ m + 1 # 0 /\ (m + 1) - 1 = m
      BY <1>1
    <2>2. after[m + 1] = Entered(after[m], ends[m + 1])
      BY <1>2, <2>1
    <2>3. PICK u : /\ Entering(plans, ends, m, u)
                   /\ after[m] = [table |-> u, failed |-> FALSE]
      BY <1>4
    <2>4. m \in 0..(Len(plans) - 1)
      BY DEF N
    <2>5. \E v : /\ Entering(plans, ends, m + 1, v)
                 /\ Entered([table |-> u, failed |-> FALSE], ends[m + 1])
                        = [table |-> v, failed |-> FALSE]
      BY <2>3, <2>4, EnteredOne
    <2>6. Fine(m + 1, after[m + 1])
      BY <2>2, <2>3, <2>5, Zenon
    <2> QED
      BY <2>1, <2>6
  <1> HIDE DEF T
  <1>5. N \in T
    <2>1. \A m \in 0..N : m \in T
      BY <1>1, <1>3, <1>4, UpTo
    <2> QED
      BY <1>1, <2>1
  <1>6. Fine(N, after[N])
    BY <1>5 DEF T
  <1> QED
    BY <1>2, <1>6, Zenon DEF N

------------------------------------------------------------------------------
(* The end of a wait.                                                      *)

\* The outcomes of a submission are in step with its plans.
LEMMA OutcomesMatch ==
    ASSUME NEW plans, NEW o, TrueOutcomes(plans, o)
    PROVE  Matching(plans, o.plans)
  BY DEF TrueOutcomes, TrueOutcome, Matching

\* validate lets every batch through.
LEMMA Validated ==
    ASSUME Inv, NEW entries, Deliverable(entries), NEW o,
           TrueOutcomes(prepare_disarms(entries).plans, o)
    PROVE  validate(table, entries, o.plans, o.failed)
  <1> DEFINE plans == prepare_disarms(entries).plans
             shots == OneShots(table, entries)
  <1>1. /\ Len(plans) = Len(shots)
        /\ \A n \in 1..Len(shots) :
              /\ shots[n] \in 1..Len(entries)
              /\ plans[n].registration = entries[shots[n]].registration
    BY PlansMade
  <1>2. ASSUME NEW k \in 1..Len(entries)
        PROVE  /\ binding(table, entries[k].registration, FALSE) = "Ok"
               /\ entry(table, entries[k].registration).state = "Armed"
    <2>1. PICK i \in Index : Armed(i) /\ entries[k].registration = IdOf(i)
      BY DEF Deliverable
    <2>2. /\ binding(table, IdOf(i), FALSE) = "Ok"
          /\ entry(table, IdOf(i)) = table.slots[i].entry
      BY <2>1, ArmedId, Zenon
    <2>3. entry(table, IdOf(i)).state = "Armed"
      BY <2>1, <2>2 DEF Armed
    <2> QED
      BY <2>1, <2>2, <2>3, Zenon
  <1> HIDE DEF plans, shots
  <1>3. /\ Len(o.plans) = Len(plans)
        /\ \A n \in 1..Len(plans) : o.plans[n].registration = plans[n].registration
        /\ o.failed \in BOOLEAN
        /\ o.failed <=> \E n \in 1..Len(plans) : o.plans[n].commit # "Applied"
    BY DEF TrueOutcomes, TrueOutcome, plans
  <1>4. \A n \in 1..Len(shots) :
           entry(table, entries[shots[n]].registration).state = "Armed"
    BY <1>1, <1>2
  <1>5. /\ Len(o.plans) = Len(shots)
        /\ \A n \in 1..Len(shots) :
              o.plans[n].registration = entries[shots[n]].registration
    BY <1>1, <1>3
  <1>6. o.failed = \E n \in 1..Len(o.plans) : o.plans[n].commit # "Applied"
    <2> DEFINE some == \E n \in 1..Len(o.plans) : o.plans[n].commit # "Applied"
    <2>1. o.failed <=> some
      BY <1>3
    <2>2. some \in BOOLEAN
      BY Zenon
    <2> HIDE DEF some
    <2>3. o.failed = some
      BY <1>3, <2>1, <2>2
    <2> QED
      BY <2>3 DEF some
  <1> QED
    BY <1>2, <1>4, <1>5, <1>6, Zenon DEF validate, shots

\* What is delivered: an event for each entry, and the wake.
Delivery(entries) == Output(entries) \o (IF woke THEN <<WakeEvent>> ELSE <<>>)

\* The events fit the destination, the wake included (Events::try_push).
LEMMA DeliveryFits ==
    ASSUME Inv, NEW entries, Deliverable(entries)
    PROVE  LET out == Delivery(entries)
           IN  /\ Len(out) = Len(entries) + Wakes
               /\ Len(out) <= EventCapacity
               /\ \A k \in 1..Len(entries) :
                     /\ out[k].of = entries[k].registration
                     /\ out[k].readiness = entries[k].readiness
               /\ woke => out[Len(entries) + 1] = WakeEvent
               /\ \A k \in 1..Len(out) : out[k].readiness \in Readiness
  <1> DEFINE N == Len(entries)
             O == Output(entries)
             last == IF woke THEN <<WakeEvent>> ELSE <<>>
             out == O \o last
  <1>1. /\ N \in Nat /\ N + Wakes <= EventCapacity
        /\ \A k \in 1..N : entries[k] \in PendingEntry
    BY DEF Deliverable
  <1>2. /\ Len(O) = N
        /\ \A k \in 1..N : O[k] = [key |-> entries[k].key, of |-> entries[k].registration,
                                   readiness |-> entries[k].readiness]
        /\ O = [k \in 1..N |-> O[k]]
    BY <1>1 DEF Output
  <1>3. /\ Len(last) = Wakes
        /\ woke => last[1] = WakeEvent
        /\ last \in Seq({WakeEvent})
        /\ Wakes \in {0, 1}
        /\ Wakes = 1 <=> woke
    <2>1. CASE woke
      BY <2>1 DEF Wakes
    <2>2. CASE ~woke
      BY <2>2 DEF Wakes
    <2> QED
      BY <2>1, <2>2
  <1> HIDE DEF O, last, N
  <1>4. O \in Seq({O[k] : k \in 1..N})
    BY <1>1, <1>2
  <1>5. /\ Len(out) = N + Wakes
        /\ \A k \in 1..N : out[k] = O[k]
        /\ woke => out[N + 1] = WakeEvent
    BY <1>1, <1>2, <1>3, <1>4
  <1> HIDE DEF out
  <1>6. \A k \in 1..N : /\ out[k].of = entries[k].registration
                        /\ out[k].readiness = entries[k].readiness
                        /\ out[k].readiness \in Readiness
    BY <1>1, <1>2, <1>5 DEF PendingEntry
  <1>7. WakeEvent.readiness \in Readiness
    BY DEF WakeEvent, Readiness
  <1>8. \A k \in 1..Len(out) : out[k].readiness \in Readiness
    <2> TAKE k \in 1..Len(out)
    <2>1. k \in 1..N \/ (k = N + 1 /\ woke)
      BY <1>1, <1>3, <1>5
    <2> QED
      BY <1>5, <1>6, <1>7, <2>1
  <1>9. Delivery(entries) = out
    BY DEF Delivery, out, O, last
  <1> QED
    BY <1>1, <1>5, <1>6, <1>8, <1>9 DEF N

\* What a wait has done when it ends: its disarm submission ended in o, and u is
\* the table with the outcomes.
Finished(entries, plans, o, u) ==
    /\ TrueOutcomes(plans, o)
    /\ Entering(plans, o.plans, Len(plans), u)
    /\ table' = u
    /\ knotes' = o.knotes
    /\ queue' = Only(queue, {p \in Places : Active(o.knotes, sources, p)})
    /\ events' = Delivery(entries)
    /\ notified' = (notified /\ (~woke \/ triggered))
    /\ result' = IF o.failed THEN RecoveryFailure(o.plans) ELSE Ended("Ok")
    /\ batch' = None /\ pending' = pending_new
    /\ UNCHANGED <<sources, triggered>>

\* No wait fails inside zio after the kernel has handed out the batch.
LEMMA DeliverEnds ==
    ASSUME Inv, Deliver
    PROVE  LET entries == ToDeliver(Coalesced.pending.entries)
               plans == prepare_disarms(entries).plans
           IN  /\ ~Idle /\ Good(Len(batch), Coalesced.pending)
               /\ Deliverable(entries)
               /\ \E o, u : Finished(entries, plans, o, u)
  <1> DEFINE p == Coalesced.pending
             entries == ToDeliver(p.entries)
             plans == prepare_disarms(entries).plans
  <1>1. /\ ~Idle /\ batch' = None /\ pending' = clear(p)
        /\ UNCHANGED <<sources, triggered>>
        /\ IF Coalesced.failed \/ prepare_disarms(entries).failed
           THEN Abandoned
           ELSE \E o \in submit_disarms(plans) : finish(entries, o)
    BY Zenon DEF Deliver
  <1>2. Coalesced.failed = FALSE /\ Good(Len(batch), p)
    BY <1>1, CoalescedGood
  <1> HIDE DEF p
  <1>3. Placed(p)
    BY <1>2 DEF Good
  <1>4. Deliverable(entries)
    BY <1>3, ToDeliverEnds
  <1>5. pending' = pending_new
    BY <1>1, <1>3, ClearPlaced
  <1> HIDE DEF entries
  <1>6. ~prepare_disarms(entries).failed /\ Planned(plans)
    BY <1>4, PlansMade
  <1>7. PICK o \in submit_disarms(plans) : finish(entries, o)
    BY <1>1, <1>2, <1>6, Zenon
  <1>8. TrueOutcomes(plans, o)
    BY <1>6, SubmitTrue
  <1>9. Matching(plans, o.plans)
    BY <1>8, OutcomesMatch
  <1>10. validate(table, entries, o.plans, o.failed)
    BY <1>4, <1>8, Validated
  <1>11. ~PushOverflows(Delivery(entries))
    <2>1. Len(Delivery(entries)) <= EventCapacity /\ Len(Delivery(entries)) \in Nat
      <3>1. Len(entries) \in Nat /\ Wakes \in Nat
        BY <1>4 DEF Deliverable, Wakes
      <3>2. Len(Delivery(entries)) = Len(entries) + Wakes
            /\ Len(Delivery(entries)) <= EventCapacity
        BY <1>4, DeliveryFits
      <3> QED
        BY <3>1, <3>2
    <2> QED
      BY <2>1, CapacityAssumption DEF PushOverflows
  <1> HIDE DEF plans
  <1>12. PICK u : /\ Entering(plans, o.plans, Len(plans), u)
                  /\ Disarmed(table, o.plans) = [table |-> u, failed |-> FALSE]
    BY <1>6, <1>9, DisarmedEntered
  <1> DEFINE out == Delivery(entries)
             ok == /\ validate(table, entries, o.plans, o.failed)
                   /\ ~PushOverflows(out)
             disarmed == Disarmed(table, o.plans)
             fails == ~ok \/ disarmed.failed
  <1>13. ok = TRUE /\ fails = FALSE /\ disarmed.table = u
    <2>1. disarmed.table = u /\ disarmed.failed = FALSE
      BY <1>12
    <2> QED
      BY <1>10, <1>11, <2>1, Zenon
  <1>14. /\ knotes' = o.knotes
         /\ queue' = Only(queue, {q \in Places : Active(o.knotes, sources, q)})
         /\ table' = IF ok THEN disarmed.table ELSE table
         /\ events' = IF fails THEN <<>> ELSE out
         /\ notified' = (notified /\ (fails \/ ~woke \/ triggered))
         /\ result' = IF fails THEN Ended("Invariant")
                      ELSE IF o.failed THEN RecoveryFailure(o.plans)
                      ELSE Ended("Ok")
    BY <1>7, Zenon DEF finish, Delivery
  <1> HIDE DEF ok, fails, disarmed, out
  <1>15. /\ table' = u /\ events' = out
         /\ result' = IF o.failed THEN RecoveryFailure(o.plans) ELSE Ended("Ok")
         /\ notified' = (notified /\ (~woke \/ triggered))
    BY <1>13, <1>14, Zenon
  <1>16. Finished(entries, plans, o, u)
    BY <1>1, <1>5, <1>8, <1>12, <1>14, <1>15, Zenon DEF Finished, out
  <1> QED
    BY <1>1, <1>2, <1>4, <1>16, Zenon DEF plans, entries, p

\* Outcomes change the states of the registrations they are of, and nothing else.
LEMMA EnteringAlike ==
    ASSUME Inv, NEW plans, Planned(plans), NEW ends, Matching(plans, ends), NEW u,
           Entering(plans, ends, Len(plans), u), NEW i \in Index
    PROVE  LET e == table.slots[i].entry
               f == u.slots[i].entry
           IN  /\ u.slots[i].generation = table.slots[i].generation
               /\ f = None <=> e = None
               /\ e # None => /\ f \in Entry /\ e \in Entry
                              /\ f.descriptor = e.descriptor
                              /\ f.interest = e.interest
                              /\ f.mode = e.mode
               /\ \A k \in 1..Len(plans) :
                     PlanFor(plans[k], i) => f.state = OutcomeState(ends[k].commit)
               /\ (\A k \in 1..Len(plans) : ~PlanFor(plans[k], i)) =>
                     u.slots[i] = table.slots[i]
  <1> DEFINE e == table.slots[i].entry
             f == u.slots[i].entry
  <1>1. TableInv(table)
    BY DEF Inv
  <1>2. (\A k \in 1..Len(plans) : ~PlanFor(plans[k], i)) =>
            u.slots[i] = table.slots[i]
    BY DEF Entering
  <1>3. e # None => e \in Entry
    BY <1>1, Occupies
  <1>4. ASSUME NEW k \in 1..Len(plans), PlanFor(plans[k], i)
        PROVE  /\ u.slots[i].generation = table.slots[i].generation
               /\ e # None /\ e \in Entry /\ f # None /\ f \in Entry
               /\ f = [e EXCEPT !.state = OutcomeState(ends[k].commit)]
               /\ f.state = OutcomeState(ends[k].commit)
    <2> DEFINE c == ends[k].commit
    <2>1. u.slots[i] = Changed(i, c) /\ c \in CommitStatus
      BY <1>4 DEF Entering, Matching
    <2>2. e # None /\ e.state = "Armed" /\ e \in Entry
      BY <1>3, <1>4 DEF PlanFor, Armed
    <2> HIDE DEF c
    <2>3. DisarmLeaves(table, i, c)
      BY <1>1, <2>1, <2>2, DisarmedEntry
    <2> DEFINE g == [e EXCEPT !.state = OutcomeState(c)]
    <2>4. g \in Entry /\ g.state = OutcomeState(c)
      BY <2>3 DEF DisarmLeaves
    <2>5. f = g /\ u.slots[i].generation = table.slots[i].generation
      BY <2>1 DEF Changed
    <2>6. g # None
      BY <2>4, NoneAssumption
    <2> HIDE DEF g, e, f
    <2> QED
      BY <2>2, <2>4, <2>5, <2>6 DEF c, g
  <1>5. CASE \E k \in 1..Len(plans) : PlanFor(plans[k], i)
    <2>1. PICK k \in 1..Len(plans) : PlanFor(plans[k], i)
      BY <1>5
    <2>2. \A m \in 1..Len(plans) :
             PlanFor(plans[m], i) => f.state = OutcomeState(ends[m].commit)
      BY <1>4
    <2>3. /\ u.slots[i].generation = table.slots[i].generation
          /\ e # None /\ e \in Entry /\ f # None /\ f \in Entry
          /\ f = [e EXCEPT !.state = OutcomeState(ends[k].commit)]
      BY <1>4, <2>1
    <2> HIDE DEF e, f
    <2>4. f.descriptor = e.descriptor /\ f.interest = e.interest /\ f.mode = e.mode
      BY <2>3 DEF Entry
    <2> QED
      BY <1>2, <2>2, <2>3, <2>4 DEF e, f
  <1>6. CASE \A k \in 1..Len(plans) : ~PlanFor(plans[k], i)
    <2>1. u.slots[i] = table.slots[i]
      BY <1>2, <1>6
    <2> QED
      BY <1>2, <1>3, <1>6, <2>1
  <1> QED
    BY <1>5, <1>6

\* One knote against the entry that its outcome left.
LEMMA OutcomeFits ==
    ASSUME NEW id, NEW e, e.state = "Armed", NEW f, NEW g, NEW old, NEW now,
           NEW status \in CommitStatus, g.interest = e.interest,
           g.state = OutcomeState(status), Fits(id, e, f, old),
           ~Wanted(e.interest, f) => now = old,
           status = "NotApplied" => now = old,
           status = "Applied" /\ Wanted(e.interest, f) =>
              \/ now = [token |-> 0, enabled |-> FALSE]
              \/ now = old /\ Absent(old)
    PROVE  Fits(id, g, f, now)
  <1>1. IF Wanted(e.interest, f)
        THEN \/ old = Lost
             \/ old # None /\ old.enabled = TRUE /\ old.token = id
        ELSE Absent(old)
    BY DEF Fits
  <1>2. CASE status = "Unknown"
    BY <1>2 DEF Fits, OutcomeState
  <1>3. CASE status = "NotApplied"
    <2>1. g.state = "Armed" /\ now = old
      BY <1>3 DEF OutcomeState
    <2> QED
      BY <1>1, <2>1 DEF Fits
  <1>4. CASE status = "Applied"
    <2>1. g.state = "Disarmed"
      BY <1>4 DEF OutcomeState
    <2>2. CASE ~Wanted(e.interest, f)
      BY <1>1, <2>1, <2>2 DEF Fits
    <2>3. CASE Wanted(e.interest, f) /\ now = old /\ Absent(old)
      <3>1. now = Lost
        BY <1>1, <2>3 DEF Absent
      <3> QED
        BY <2>3, <3>1 DEF Fits
    <2>4. CASE Wanted(e.interest, f) /\ now = [token |-> 0, enabled |-> FALSE]
      <3>1. now \in Knote /\ now.enabled = FALSE
        BY <2>4 DEF Knote
      <3>2. now # None
        BY <3>1, LostAssumption
      <3> QED
        BY <2>1, <2>4, <3>1, <3>2 DEF Fits
    <2> QED
      BY <1>4, <2>2, <2>3, <2>4
  <1> QED
    BY <1>2, <1>3, <1>4 DEF CommitStatus

\* After the outcomes, table and knotes agree again.
LEMMA OutcomesAgree ==
    ASSUME Inv, NEW plans, Planned(plans), NEW o, TrueOutcomes(plans, o), NEW u,
           Entering(plans, o.plans, Len(plans), u)
    PROVE  Apart(u) /\ Agree(u, o.knotes)
  <1> DEFINE ends == o.plans
             now == o.knotes
             Here(d) == {i \in Index : /\ table.slots[i].entry # None
                                       /\ table.slots[i].entry.descriptor = d}
             HereNow(d) == {i \in Index : /\ u.slots[i].entry # None
                                          /\ u.slots[i].entry.descriptor = d}
  <1>1. Matching(plans, ends)
    BY OutcomesMatch
  <1>2. \A i \in Index :
           /\ u.slots[i].generation = table.slots[i].generation
           /\ u.slots[i].entry = None <=> table.slots[i].entry = None
           /\ table.slots[i].entry # None =>
                 /\ u.slots[i].entry.descriptor = table.slots[i].entry.descriptor
                 /\ u.slots[i].entry.interest = table.slots[i].entry.interest
           /\ \A k \in 1..Len(plans) : PlanFor(plans[k], i) =>
                 u.slots[i].entry.state = OutcomeState(ends[k].commit)
           /\ (\A k \in 1..Len(plans) : ~PlanFor(plans[k], i)) =>
                 u.slots[i] = table.slots[i]
    BY <1>1, EnteringAlike
  <1>3. Apart(u)
    BY <1>2 DEF Inv, Apart
  <1>4. /\ \A n \in 1..Len(plans) : TrueOutcome(plans[n], ends[n], now)
        /\ \A d \in Descriptors, f \in Filters :
              (\A n \in 1..Len(plans) : plans[n].descriptor # d) =>
                  now[<<d, f>>] = knotes[<<d, f>>]
    BY DEF TrueOutcomes
  <1> HIDE DEF now, ends
  <1>5. ASSUME NEW d \in Descriptors, NEW f \in Filters
        PROVE  /\ HereNow(d) = {} => Absent(now[<<d, f>>])
               /\ \A i \in HereNow(d) : Fits(encode(i, u.slots[i].generation),
                                             u.slots[i].entry, f, now[<<d, f>>])
    <2> DEFINE at == <<d, f>>
    <2>1. HereNow(d) = Here(d)
      BY <1>2
    <2>2. /\ Here(d) = {} => Absent(knotes[at])
          /\ \A i \in Here(d) : Fits(encode(i, table.slots[i].generation),
                                     table.slots[i].entry, f, knotes[at])
      BY DEF Inv, Agree
    <2>3. \A n \in 1..Len(plans) : plans[n].descriptor = d =>
              \E i \in Here(d) : PlanFor(plans[n], i)
      BY DEF Planned, PlanFor, Armed
    <2>4. ASSUME Here(d) = {} PROVE Absent(now[at])
      BY <1>4, <2>2, <2>3, <2>4
    <2>5. ASSUME NEW i \in Here(d)
          PROVE  Fits(encode(i, u.slots[i].generation), u.slots[i].entry, f, now[at])
      <3>1. i \in Index /\ table.slots[i].entry # None
            /\ table.slots[i].entry.descriptor = d
        OBVIOUS
      <3>2. Fits(encode(i, table.slots[i].generation), table.slots[i].entry, f, knotes[at])
        BY <2>2
      <3>3. CASE \A k \in 1..Len(plans) : ~PlanFor(plans[k], i)
        <4>1. \A n \in 1..Len(plans) : plans[n].descriptor # d
          <5> SUFFICES ASSUME NEW n \in 1..Len(plans), plans[n].descriptor = d
                       PROVE  FALSE
            OBVIOUS
          <5>1. PICK j \in Here(d) : PlanFor(plans[n], j)
            BY <2>3
          <5>2. j = i
            BY <3>1 DEF Inv, Apart
          <5> QED
            BY <3>3, <5>1, <5>2
        <4>2. now[at] = knotes[at]
          BY <1>4, <4>1
        <4>3. u.slots[i] = table.slots[i]
          BY <1>2, <3>1, <3>3
        <4> QED
          BY <3>2, <4>2, <4>3
      <3>4. CASE \E k \in 1..Len(plans) : PlanFor(plans[k], i)
        <4>1. PICK k \in 1..Len(plans) : PlanFor(plans[k], i)
          BY <3>4
        <4>2. TrueOutcome(plans[k], ends[k], now)
          BY <1>4
        <4>3. plans[k].descriptor = d /\ plans[k].interest = table.slots[i].entry.interest
              /\ table.slots[i].entry.state = "Armed"
          BY <3>1, <4>1 DEF PlanFor, Armed
        <4> DEFINE e == table.slots[i].entry
                   g == u.slots[i].entry
                   c == ends[k].commit
        <4>4. /\ c \in CommitStatus
              /\ ~Wanted(e.interest, f) => now[at] = knotes[at]
              /\ c = "NotApplied" => now[at] = knotes[at]
              /\ c = "Applied" /\ Wanted(e.interest, f) =>
                    \/ now[at] = [token |-> 0, enabled |-> FALSE]
                    \/ now[at] = knotes[at] /\ Absent(knotes[at])
          BY <4>2, <4>3 DEF TrueOutcome
        <4>5. /\ g.interest = e.interest /\ g.state = OutcomeState(c)
              /\ u.slots[i].generation = table.slots[i].generation
          BY <1>2, <3>1, <4>1
        <4> HIDE DEF e, g, c
        <4>6. Fits(encode(i, table.slots[i].generation), g, f, now[at])
          BY <3>2, <4>3, <4>4, <4>5, OutcomeFits DEF e
        <4> QED
          BY <4>5, <4>6 DEF g
      <3> QED
        BY <3>3, <3>4
    <2> QED
      BY <2>1, <2>4, <2>5
  <1>6. Agree(u, now)
    BY <1>5 DEF Agree
  <1> QED
    BY <1>3, <1>6 DEF now

\* The end of a wait.
LEMMA DeliverInv == ASSUME Inv, Deliver PROVE Inv'
  <1> DEFINE entries == ToDeliver(Coalesced.pending.entries)
             plans == prepare_disarms(entries).plans
  <1>1. ~Idle /\ Deliverable(entries) /\ \E o, u : Finished(entries, plans, o, u)
    BY DeliverEnds
  <1>2. Planned(plans)
    BY <1>1, PlansMade
  <1> HIDE DEF plans, entries
  <1>3. PICK o, u : Finished(entries, plans, o, u)
    BY <1>1
  <1>4. /\ TrueOutcomes(plans, o)
        /\ Entering(plans, o.plans, Len(plans), u)
        /\ table' = u /\ knotes' = o.knotes
        /\ queue' = Only(queue, {p \in Places : Active(o.knotes, sources, p)})
        /\ events' = Delivery(entries)
        /\ batch' = None /\ pending' = pending_new
        /\ UNCHANGED <<sources, triggered>>
    BY <1>3, Zenon DEF Finished
  <1>5. notified' = (notified /\ (~woke \/ triggered))
    BY <1>3, Zenon DEF Finished
  <1>6. TableInv(table') /\ Apart(table') /\ Agree(table', knotes')
    BY <1>2, <1>4, OutcomesAgree DEF Entering
  <1>7. KnotesTyped(knotes')
    BY <1>4 DEF TrueOutcomes
  <1>8. Queued(knotes', sources', queue')
    <2> DEFINE keep == {p \in Places : Active(knotes', sources, p)}
    <2>1. queue \in Seq(Descriptors \X Filters) /\ OnceEach(queue)
      BY DEF Inv, Queued
    <2>2. \A n \in 1..Len(queue) : queue[n] \in keep => Active(knotes', sources, queue[n])
      OBVIOUS
    <2>3. queue' = Only(queue, keep)
      BY <1>4
    <2> HIDE DEF keep
    <2>4. Queued(knotes', sources, Only(queue, keep))
      BY <2>1, <2>2, OnlyQueued
    <2> QED
      BY <1>4, <2>3, <2>4
  <1>9. Idle'
    BY <1>4 DEF Idle
  <1>10. notified' \in BOOLEAN /\ WakeKept'
    <2>1. notified' => notified /\ (~woke \/ triggered)
      BY <1>5, Zenon
    <2>2. notified => triggered \/ woke
      BY DEF Inv, WakeKept
    <2>3. notified' => triggered'
      BY <1>4, <2>1, <2>2
    <2>4. notified' \in BOOLEAN
      BY <1>5, Zenon
    <2> QED
      BY <2>3, <2>4 DEF WakeKept
  <1>11. Reported(events')
    <2>1. /\ Len(Delivery(entries)) <= EventCapacity
          /\ \A k \in 1..Len(Delivery(entries)) :
                Delivery(entries)[k].readiness \in Readiness
      BY <1>1, DeliveryFits
    <2> QED
      BY <1>4, <2>1 DEF Reported
  <1> QED
    BY <1>4, <1>6, <1>7, <1>8, <1>9, <1>10, <1>11 DEF Inv

------------------------------------------------------------------------------
(* What holds of every behaviour.                                          *)

\* A step that leaves everything unchanged.
LEMMA StutterInv == ASSUME Inv, UNCHANGED vars PROVE Inv'
  BY DEF vars, Inv, Idle, WakeKept, woke, raw

\* Every step keeps the invariant.
LEMMA NextInv == Inv /\ [Next]_vars => Inv'
  <1> SUFFICES ASSUME Inv, [Next]_vars PROVE Inv'
    OBVIOUS
  <1>1. CASE \E i \in Index : Delete(i)
    BY <1>1, DeleteInv
  <1>2. CASE Deliver
    BY <1>2, DeliverInv
  <1>3. CASE Mutations
    BY <1>3, RegisterInv, ModifyInv DEF Mutations
  <1>4. CASE Observe
    BY <1>4, ObserveInv
  <1>5. CASE WaitFails
    BY <1>5, WaitFailsInv
  <1>6. CASE \E p \in Watchable, s \in Sightings \cup {None} : Source(p[1], p[2], s)
    BY <1>6, SourceInv
  <1>7. CASE wake
    BY <1>7, WakeInv
  <1>8. CASE \E p \in Places : KnoteLost(p)
    BY <1>8, KnoteLostInv
  <1>9. CASE UNCHANGED vars
    BY <1>9, StutterInv
  <1> QED
    BY <1>1, <1>2, <1>3, <1>4, <1>5, <1>6, <1>7, <1>8, <1>9 DEF Next

\* The inductive invariant holds always.
LEMMA Invariance == Spec => []Inv
  BY InitInv, NextInv, PTL DEF Spec

\* The invariant gives the types and the agreement of table and knotes.
LEMMA InvAgrees == Inv => FiltersAgree
  <1> SUFFICES ASSUME Inv PROVE FiltersAgree
    OBVIOUS
  <1>1. table \in Table /\ notified \in BOOLEAN
    BY DEF Inv, TableInv
  <1>2. \A p \in Places : Absent(knotes[p]) \/ knotes[p] \in Knote
    BY DEF Inv, KnotesTyped, Absent
  <1>3. \A p \in Places : sources[p] = None \/ sources[p] \in Sighting
    BY DEF Inv
  <1>4. \A n \in 1..Len(queue) : queue[n] \in Descriptors \X Filters
    BY DEF Inv, Queued
  <1>5. pending.by_slot \in [Index -> 0..(Len(pending.entries) - 1) \cup {EMPTY}]
    <2>1. pending.by_slot = [i \in Index |-> EMPTY]
      BY DEF Inv, pending_new
    <2> QED
      BY <2>1
  <1>6. /\ Len(events) <= EventCapacity
        /\ \A n \in 1..Len(events) : events[n].readiness \in Readiness
    BY DEF Inv, Reported
  <1>7. TypeOK
    BY <1>1, <1>2, <1>3, <1>4, <1>5, <1>6 DEF TypeOK
  <1>8. Agree(table, knotes)
    BY DEF Inv
  <1> QED
    BY <1>7, <1>8 DEF FiltersAgree

\* The kernel reports at most two knotes of each slot: one that is enabled is of
\* a registered descriptor, and no two registrations share one.
LEMMA InvComplete == Inv => ObservationComplete
  <1> SUFFICES ASSUME Inv PROVE ObservationComplete
    OBVIOUS
  <1> DEFINE N == Len(queue)
             At(k, i) == /\ table.slots[i].entry # None
                         /\ table.slots[i].entry.descriptor = queue[k][1]
             slot == [k \in 1..N |-> CHOOSE i \in Index : At(k, i)]
             half == [k \in 1..N |-> IF queue[k][2] = "Read" THEN 0 ELSE 1]
             at == [k \in 1..N |-> 2 * slot[k] + half[k]]
  <1>1. /\ N \in Nat /\ OnceEach(queue)
        /\ \A k \in 1..N : /\ queue[k] \in Descriptors \X Filters
                           /\ Active(knotes, sources, queue[k])
    BY DEF Inv, Queued
  <1>2. Agree(table, knotes) /\ Limit \in Nat
    BY Limits DEF Inv
  <1> HIDE DEF N
  <1>3. ASSUME NEW k \in 1..N PROVE slot[k] \in Index /\ At(k, slot[k])
    <2>1. PICK d \in Descriptors, f \in Filters : queue[k] = <<d, f>>
      BY <1>1
    <2>2. ~Absent(knotes[<<d, f>>])
      BY <1>1, <2>1 DEF Active
    <2>3. \E i \in Index : table.slots[i].entry # None
                           /\ table.slots[i].entry.descriptor = d
      BY <1>2, <2>2 DEF Agree
    <2>4. \E i \in Index : At(k, i)
      BY <2>1, <2>3
    <2> QED
      BY <2>4
  <1>4. \A k \in 1..N : half[k] \in {0, 1} /\ (half[k] = 0 <=> queue[k][2] = "Read")
    OBVIOUS
  <1>5. DOMAIN at = 1..N /\ \A k \in 1..N : at[k] = 2 * slot[k] + half[k]
    OBVIOUS
  <1>6. ASSUME NEW j \in 1..N, NEW k \in 1..N, slot[j] = slot[k], half[j] = half[k]
        PROVE  j = k
    <2>1. queue[j][1] = queue[k][1]
      BY <1>3, <1>6
    <2>2. queue[j][2] = queue[k][2]
      BY <1>1, <1>4, <1>6 DEF Filters
    <2>3. queue[j] = queue[k]
      BY <1>1, <2>1, <2>2
    <2> QED
      BY <1>1, <2>3 DEF OnceEach, N
  <1> HIDE DEF slot, half, At
  <1>7. at \in [1..N -> 0..(2 * Limit - 1)]
    <2>1. \A k \in 1..N : at[k] \in 0..(2 * Limit - 1)
      <3> TAKE k \in 1..N
      <3> DEFINE s == slot[k]
                 h == half[k]
      <3>1. s \in 0..(Limit - 1) /\ h \in {0, 1} /\ at[k] = 2 * s + h
        BY <1>3, <1>4, <1>5 DEF Index
      <3> HIDE DEF s, h
      <3> QED
        BY <1>2, <3>1
    <2> QED
      BY <1>5, <2>1
  <1>8. \A j, k \in 1..N : at[j] = at[k] => j = k
    <2> TAKE j, k \in 1..N
    <2> HAVE at[j] = at[k]
    <2> DEFINE s == slot[k]
               h == half[k]
               r == slot[j]
               g == half[j]
    <2>1. /\ s \in 0..(Limit - 1) /\ h \in {0, 1} /\ at[k] = 2 * s + h
          /\ r \in 0..(Limit - 1) /\ g \in {0, 1} /\ at[j] = 2 * r + g
      BY <1>3, <1>4, <1>5 DEF Index
    <2> HIDE DEF s, h, r, g
    <2>2. 2 * s + h = 2 * r + g
      BY <2>1
    <2>3. s = r /\ h = g
      BY <1>2, <2>1, <2>2
    <2> QED
      BY <1>6, <2>3 DEF s, h, r, g
  <1> HIDE DEF at
  <1>9. 2 * Limit \in Nat
    BY <1>2
  <1>10. N <= 2 * Limit
    BY <1>1, <1>7, <1>8, <1>9, NoMoreThan
  <1> QED
    BY <1>1, <1>2, <1>10 DEF ObservationComplete, complete_observation_capacity, N

\* Only the rest of Poll::wait ends a wait.
LEMMA DeliveringDelivers == ASSUME Inv, [Next]_vars, Delivering PROVE Deliver
  <1>1. ~Idle /\ batch # None /\ batch' = None
    BY DEF Delivering, Idle
  <1>2. CASE \E i \in Index : Delete(i)
    BY <1>1, <1>2 DEF Delete
  <1>3. CASE Mutations
    BY <1>1, <1>3 DEF Mutations, Register, Modify
  <1>4. CASE Observe \/ WaitFails
    BY <1>1, <1>4 DEF Observe, WaitFails
  <1>5. CASE \E p \in Watchable, s \in Sightings \cup {None} : Source(p[1], p[2], s)
    BY <1>1, <1>5 DEF Source
  <1>6. CASE wake
    <2>1. batch' = batch
      BY <1>6, Zenon DEF wake
    <2> QED
      BY <1>1, <2>1
  <1>7. CASE \E p \in Places : KnoteLost(p)
    BY <1>1, <1>7 DEF KnoteLost
  <1>8. CASE UNCHANGED vars
    BY <1>1, <1>8 DEF vars
  <1> QED
    BY <1>2, <1>3, <1>4, <1>5, <1>6, <1>7, <1>8 DEF Next

\* The commit statuses the backend reports are true, whichever submissions,
\* cleanups, rollbacks and disables fail half-way: a registration whose state is
\* known has exactly the filters of its interest, enabled when armed and disabled
\* when disarmed (kqueue_policy.rs, kqueue_disarm.rs).
THEOREM FiltersAgreeAlways == Spec => []FiltersAgree
  BY Invariance, InvAgrees, PTL

\* RawBatch::new's capacity is enough for all that the kernel can report at once.
THEOREM ObservationsFit == Spec => []ObservationComplete
  BY Invariance, InvComplete, PTL

\* A wake that returned stays in the kernel or in the batch until it is reported.
THEOREM WakesKept == Spec => []WakeKept
  <1>1. Inv => WakeKept
    BY DEF Inv
  <1> QED
    BY <1>1, Invariance, PTL

\* The ids of two occupied slots differ, and neither is that of the wake.
LEMMA OccupantId ==
    ASSUME Inv, NEW i \in Occupants
    PROVE  /\ i \in Index /\ table.slots[i].entry # None
           /\ IdOf(i) # 0 /\ decode(IdOf(i)).index = i
  <1>1. i \in Index /\ table.slots[i].entry # None /\ TableInv(table)
    BY DEF Inv, Occupants
  <1>2. table.slots[i].generation \in 1..MAX_GENERATION
    BY <1>1, Occupies
  <1>3. ~DecodesStale(IdOf(i)) /\ decode(IdOf(i)).index = i
    BY <1>1, <1>2, Unpacks DEF IdOf
  <1> QED
    BY <1>1, <1>3 DEF DecodesStale

\* The events of registrations are those of the entries.
LEMMA DeliversEntries ==
    ASSUME Inv, NEW entries, Deliverable(entries), events' = Delivery(entries),
           NEW i \in Occupants
    PROVE  /\ Delivers(IdOf(i)) <=>
                 \E k \in 1..Len(entries) : entries[k].registration = IdOf(i)
           /\ Delivers(IdOf(i)) => Armed(i)
  <1> DEFINE N == Len(entries)
             id == IdOf(i)
  <1>1. /\ Len(events') = N + Wakes
        /\ \A k \in 1..N : events'[k].of = entries[k].registration
        /\ woke => events'[N + 1] = WakeEvent
    BY DeliveryFits
  <1>2. N \in Nat /\ Wakes \in {0, 1} /\ (Wakes = 1 <=> woke)
    BY DEF Deliverable, Wakes
  <1>3. i \in Index /\ id # 0 /\ decode(id).index = i
    BY OccupantId
  <1>4. WakeEvent.of = 0
    BY DEF WakeEvent
  <1> HIDE DEF id, N
  <1>5. ASSUME NEW k \in 1..Len(events'), events'[k].of = id
        PROVE  k \in 1..N /\ entries[k].registration = id
    <2>1. k \in 1..N \/ (k = N + 1 /\ woke)
      BY <1>1, <1>2
    <2>2. k \in 1..N
      BY <1>1, <1>3, <1>4, <1>5, <2>1
    <2> QED
      BY <1>1, <1>5, <2>2
  <1>6. ASSUME NEW k \in 1..N, entries[k].registration = id
        PROVE  k \in 1..Len(events') /\ events'[k].of = id
    BY <1>1, <1>2, <1>6
  <1>7. Delivers(id) <=> \E k \in 1..N : entries[k].registration = id
    BY <1>5, <1>6 DEF Delivers
  <1>8. ASSUME Delivers(id) PROVE Armed(i)
    <2>1. PICK k \in 1..N : entries[k].registration = id
      BY <1>7, <1>8
    <2>2. PICK j \in Index : Armed(j) /\ entries[k].registration = IdOf(j)
      BY DEF Deliverable, N
    <2>3. decode(IdOf(j)).index = j
      BY <2>2, ArmedId
    <2> QED
      BY <1>3, <2>1, <2>2, <2>3
  <1> QED
    BY <1>7, <1>8 DEF id, N

\* A plan exists for each one-shot registration delivered, and for no other.
LEMMA ShotsPlanned ==
    ASSUME Inv, NEW entries, Deliverable(entries), events' = Delivery(entries),
           NEW i \in Occupants
    PROVE  (table.slots[i].entry.mode = "OneShot" /\ Delivers(IdOf(i))) <=>
              \E n \in 1..Len(prepare_disarms(entries).plans) :
                  PlanFor(prepare_disarms(entries).plans[n], i)
  <1> DEFINE plans == prepare_disarms(entries).plans
             shots == OneShots(table, entries)
             id == IdOf(i)
  <1>1. /\ Planned(plans) /\ Len(plans) = Len(shots)
        /\ \A n \in 1..Len(shots) :
              /\ shots[n] \in 1..Len(entries)
              /\ plans[n].registration = entries[shots[n]].registration
        /\ \A k \in 1..Len(entries) :
              entry(table, entries[k].registration).mode = "OneShot" =>
                 \E n \in 1..Len(shots) : shots[n] = k
    BY PlansMade
  <1>2. /\ Delivers(id) <=> \E k \in 1..Len(entries) : entries[k].registration = id
        /\ Delivers(id) => Armed(i)
    BY DeliversEntries
  <1>3. i \in Index /\ decode(id).index = i
    BY OccupantId
  <1> HIDE DEF plans, shots, id
  <1>4. ASSUME NEW n \in 1..Len(plans), PlanFor(plans[n], i)
        PROVE  table.slots[i].entry.mode = "OneShot" /\ Delivers(id)
    BY <1>1, <1>2, <1>4 DEF PlanFor, id
  <1>5. ASSUME table.slots[i].entry.mode = "OneShot", Delivers(id)
        PROVE  \E n \in 1..Len(plans) : PlanFor(plans[n], i)
    <2>1. PICK k \in 1..Len(entries) : entries[k].registration = id
      BY <1>2, <1>5
    <2>2. entry(table, id).mode = "OneShot"
      BY <1>3, <1>5 DEF entry
    <2>3. PICK n \in 1..Len(shots) : shots[n] = k
      BY <1>1, <2>1, <2>2
    <2>4. n \in 1..Len(plans) /\ plans[n].registration = id
      BY <1>1, <2>1, <2>3
    <2>5. PICK j \in Index : PlanFor(plans[n], j)
      BY <1>1, <2>4 DEF Planned
    <2>6. Armed(j) /\ IdOf(j) = id
      BY <2>4, <2>5 DEF PlanFor
    <2>7. j = i
      BY <1>3, <2>6, ArmedId
    <2> QED
      BY <2>4, <2>5, <2>7
  <1> QED
    BY <1>4, <1>5 DEF plans, id

\* A wait delivers only armed registrations, disarms the one-shot ones it delivers
\* or reports a recovery failure, and touches no other (observe.rs
\* translate_kqueue, observe_recovery.rs).
THEOREM DisarmedOrReported == Spec => OneShotOnce
  <1> DEFINE Shot(i) == /\ table.slots[i].entry.mode = "OneShot"
                        /\ Delivers(IdOf(i))
             Once == /\ \A i \in Occupants :
                            /\ Delivers(IdOf(i)) => table.slots[i].entry.state = "Armed"
                            /\ ~Shot(i) => table'.slots[i] = table.slots[i]
                     /\ result'.kind = "Recovery" <=>
                            \E i \in Occupants :
                                Shot(i) /\ table'.slots[i].entry.state # "Disarmed"
  <1>1. ASSUME Inv, Deliver PROVE Once
    <2> DEFINE entries == ToDeliver(Coalesced.pending.entries)
               plans == prepare_disarms(entries).plans
    <2>1. Deliverable(entries) /\ \E o, u : Finished(entries, plans, o, u)
      BY <1>1, DeliverEnds
    <2> HIDE DEF entries
    <2>2. Planned(plans)
      BY <1>1, <2>1, PlansMade
    <2>3. PICK o, u : Finished(entries, plans, o, u)
      BY <2>1
    <2>4. /\ TrueOutcomes(plans, o) /\ Entering(plans, o.plans, Len(plans), u)
          /\ table' = u /\ events' = Delivery(entries)
          /\ result' = IF o.failed THEN RecoveryFailure(o.plans) ELSE Ended("Ok")
      BY <2>3, Zenon DEF Finished
    <2>5. \A i \in Occupants :
             /\ Delivers(IdOf(i)) => Armed(i)
             /\ Shot(i) <=> \E n \in 1..Len(plans) : PlanFor(plans[n], i)
      BY <1>1, <2>1, <2>4, DeliversEntries, ShotsPlanned
    <2>6. Matching(plans, o.plans)
      BY <2>4, OutcomesMatch
    <2> HIDE DEF plans, Shot
    <2>7. \A i \in Index :
             /\ \A n \in 1..Len(plans) : PlanFor(plans[n], i) =>
                   table'.slots[i].entry.state = OutcomeState(o.plans[n].commit)
             /\ (\A n \in 1..Len(plans) : ~PlanFor(plans[n], i)) =>
                   table'.slots[i] = table.slots[i]
      BY <1>1, <2>2, <2>4, <2>6, EnteringAlike
    <2>8. ASSUME NEW i \in Occupants
          PROVE  /\ Delivers(IdOf(i)) => table.slots[i].entry.state = "Armed"
                 /\ ~Shot(i) => table'.slots[i] = table.slots[i]
      BY <2>5, <2>7 DEF Occupants, Armed
    <2>9. result'.kind = "Recovery" <=> o.failed
      <3>1. CASE o.failed
        BY <2>4, <3>1 DEF RecoveryFailure
      <3>2. CASE ~o.failed
        BY <2>4, <3>2 DEF Ended
      <3> QED
        BY <3>1, <3>2
    <2>10. /\ o.failed <=> \E n \in 1..Len(plans) : o.plans[n].commit # "Applied"
           /\ \A n \in 1..Len(plans) : o.plans[n].commit \in CommitStatus
      BY <2>4, <2>6 DEF TrueOutcomes, Matching
    <2>11. \A c \in CommitStatus : c # "Applied" <=> OutcomeState(c) # "Disarmed"
      BY DEF CommitStatus, OutcomeState
    <2>12. ASSUME NEW n \in 1..Len(plans), o.plans[n].commit # "Applied"
           PROVE  \E i \in Occupants :
                     Shot(i) /\ table'.slots[i].entry.state # "Disarmed"
      <3>1. PICK i \in Index : PlanFor(plans[n], i)
        BY <2>2 DEF Planned
      <3>2. i \in Occupants
        BY <3>1 DEF PlanFor, Armed, Occupants
      <3>3. table'.slots[i].entry.state # "Disarmed"
        BY <2>7, <2>10, <2>11, <2>12, <3>1
      <3> QED
        BY <2>5, <3>1, <3>2, <3>3
    <2>13. ASSUME NEW i \in Occupants, Shot(i),
                  table'.slots[i].entry.state # "Disarmed"
           PROVE  \E n \in 1..Len(plans) : o.plans[n].commit # "Applied"
      <3>1. PICK n \in 1..Len(plans) : PlanFor(plans[n], i)
        BY <2>5, <2>13
      <3>2. i \in Index
        BY DEF Occupants
      <3>3. table'.slots[i].entry.state = OutcomeState(o.plans[n].commit)
        BY <2>7, <3>1, <3>2
      <3> QED
        BY <2>10, <2>11, <2>13, <3>3
    <2>14. result'.kind = "Recovery" <=>
              \E i \in Occupants : Shot(i) /\ table'.slots[i].entry.state # "Disarmed"
      BY <2>9, <2>10, <2>12, <2>13
    <2> QED
      BY <2>8, <2>14
  <1>2. Inv /\ [Next]_vars => [Delivering => Once]_vars
    BY <1>1, DeliveringDelivers
  <1> QED
    BY <1>2, Invariance, PTL DEF Spec, OneShotOnce

\* A recovery failure lists every one-shot registration of the batch, in the order
\* of delivery, each with the state the table now has (RecoveryFailure::outcomes).
THEOREM RecoveryListsTrue == Spec => RecoveryTrue
  <1> DEFINE Resources == Len(events') - (IF woke THEN 1 ELSE 0)
             Shots == Chosen(Resources,
                             {n \in 1..Resources :
                                 entry(table, events'[n].of).mode = "OneShot"})
             Lists == /\ Len(result'.outcomes) = Len(Shots)
                      /\ \A n \in 1..Len(Shots) :
                            result'.outcomes[n] =
                               [registration |-> events'[Shots[n]].of,
                                state |-> entry(table', events'[Shots[n]].of).state]
  <1>1. ASSUME Inv, Deliver, result'.kind = "Recovery" PROVE Lists
    <2> DEFINE entries == ToDeliver(Coalesced.pending.entries)
               plans == prepare_disarms(entries).plans
               shots == OneShots(table, entries)
    <2>1. Deliverable(entries) /\ \E o, u : Finished(entries, plans, o, u)
      BY <1>1, DeliverEnds
    <2> HIDE DEF entries
    <2>2. /\ Planned(plans) /\ Len(plans) = Len(shots)
          /\ \A n \in 1..Len(shots) :
                /\ shots[n] \in 1..Len(entries)
                /\ plans[n].registration = entries[shots[n]].registration
      BY <1>1, <2>1, PlansMade
    <2>3. PICK o, u : Finished(entries, plans, o, u)
      BY <2>1
    <2>4. /\ TrueOutcomes(plans, o) /\ Entering(plans, o.plans, Len(plans), u)
          /\ table' = u /\ events' = Delivery(entries)
          /\ result' = IF o.failed THEN RecoveryFailure(o.plans) ELSE Ended("Ok")
      BY <2>3, Zenon DEF Finished
    <2>5. /\ Len(events') = Len(entries) + Wakes
          /\ \A k \in 1..Len(entries) : events'[k].of = entries[k].registration
      BY <1>1, <2>1, <2>4, DeliveryFits
    <2>6. Len(entries) \in Nat /\ Wakes \in {0, 1}
      BY <2>1 DEF Deliverable, Wakes
    <2>7. Resources = Len(entries)
      BY <2>5, <2>6 DEF Wakes
    <2> HIDE DEF Resources
    <2>8. Shots = shots
      <3>1. {n \in 1..Resources : entry(table, events'[n].of).mode = "OneShot"} =
            {n \in 1..Len(entries) :
                entry(table, entries[n].registration).mode = "OneShot"}
        BY <2>5, <2>7
      <3> QED
        BY <2>7, <3>1 DEF OneShots
    <2>9. Matching(plans, o.plans)
      BY <2>4, OutcomesMatch
    <2> HIDE DEF plans, shots, Shots
    <2>10. result' = RecoveryFailure(o.plans)
      BY <1>1, <2>4 DEF Ended
    <2>11. /\ Len(result'.outcomes) = Len(shots)
           /\ \A n \in 1..Len(shots) : result'.outcomes[n] = RecoveryOutcome(o.plans[n])
      <3>1. /\ Len(o.plans) = Len(shots) /\ Len(shots) \in Nat
        BY <2>2, <2>9 DEF Matching, Planned
      <3>2. result'.outcomes = [n \in 1..Len(o.plans) |-> RecoveryOutcome(o.plans[n])]
        BY <2>10 DEF RecoveryFailure
      <3> QED
        BY <3>1, <3>2
    <2>12. ASSUME NEW n \in 1..Len(shots)
           PROVE  result'.outcomes[n] =
                     [registration |-> events'[shots[n]].of,
                      state |-> entry(table', events'[shots[n]].of).state]
      <3>1. n \in 1..Len(plans)
        BY <2>2
      <3>2. PICK i \in Index : PlanFor(plans[n], i)
        BY <2>2, <3>1 DEF Planned
      <3>3. /\ o.plans[n].registration = IdOf(i)
            /\ events'[shots[n]].of = IdOf(i)
        BY <2>2, <2>5, <2>9, <3>1, <3>2 DEF Matching, PlanFor
      <3>4. decode(IdOf(i)).index = i
        BY <1>1, <3>2, ArmedId DEF PlanFor
      <3>5. table'.slots[i].entry.state = OutcomeState(o.plans[n].commit)
        BY <1>1, <2>2, <2>4, <2>9, <3>1, <3>2, EnteringAlike
      <3>6. entry(table', IdOf(i)).state = OutcomeState(o.plans[n].commit)
        BY <3>4, <3>5 DEF entry
      <3>7. result'.outcomes[n] = [registration |-> IdOf(i),
                                   state |-> OutcomeState(o.plans[n].commit)]
        BY <2>11, <3>3 DEF RecoveryOutcome
      <3> QED
        BY <3>3, <3>6, <3>7
    <2> QED
      BY <2>8, <2>11, <2>12
  <1>2. Inv /\ [Next]_vars => [Delivering /\ result'.kind = "Recovery" => Lists]_vars
    BY <1>1, DeliveringDelivers
  <1> QED
    BY <1>2, Invariance, PTL DEF Spec, RecoveryTrue

\* A set of numbers that has a member has a least one.
LEMMA Least ==
    ASSUME NEW S, S \subseteq Nat, S # {}
    PROVE  \E n \in S : \A m \in S : n <= m
  <1> DEFINE R == {ss \in Nat \X Nat : ss[1] < ss[2]}
  <1>1. IsWellFoundedOn(R, Nat)
    BY NatLessThanWellFounded DEF OpToRel
  <1>2. \A k, m \in Nat : k < m => <<k, m>> \in R
    OBVIOUS
  <1> HIDE DEF R
  <1>3. PICK n \in S : \A m \in S : ~(<<m, n>> \in R)
    BY <1>1, WFMin
  <1>4. \A m \in S : n <= m
    <2> TAKE m \in S
    <2>1. m \in Nat /\ n \in Nat
      OBVIOUS
    <2>2. ~(m < n)
      BY <1>2, <1>3, <2>1
    <2> QED
      BY <2>1, <2>2
  <1> QED
    BY <1>4

\* The records of a registration, in the words of the property.
LEMMA CountedOf ==
    ASSUME Inv, ~Idle, NEW id
    PROVE  /\ CountedFor(id) = Of(Members, Tokens, Len(batch), id)
           /\ CountedFor(id) \subseteq 1..Len(batch)
           /\ CountedFor(id) \subseteq Nat
           /\ id \in Seen <=> CountedFor(id) # {}
  <1>1. Len(batch) \in Nat
    BY BatchShape
  <1>2. \A m \in 1..Len(batch) : Tokens[m] = raw(m).token
    BY DEF Tokens
  <1>3. CountedFor(id) = Of(Members, Tokens, Len(batch), id)
    BY <1>2 DEF CountedFor, Of, Members
  <1>4. CountedFor(id) \subseteq 1..Len(batch)
    BY DEF CountedFor
  <1>5. id \in Seen <=> CountedFor(id) # {}
    BY DEF CountedFor, Seen
  <1> QED
    BY <1>1, <1>3, <1>4, <1>5

\* The first record of a registration that has one.
LEMMA FirstIsLeast ==
    ASSUME Inv, ~Idle, NEW id \in Seen
    PROVE  /\ FirstOf(id) \in CountedFor(id) /\ FirstOf(id) \in Nat
           /\ \A m \in CountedFor(id) : FirstOf(id) <= m
  <1>1. CountedFor(id) \subseteq Nat /\ CountedFor(id) # {}
    BY CountedOf
  <1> DEFINE S == CountedFor(id)
  <1>2. FirstOf(id) = CHOOSE n \in S : \A m \in S : n <= m
    BY DEF FirstOf
  <1> HIDE DEF S
  <1>3. \E n \in S : \A m \in S : n <= m
    BY <1>1, Least DEF S
  <1>4. FirstOf(id) \in S /\ \A m \in S : FirstOf(id) <= m
    BY <1>2, <1>3
  <1> QED
    BY <1>1, <1>4 DEF S

\* A list without repetitions has as many members as places.
LEMMA CountedOnce ==
    ASSUME NEW n \in Nat, NEW at, \A j, k \in 1..n : at[j] = at[k] => j = k,
           NEW S, \A j \in 1..n : at[j] \in S, \A x \in S : \E j \in 1..n : at[j] = x
    PROVE  IsFiniteSet(S) /\ Cardinality(S) = n
  <1> DEFINE f == [j \in 1..n |-> at[j]]
  <1>1. f \in Bijection(1..n, S)
    <2>1. f \in Injection(1..n, S)
      BY DEF Injection, IsInjective
    <2>2. f \in Surjection(1..n, S)
      BY DEF Surjection
    <2> QED
      BY <2>1, <2>2 DEF Bijection
  <1>2. ExistsBijection(1..n, S)
    BY <1>1 DEF ExistsBijection
  <1>3. IsFiniteSet(1..n) /\ Cardinality(1..n) = n
    <2>1. 1 \in Int /\ n \in Int
      OBVIOUS
    <2>2. /\ IsFiniteSet(1..n)
          /\ Cardinality(1..n) = IF 1 > n THEN 0 ELSE n - 1 + 1
      BY <2>1, FS_Interval
    <2> QED
      BY <2>2
  <1> QED
    BY <1>2, <1>3, FS_Bijection

\* How the entries stand to the registrations seen: in the order of their first
\* records, with what was dropped coming after.
SeenInOrder(es, first) ==
    /\ \A k \in 1..Len(es) : /\ es[k].registration \in Seen
                             /\ first[k] = FirstOf(es[k].registration)
                             /\ first[k] \in Nat
    /\ \A j, k \in 1..Len(es) : j < k => first[j] < first[k]
    /\ \A id \in Seen :
          \/ \E k \in 1..Len(es) : es[k].registration = id
          \/ Len(es) = EventCapacity /\ \A k \in 1..Len(es) : first[k] < FirstOf(id)

\* The coalesced batch is in the order of first records.
LEMMA GoodInOrder ==
    ASSUME Inv, ~Idle, NEW p, Good(Len(batch), p)
    PROVE  \E first : SeenInOrder(p.entries, first)
  <1> DEFINE es == p.entries
             n == Len(batch)
  <1>1. n \in Nat
    BY BatchShape
  <1>2. PICK first \in [1..Len(es) -> 1..n] : FirstAt(Members, Tokens, n, es, first)
    BY DEF Good, Ordered
  <1> HIDE DEF es
  <1>3. ASSUME NEW k \in 1..Len(es)
        PROVE  /\ es[k].registration \in Seen
               /\ first[k] = FirstOf(es[k].registration)
               /\ first[k] \in Nat
    <2> DEFINE id == es[k].registration
               f == first[k]
    <2>1. f \in CountedFor(id) /\ \A m \in CountedFor(id) : f <= m
      BY <1>2, CountedOf DEF FirstAt
    <2>2. id \in Seen
      BY <2>1, CountedOf
    <2> HIDE DEF id, f
    <2>3. /\ FirstOf(id) \in CountedFor(id) /\ FirstOf(id) \in Nat
          /\ \A m \in CountedFor(id) : FirstOf(id) <= m
      BY <2>2, FirstIsLeast
    <2>4. f \in Nat
      BY <2>1, CountedOf
    <2>5. f <= FirstOf(id) /\ FirstOf(id) <= f
      BY <2>1, <2>3
    <2>6. f = FirstOf(id)
      BY <2>3, <2>4, <2>5
    <2> QED
      BY <2>2, <2>4, <2>6 DEF id, f
  <1>4. \A j, k \in 1..Len(es) : j < k => first[j] < first[k]
    BY <1>2 DEF FirstAt
  <1>5. ASSUME NEW id \in Seen
        PROVE  \/ \E k \in 1..Len(es) : es[k].registration = id
               \/ Len(es) = EventCapacity /\ \A k \in 1..Len(es) : first[k] < FirstOf(id)
    <2> DEFINE m == FirstOf(id)
    <2>1. m \in Of(Members, Tokens, n, id)
      BY FirstIsLeast, CountedOf
    <2> HIDE DEF m
    <2>2. m \in 1..n /\ m \in Members /\ Tokens[m] = id
      BY <2>1 DEF Of
    <2>3. \/ \E k \in 1..Len(es) : es[k].registration = Tokens[m]
          \/ Len(es) = EventCapacity /\ \A k \in 1..Len(es) : first[k] < m
      BY <1>2, <2>2 DEF FirstAt
    <2> QED
      BY <2>2, <2>3 DEF m
  <1>6. SeenInOrder(es, first)
    BY <1>3, <1>4, <1>5 DEF SeenInOrder
  <1> QED
    BY <1>6 DEF es

\* An entry has the hints of all the records of its registration.
LEMMA GoodHints ==
    ASSUME Inv, ~Idle, NEW p, Good(Len(batch), p), NEW k \in 1..Len(p.entries)
    PROVE  p.entries[k].readiness =
              UNION {raw(m).readiness : m \in CountedFor(p.entries[k].registration)}
  <1> DEFINE id == p.entries[k].registration
             r == p.entries[k].readiness
  <1>1. \A h : h \in r <=>
               \E m \in Of(Members, Tokens, Len(batch), id) : h \in HintsOf[m]
    BY DEF Good, Hinted
  <1>2. /\ CountedFor(id) = Of(Members, Tokens, Len(batch), id)
        /\ CountedFor(id) \subseteq 1..Len(batch)
    BY CountedOf
  <1>3. \A m \in 1..Len(batch) : HintsOf[m] = raw(m).readiness
    BY DEF HintsOf
  <1> HIDE DEF id, r
  <1>4. \A h : h \in r <=> \E m \in CountedFor(id) : h \in raw(m).readiness
    BY <1>1, <1>2, <1>3
  <1>5. r = UNION {raw(m).readiness : m \in CountedFor(id)}
    BY <1>4
  <1> QED
    BY <1>5 DEF id, r

\* As many entries as registrations seen, as long as there is room.
LEMMA SeenCounted ==
    ASSUME Inv, ~Idle, NEW p, Placed(p), NEW first, SeenInOrder(p.entries, first)
    PROVE  /\ Cardinality(Seen) \in Nat
           /\ \/ Cardinality(Seen) = Len(p.entries)
              \/ Len(p.entries) = EventCapacity /\ Cardinality(Seen) >= EventCapacity
  <1> DEFINE es == p.entries
             N == Len(es)
             at == [k \in 1..N |-> es[k].registration]
             Taken == {at[k] : k \in 1..N}
  <1>1. N \in Nat /\ \A k \in 1..N : at[k] \in Seen
    BY DEF Placed, Pending, SeenInOrder
  <1>2. \A j, k \in 1..N : at[j] = at[k] => j = k
    BY PlacedOnce
  <1>3. IsFiniteSet(Seen)
    <2>1. 1 \in Int /\ Len(batch) \in Int
      BY BatchShape
    <2>2. IsFiniteSet(1..Len(batch))
      BY <2>1, FS_Interval
    <2> DEFINE f == [id \in Seen |-> FirstOf(id)]
    <2>3. f \in Injection(Seen, 1..Len(batch))
      <3>1. \A id \in Seen : FirstOf(id) \in CountedFor(id)
        BY FirstIsLeast
      <3>2. \A id \in Seen : /\ FirstOf(id) \in 1..Len(batch)
                             /\ raw(FirstOf(id)).token = id
        BY <3>1 DEF CountedFor
      <3>3. f \in [Seen -> 1..Len(batch)]
        BY <3>2
      <3>4. \A x, y \in Seen : f[x] = f[y] => x = y
        <4> TAKE x, y \in Seen
        <4> HAVE f[x] = f[y]
        <4>1. FirstOf(x) = FirstOf(y)
          OBVIOUS
        <4>2. raw(FirstOf(x)).token = x /\ raw(FirstOf(y)).token = y
          BY <3>2
        <4> QED
          BY <4>1, <4>2
      <3> HIDE DEF f
      <3> QED
        BY <3>3, <3>4 DEF Injection, IsInjective
    <2> QED
      BY <2>2, <2>3, FS_Injection
  <1> HIDE DEF at
  <1>4. IsFiniteSet(Taken) /\ Cardinality(Taken) = N
    <2>1. /\ \A j \in 1..N : at[j] \in Taken
          /\ \A x \in Taken : \E j \in 1..N : at[j] = x
      OBVIOUS
    <2> HIDE DEF Taken, N
    <2> QED
      BY <1>1, <1>2, <2>1, CountedOnce
  <1>5. Taken \subseteq Seen
    BY <1>1
  <1>6. Cardinality(Seen) \in Nat
    BY <1>3, FS_CardinalityType
  <1>7. Cardinality(Taken) <= Cardinality(Seen)
    <2> HIDE DEF Taken
    <2>1. Taken \in SUBSET Seen
      BY <1>5
    <2> QED
      BY <1>3, <2>1, FS_Subset
  <1>8. CASE Len(es) = EventCapacity
    BY <1>4, <1>6, <1>7, <1>8
  <1>9. CASE Len(es) # EventCapacity
    <2>1. Seen \subseteq Taken
      BY <1>9 DEF SeenInOrder, at
    <2>2. Seen = Taken
      BY <1>5, <2>1
    <2> QED
      BY <1>4, <1>6, <2>2
  <1> QED
    BY <1>8, <1>9

\* The registrations first seen before that of entry k are those of the entries
\* before it.
LEMMA SeenBefore ==
    ASSUME Inv, ~Idle, NEW p, Placed(p), NEW first, SeenInOrder(p.entries, first),
           NEW k \in 1..Len(p.entries)
    PROVE  Cardinality({id \in Seen : FirstOf(id) < FirstOf(p.entries[k].registration)})
              = k - 1
  <1> DEFINE es == p.entries
             at == [j \in 1..Len(es) |-> es[j].registration]
             S == {id \in Seen : FirstOf(id) < FirstOf(at[k])}
  <1>1. /\ Len(es) \in Nat /\ k \in Nat /\ k - 1 \in Nat
        /\ \A j \in 1..(k - 1) : j \in 1..Len(es) /\ j < k
        /\ \A j \in 1..Len(es) : j < k => j \in 1..(k - 1)
    BY DEF Placed, Pending
  <1>2. \A i, j \in 1..Len(es) : at[i] = at[j] => i = j
    BY PlacedOnce
  <1>3. /\ \A j \in 1..Len(es) : /\ at[j] \in Seen /\ first[j] = FirstOf(at[j])
                                 /\ first[j] \in Nat
        /\ \A i, j \in 1..Len(es) : i < j => first[i] < first[j]
        /\ \A id \in Seen : \/ \E j \in 1..Len(es) : at[j] = id
                            \/ \A j \in 1..Len(es) : first[j] < FirstOf(id)
    BY DEF SeenInOrder
  <1> HIDE DEF at, es
  <1>4. \A j \in 1..(k - 1) : at[j] \in S
    BY <1>1, <1>3 DEF es
  <1>5. ASSUME NEW id \in S PROVE \E j \in 1..(k - 1) : at[j] = id
    <2>1. k \in 1..Len(es) /\ id \in Seen /\ FirstOf(id) < first[k]
      BY <1>3 DEF es
    <2>2. FirstOf(id) \in Nat /\ first[k] \in Nat
      BY <1>3, <2>1, FirstIsLeast
    <2>3. ~(first[k] < FirstOf(id))
      BY <2>1, <2>2
    <2>4. PICK j \in 1..Len(es) : at[j] = id
      BY <1>3, <2>1, <2>3
    <2>5. first[j] < first[k] /\ first[j] \in Nat
      BY <1>3, <2>1, <2>4
    <2>6. j \in Nat /\ k \in Nat
      BY <1>1, <2>4
    <2>7. ~(k < j) /\ j # k
      <3>1. k < j => first[k] < first[j]
        BY <1>3, <2>1
      <3>2. ~(first[k] < first[j]) /\ first[j] # first[k]
        BY <2>2, <2>5
      <3> QED
        BY <3>1, <3>2
    <2>8. j < k
      BY <2>6, <2>7
    <2> QED
      BY <1>1, <2>4, <2>8
  <1>6. \A i, j \in 1..(k - 1) : at[i] = at[j] => i = j
    BY <1>1, <1>2
  <1> HIDE DEF S
  <1>7. Cardinality(S) = k - 1
    BY <1>1, <1>4, <1>5, <1>6, CountedOnce
  <1>8. at[k] = p.entries[k].registration
    BY DEF at, es
  <1> QED
    BY <1>7, <1>8 DEF S

\* The delivered events are those of a direct definition: one for each registration
\* seen, with all its hints, in the order of first observation, as many as there is
\* room for, the wake last; and no wait fails inside zio after the kernel has handed
\* out the batch (pending_kqueue.rs, observe.rs translate_kqueue).
THEOREM CoalescesExactly == Spec => CoalescedExactly
  <1> DEFINE wakes == IF woke THEN 1 ELSE 0
             N == Len(events') - wakes
             First(k) == Cardinality({id \in Seen :
                                         FirstOf(id) < FirstOf(events'[k].of)})
             Exact == /\ result'.kind # "Invariant"
                      /\ N = Smaller(Cardinality(Seen), EventCapacity - wakes)
                      /\ \A k \in 1..N :
                             /\ events'[k].of \in Seen
                             /\ events'[k].readiness =
                                    UNION {raw(m).readiness :
                                              m \in CountedFor(events'[k].of)}
                             /\ First(k) = k - 1
                      /\ woke => events'[N + 1] = WakeEvent
  <1>1. ASSUME Inv, Deliver PROVE Exact
    <2> DEFINE p == Coalesced.pending
               entries == ToDeliver(p.entries)
               plans == prepare_disarms(entries).plans
    <2>1. /\ ~Idle /\ Good(Len(batch), p) /\ Deliverable(entries)
          /\ \E o, u : Finished(entries, plans, o, u)
      BY <1>1, DeliverEnds
    <2> HIDE DEF p, plans
    <2>2. Placed(p)
      BY <2>1 DEF Good
    <2>3. PICK o, u : Finished(entries, plans, o, u)
      BY <2>1
    <2>4. /\ events' = Delivery(entries)
          /\ result' = IF o.failed THEN RecoveryFailure(o.plans) ELSE Ended("Ok")
      BY <2>3, Zenon DEF Finished
    <2>5. /\ Len(entries) = Smaller(Len(p.entries), EventCapacity - Wakes)
          /\ \A k \in 1..Len(entries) : /\ k \in 1..Len(p.entries)
                                        /\ entries[k] = p.entries[k]
      BY <1>1, <2>2, ToDeliverEnds
    <2> HIDE DEF entries
    <2>6. /\ Len(events') = Len(entries) + Wakes
          /\ \A k \in 1..Len(entries) :
                /\ events'[k].of = entries[k].registration
                /\ events'[k].readiness = entries[k].readiness
          /\ woke => events'[Len(entries) + 1] = WakeEvent
      BY <1>1, <2>1, <2>4, DeliveryFits
    <2>7. /\ Len(entries) \in Nat /\ Wakes \in {0, 1} /\ wakes = Wakes
          /\ Len(p.entries) \in Nat /\ Len(p.entries) <= EventCapacity
      BY <2>1, <2>2 DEF Deliverable, Wakes, Placed, Pending
    <2> HIDE DEF wakes
    <2>8. N = Len(entries)
      BY <2>6, <2>7
    <2> HIDE DEF N
    <2>9. PICK first : SeenInOrder(p.entries, first)
      BY <1>1, <2>1, GoodInOrder
    <2>10. result'.kind # "Invariant"
      <3>1. CASE o.failed
        BY <2>4, <3>1 DEF RecoveryFailure
      <3>2. CASE ~o.failed
        BY <2>4, <3>2 DEF Ended
      <3> QED
        BY <3>1, <3>2
    <2>11. N = Smaller(Cardinality(Seen), EventCapacity - wakes)
      <3> DEFINE c == Cardinality(Seen)
                 l == Len(p.entries)
                 w == Wakes
      <3>1. /\ c \in Nat
            /\ c = l \/ (l = EventCapacity /\ c >= EventCapacity)
        BY <1>1, <2>1, <2>2, <2>9, SeenCounted
      <3>2. /\ N = Smaller(l, EventCapacity - w) /\ w = wakes
            /\ l \in Nat /\ w \in {0, 1} /\ l <= EventCapacity
        BY <2>5, <2>7, <2>8
      <3> HIDE DEF c, l, w
      <3>3. N = Smaller(c, EventCapacity - w)
        BY <3>1, <3>2, CapacityAssumption DEF Smaller
      <3> QED
        BY <3>2, <3>3 DEF c
    <2>12. ASSUME NEW k \in 1..N
           PROVE  /\ events'[k].of \in Seen
                  /\ events'[k].readiness =
                         UNION {raw(m).readiness : m \in CountedFor(events'[k].of)}
                  /\ First(k) = k - 1
      <3>1. /\ k \in 1..Len(p.entries)
            /\ events'[k].of = p.entries[k].registration
            /\ events'[k].readiness = p.entries[k].readiness
        BY <2>5, <2>6, <2>8
      <3>2. p.entries[k].registration \in Seen
        BY <2>9, <3>1 DEF SeenInOrder
      <3>3. p.entries[k].readiness =
               UNION {raw(m).readiness : m \in CountedFor(p.entries[k].registration)}
        BY <1>1, <2>1, <3>1, GoodHints
      <3>4. Cardinality({id \in Seen :
                            FirstOf(id) < FirstOf(p.entries[k].registration)}) = k - 1
        BY <1>1, <2>1, <2>2, <2>9, <3>1, SeenBefore
      <3> QED
        BY <3>1, <3>2, <3>3, <3>4
    <2>13. woke => events'[N + 1] = WakeEvent
      BY <2>6, <2>8
    <2> HIDE DEF First
    <2> QED
      BY <2>10, <2>11, <2>12, <2>13
  <1>2. Inv /\ [Next]_vars => [Delivering => Exact]_vars
    BY <1>1, DeliveringDelivers
  <1> QED
    BY <1>2, Invariance, PTL DEF Spec, CoalescedExactly
==============================================================================
