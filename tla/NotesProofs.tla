---------------------------- MODULE NotesProofs ----------------------------
(* Theorems about Notes: blocks are freed once, by the last handle that can   *)
(* free them, and pointers dangle only behind the handle they came from.      *)
EXTENDS Notes, TLAPS

GraphOK == NotesTypeOK /\ GraphInv

-----------------------------------------------------------------------------
\* What Make says of each handle, the new one and the others.
LEMMA MadePointwise ==
    ASSUME NotesTypeOK, NEW g \in Handles, NEW k, NEW block, NEW points, NEW from,
           Make(g, k, block, points, from)
    PROVE  /\ kind[g] = "none" /\ g \notin live
           /\ kind'[g] = k /\ own'[g] = block /\ mem'[g] = points
           /\ from = None => sources'[g] = {}
           /\ from # None => sources'[g] = sources[from] \cup {from}
           /\ \A h \in Handles \ {g} : /\ kind'[h] = kind[h] /\ own'[h] = own[h]
                                       /\ mem'[h] = mem[h] /\ sources'[h] = sources[h]
  BY DEF Make, NotesTypeOK

LEMMA MadeTypes ==
    ASSUME NotesTypeOK, NEW g \in Handles, NEW k \in Kinds,
           NEW block \in Handles \cup {Lent, None}, NEW points \in Handles \cup {Lent, None},
           NEW from \in Handles \cup {None},
           Make(g, k, block, points, from)
    PROVE  /\ kind' \in [Handles -> Kinds \cup {"none"}]
           /\ own' \in [Handles -> Handles \cup {Lent, None}]
           /\ mem' \in [Handles -> Handles \cup {Lent, None}]
           /\ sources' \in [Handles -> SUBSET Handles]
           /\ \A h \in Handles : kind[h] # "none" => kind'[h] # "none"
           /\ kind'[g] # "none"
<1> USE NotesAssumption DEF NotesAssumption, NotesTypeOK
<1>1. (IF from = None THEN {} ELSE sources[from] \cup {from}) \in SUBSET Handles
  OBVIOUS
<1>2. k # "none"
  BY DEF Kinds
<1>3. QED
  BY <1>1, <1>2 DEF Make

\* A handle g is made, which points into its own block, into lent memory or
\* into the block of a handle it came from, while the handles of gone are
\* dropped and their blocks freed.
LEMMA Created ==
    ASSUME GraphOK,
           NEW g \in Handles, NEW k \in Kinds \ {"builder"},
           NEW block \in {g, Lent, None}, NEW points \in Handles \cup {Lent},
           NEW from \in live \cup {None}, NEW gone \in SUBSET live,
           Make(g, k, block, points, from),
           live' = (live \ gone) \cup {g},
           frees' \in [Handles -> {0, 1}],
           \A x \in Handles :
               frees'[x] = IF \E d \in gone : own[d] = x THEN 1 ELSE frees[x],
           building' = building,
           from # None => kind[from] # "builder",
           \A d \in gone : kind[d] # "builder",
           points \in {block, Lent} \cup {own[s] : s \in sources'[g]},
           k \notin {"ref", "relays", "block"} => block # None,
           k = "note" => points = block,
           k = "iter" => points = block \/ \E s \in sources'[g] : kind[s] = "iter"
    PROVE  GraphOK'
<1> USE NotesAssumption DEF NotesAssumption
<1>t. NotesTypeOK /\ GraphInv
  BY DEF GraphOK
<1>d. live \subseteq Handles /\ gone \subseteq Handles
  BY <1>t DEF NotesTypeOK
<1>1. /\ kind[g] = "none" /\ g \notin live
      /\ kind'[g] = k /\ own'[g] = block /\ mem'[g] = points
      /\ from = None => sources'[g] = {}
      /\ from # None => sources'[g] = sources[from] \cup {from}
  BY <1>t, <1>d, MadePointwise
<1>2. \A h \in Handles \ {g} : /\ kind'[h] = kind[h] /\ own'[h] = own[h]
                               /\ mem'[h] = mem[h] /\ sources'[h] = sources[h]
  BY <1>t, <1>d, MadePointwise
<1>3. /\ own[g] = None /\ frees[g] = 0
      /\ \A h \in Handles : g \notin sources[h] /\ own[h] # g
  BY <1>1, <1>t DEF GraphInv
<1>4. frees'[g] = 0
  BY <1>3, <1>d
<1>5. NotesTypeOK'
  <2>1. /\ kind' \in [Handles -> Kinds \cup {"none"}]
        /\ own' \in [Handles -> Handles \cup {Lent, None}]
        /\ mem' \in [Handles -> Handles \cup {Lent, None}]
        /\ sources' \in [Handles -> SUBSET Handles]
        /\ \A h \in Handles : kind[h] # "none" => kind'[h] # "none"
        /\ kind'[g] # "none"
    BY <1>t, <1>d, MadeTypes
  <2>2. live' \subseteq {h \in Handles : kind'[h] # "none"}
    BY <2>1, <1>t DEF NotesTypeOK
  <2>3. QED
    BY <2>1, <2>2, <1>t DEF NotesTypeOK
<1>6. OwnersAreAlone'
  <2> SUFFICES ASSUME NEW h \in live', own'[h] \notin {Lent, None}
               PROVE  /\ frees'[own'[h]] = 0
                      /\ \A x \in live' : own'[x] = own'[h] => x = h
    BY DEF OwnersAreAlone
  <2>1. CASE h = g
    <3>1. own'[h] = g
      BY <2>1, <1>1
    <3>2. \A x \in live' : x # g => own'[x] # g
      BY <1>2, <1>3, <1>d
    <3>3. QED
      BY <2>1, <3>1, <3>2, <1>4
  <2>2. CASE h # g
    <3>1. h \in live /\ h \notin gone /\ own'[h] = own[h] /\ own[h] \in Handles
      BY <2>2, <1>2, <1>d, <1>t DEF NotesTypeOK
    <3>2. frees[own[h]] = 0 /\ \A x \in live : own[x] = own[h] => x = h
      BY <3>1, <1>t DEF GraphInv, OwnersAreAlone
    <3>3. frees'[own[h]] = 0
      BY <3>1, <3>2
    <3>4. \A x \in live' : own'[x] = own[h] => x = h
      <4>1. own'[g] # own[h]
        BY <1>1, <1>3, <1>d, <3>1
      <4>2. \A x \in live' : x # g => x \in live /\ own'[x] = own[x]
        BY <1>2, <1>d
      <4>3. QED
        BY <4>1, <4>2, <3>2
    <3>5. QED
      BY <3>1, <3>3, <3>4
  <2>3. QED
    BY <2>1, <2>2
<1>7. \A h \in Handles : \A x \in Handles : x \in sources'[h] =>
         \/ h # g /\ x \in sources[h]
         \/ h = g /\ from # None /\ (x = from \/ x \in sources[from])
  BY <1>1, <1>2
<1>8. NothingLeaks'
  <2> SUFFICES ASSUME NEW h \in Handles, own'[h] = h \/ kind'[h] = "builder", frees'[h] = 0
               PROVE  \/ \E x \in live' : own'[x] = h
                      \/ kind'[h] = "builder" /\ \A x \in Handles : h \notin sources'[x]
    BY DEF NothingLeaks
  <2>1. CASE h = g
    <3>1. own'[g] = g /\ g \in live'
      BY <2>1, <1>1
    <3>2. QED
      BY <2>1, <3>1
  <2>2. CASE h # g
    <3>1. (own[h] = h \/ kind[h] = "builder") /\ frees[h] = 0 /\ ~\E d \in gone : own[d] = h
      BY <2>2, <1>2, <1>t DEF NotesTypeOK
    <3>2. \/ \E x \in live : own[x] = h
          \/ kind[h] = "builder" /\ \A x \in Handles : h \notin sources[x]
      BY <3>1, <1>t DEF GraphInv, NothingLeaks
    <3>3. CASE \E x \in live : own[x] = h
      BY <3>3, <3>1, <1>1, <1>2, <1>d
    <3>4. CASE kind[h] = "builder" /\ \A x \in Handles : h \notin sources[x]
      <4>1. \A x \in Handles : h \notin sources'[x]
        BY <3>4, <1>7, <1>d
      <4>2. QED
        BY <4>1, <3>4, <2>2, <1>2
    <3>5. QED
      BY <3>2, <3>3, <3>4
  <2>3. QED
    BY <2>1, <2>2
<1>9. \A h \in Handles : kind'[h] = "none" =>
        /\ own'[h] = None /\ sources'[h] = {} /\ frees'[h] = 0
        /\ \A x \in Handles : h \notin sources'[x] /\ own'[x] # h
  <2> SUFFICES ASSUME NEW h \in Handles, kind'[h] = "none"
               PROVE  /\ own'[h] = None /\ sources'[h] = {} /\ frees'[h] = 0
                      /\ \A x \in Handles : h \notin sources'[x] /\ own'[x] # h
    OBVIOUS
  <2>1. h # g /\ kind[h] = "none"
    BY <1>1, <1>2 DEF Kinds
  <2>2. /\ own[h] = None /\ sources[h] = {} /\ frees[h] = 0
        /\ \A x \in Handles : h \notin sources[x] /\ own[x] # h
    BY <2>1, <1>t DEF GraphInv
  <2>3. h \notin live
    BY <2>1, <1>t DEF NotesTypeOK
  <2>4. own'[h] = None /\ sources'[h] = {} /\ frees'[h] = 0
    BY <2>1, <2>2, <1>2, <1>d
  <2>5. \A x \in Handles : h \notin sources'[x]
    BY <2>2, <2>3, <1>7, <1>d
  <2>6. \A x \in Handles : own'[x] # h
    BY <2>1, <2>2, <1>1, <1>2
  <2>7. QED
    BY <2>4, <2>5, <2>6
<1>10. \A h \in Handles \ live' : own'[h] \in Handles => frees'[own'[h]] = 1
  <2> SUFFICES ASSUME NEW h \in Handles \ live', own'[h] \in Handles
               PROVE  frees'[own'[h]] = 1
    OBVIOUS
  <2>1. h # g /\ own'[h] = own[h] /\ (h \in gone \/ h \notin live)
    BY <1>2
  <2>2. CASE h \in gone
    BY <2>1, <2>2
  <2>3. CASE h \notin live
    <3>1. frees[own[h]] = 1
      BY <2>1, <2>3, <1>t DEF GraphInv
    <3>2. QED
      BY <2>1, <3>1
  <2>4. QED
    BY <2>1, <2>2, <2>3
<1>11. \A h \in Handles : kind'[h] \notin {"none", "builder"} =>
        /\ mem'[h] \in {own'[h], Lent} \cup {own'[s] : s \in sources'[h]} /\ mem'[h] # None
        /\ kind'[h] \notin {"ref", "relays", "block"} => own'[h] # None
        /\ kind'[h] = "note" => mem'[h] = own'[h]
        /\ kind'[h] = "iter" => mem'[h] = own'[h] \/ \E s \in sources'[h] : kind'[s] = "iter"
  <2> SUFFICES ASSUME NEW h \in Handles, kind'[h] \notin {"none", "builder"}
               PROVE  /\ mem'[h] \in {own'[h], Lent} \cup {own'[s] : s \in sources'[h]}
                      /\ mem'[h] # None
                      /\ kind'[h] \notin {"ref", "relays", "block"} => own'[h] # None
                      /\ kind'[h] = "note" => mem'[h] = own'[h]
                      /\ kind'[h] = "iter" =>
                            mem'[h] = own'[h] \/ \E s \in sources'[h] : kind'[s] = "iter"
    OBVIOUS
  <2>1. \A s \in sources'[h] : s \in Handles /\ s # g
    <3>1. \A x \in Handles : sources[x] \subseteq Handles
      BY <1>t DEF NotesTypeOK
    <3>2. from # None => from \in Handles /\ from # g
      BY <1>1, <1>d
    <3>3. QED
      BY <3>1, <3>2, <1>1, <1>2, <1>3
  <2>2. \A s \in sources'[h] : own'[s] = own[s] /\ kind'[s] = kind[s]
    BY <2>1, <1>2
  <2>3. CASE h = g
    BY <2>3, <2>2, <1>1
  <2>4. CASE h # g
    <3>1. kind'[h] = kind[h] /\ own'[h] = own[h] /\ mem'[h] = mem[h] /\ sources'[h] = sources[h]
      BY <2>4, <1>2
    <3>2. /\ mem[h] \in {own[h], Lent} \cup {own[s] : s \in sources[h]} /\ mem[h] # None
          /\ kind[h] \notin {"ref", "relays", "block"} => own[h] # None
          /\ kind[h] = "note" => mem[h] = own[h]
          /\ kind[h] = "iter" => mem[h] = own[h] \/ \E s \in sources[h] : kind[s] = "iter"
      BY <3>1, <1>t DEF GraphInv
    <3>3. QED
      BY <3>1, <3>2, <2>2
  <2>5. QED
    BY <2>3, <2>4
<1>12. \A b \in Handles : kind'[b] = "builder" =>
        /\ own'[b] = None /\ mem'[b] = b
        /\ b \in live' => frees'[b] = 0 /\ \A x \in Handles : own'[x] # b /\ b \notin sources'[x]
  <2> SUFFICES ASSUME NEW b \in Handles, kind'[b] = "builder"
               PROVE  /\ own'[b] = None /\ mem'[b] = b
                      /\ b \in live' => /\ frees'[b] = 0
                                        /\ \A x \in Handles : own'[x] # b /\ b \notin sources'[x]
    OBVIOUS
  <2>1. b # g /\ kind[b] = "builder" /\ own'[b] = own[b] /\ mem'[b] = mem[b]
    BY <1>1, <1>2
  <2>2. /\ own[b] = None /\ mem[b] = b
        /\ b \in live => frees[b] = 0 /\ \A x \in Handles : own[x] # b /\ b \notin sources[x]
    BY <2>1, <1>t DEF GraphInv
  <2>3. ASSUME b \in live'
        PROVE  frees'[b] = 0 /\ \A x \in Handles : own'[x] # b /\ b \notin sources'[x]
    <3>1. b \in live
      BY <2>1, <2>3
    <3>2. frees'[b] = 0
      BY <3>1, <2>2, <1>d
    <3>3. \A x \in Handles : own'[x] # b
      BY <3>1, <2>1, <2>2, <1>1, <1>2
    <3>4. \A x \in Handles : b \notin sources'[x]
      BY <3>1, <2>1, <2>2, <1>7, <1>d
    <3>5. QED
      BY <3>2, <3>3, <3>4
  <2>4. QED
    BY <2>1, <2>2, <2>3
<1>13. \A h \in Handles : \A s \in sources'[h] : sources'[s] \subseteq sources'[h]
  <2>1. from # None => from \in Handles /\ from # g
    BY <1>1, <1>d
  <2>2. \A h \in Handles : \A s \in sources[h] :
            s \in Handles /\ s # g /\ sources[s] \subseteq sources[h]
    BY <1>t, <1>3 DEF NotesTypeOK, GraphInv
  <2>3. QED
    BY <2>1, <2>2, <1>1, <1>2
<1>14. GraphInv'
  BY <1>6, <1>8, <1>9, <1>10, <1>11, <1>12, <1>13 DEF GraphInv
<1>15. QED
  BY <1>5, <1>14 DEF GraphOK

-----------------------------------------------------------------------------
\* A handle dropped frees its block, which nobody else was going to free.
LEMMA Dropped ==
    ASSUME GraphOK, NEW h \in Handles, Drop(h)
    PROVE  GraphOK'
<1> USE NotesAssumption DEF NotesAssumption
<1>t. NotesTypeOK /\ GraphInv
  BY DEF GraphOK
<1>d. h \in live /\ live \subseteq Handles
  BY <1>t DEF NotesTypeOK, Drop
<1>1. /\ live' = live \ {h} /\ UNCHANGED <<kind, own, mem, sources>>
      /\ frees' = IF own[h] \in {Lent, None} THEN frees ELSE [frees EXCEPT ![own[h]] = @ + 1]
  BY DEF Drop, Free
<1>2. \/ own[h] \in {Lent, None}
      \/ own[h] \in Handles /\ frees[own[h]] = 0
  BY <1>t, <1>d DEF NotesTypeOK, GraphInv, OwnersAreAlone
<1>3. /\ frees' \in [Handles -> {0, 1}]
      /\ \A x \in Handles : frees'[x] = IF own[h] = x THEN 1 ELSE frees[x]
  BY <1>t, <1>1, <1>2 DEF NotesTypeOK
<1>4. NotesTypeOK'
  <2>1. building' \in [setAt : BOOLEAN, key : {"none", "good", "bad"},
                       sig : {"zero", "given"}, at : {"zero", "given", "now"},
                       pubkey : {"zero", "given", "ofKey"},
                       signing : {"none", "sig", "sign"}, dated : BOOLEAN]
    BY <1>t DEF NotesTypeOK, Drop, NewBuilding
  <2>2. QED
    BY <2>1, <1>1, <1>3, <1>t DEF NotesTypeOK
<1>5. \A x \in live : own[x] \notin {Lent, None} /\ own[x] = own[h] => x = h
  BY <1>t, <1>d DEF GraphInv, OwnersAreAlone
<1>6. OwnersAreAlone'
  <2> SUFFICES ASSUME NEW x \in live', own[x] \notin {Lent, None}
               PROVE  frees'[own[x]] = 0 /\ \A y \in live' : own[y] = own[x] => y = x
    BY <1>1 DEF OwnersAreAlone
  <2>1. x \in live /\ x # h /\ own[x] \in Handles
    BY <1>1, <1>d, <1>t DEF NotesTypeOK
  <2>2. frees[own[x]] = 0 /\ \A y \in live : own[y] = own[x] => y = x
    BY <2>1, <1>t DEF GraphInv, OwnersAreAlone
  <2>3. QED
    BY <2>1, <2>2, <1>1, <1>3, <1>5
<1>7. NothingLeaks'
  <2> SUFFICES ASSUME NEW x \in Handles, own[x] = x \/ kind[x] = "builder", frees'[x] = 0
               PROVE  \/ \E y \in live' : own[y] = x
                      \/ kind[x] = "builder" /\ \A y \in Handles : x \notin sources[y]
    BY <1>1 DEF NothingLeaks
  <2>1. frees[x] = 0 /\ own[h] # x
    BY <1>3
  <2>2. \/ \E y \in live : own[y] = x
        \/ kind[x] = "builder" /\ \A y \in Handles : x \notin sources[y]
    BY <2>1, <1>t DEF GraphInv, NothingLeaks
  <2>3. QED
    BY <2>1, <2>2, <1>1
<1>8. \A x \in Handles \ live' : own[x] \in Handles => frees'[own[x]] = 1
  BY <1>t, <1>1, <1>3 DEF GraphInv
<1>9. \A x \in Handles : kind[x] = "none" => frees'[x] = 0
  BY <1>t, <1>d, <1>3 DEF GraphInv
<1>10. \A b \in Handles : kind[b] = "builder" /\ b \in live' => frees'[b] = 0
  BY <1>t, <1>d, <1>1, <1>3 DEF GraphInv
<1>11. GraphInv'
  BY <1>t, <1>1, <1>6, <1>7, <1>8, <1>9, <1>10 DEF GraphInv
<1>12. QED
  BY <1>4, <1>11 DEF GraphOK

-----------------------------------------------------------------------------
\* A builder is a handle that owns no block and whose buffer is its own.
LEMMA BuilderMade ==
    ASSUME GraphOK, NEW g \in Handles, NewBuilder(g)
    PROVE  GraphOK'
<1> USE NotesAssumption DEF NotesAssumption
<1>t. NotesTypeOK /\ GraphInv
  BY DEF GraphOK
<1>d. live \subseteq Handles
  BY <1>t DEF NotesTypeOK
<1>m. Make(g, "builder", None, g, None) /\ live' = live \cup {g} /\ UNCHANGED <<frees, building>>
  BY DEF NewBuilder
<1>1. /\ kind[g] = "none" /\ g \notin live
      /\ kind'[g] = "builder" /\ own'[g] = None /\ mem'[g] = g /\ sources'[g] = {}
  BY <1>t, <1>m, MadePointwise
<1>2. \A h \in Handles \ {g} : /\ kind'[h] = kind[h] /\ own'[h] = own[h]
                               /\ mem'[h] = mem[h] /\ sources'[h] = sources[h]
  BY <1>t, <1>m, MadePointwise
<1>3. /\ own[g] = None /\ frees[g] = 0
      /\ \A h \in Handles : g \notin sources[h] /\ own[h] # g
  BY <1>1, <1>t DEF GraphInv
<1>4. NotesTypeOK'
  <2>1. /\ kind' \in [Handles -> Kinds \cup {"none"}]
        /\ own' \in [Handles -> Handles \cup {Lent, None}]
        /\ mem' \in [Handles -> Handles \cup {Lent, None}]
        /\ sources' \in [Handles -> SUBSET Handles]
        /\ \A h \in Handles : kind[h] # "none" => kind'[h] # "none"
        /\ kind'[g] # "none"
    BY <1>t, <1>m, MadeTypes DEF Kinds
  <2>2. QED
    BY <2>1, <1>t, <1>m DEF NotesTypeOK
<1>5. /\ \A h \in Handles : own'[h] = own[h]
      /\ \A h \in Handles : sources'[h] = sources[h]
  BY <1>1, <1>2, <1>3, <1>t, ZenonT(40) DEF GraphInv
<1>6. OwnersAreAlone'
  BY <1>t, <1>m, <1>d, <1>3, <1>5 DEF GraphInv, OwnersAreAlone
<1>7. NothingLeaks'
  <2> SUFFICES ASSUME NEW h \in Handles, own'[h] = h \/ kind'[h] = "builder", frees'[h] = 0
               PROVE  \/ \E x \in live' : own'[x] = h
                      \/ kind'[h] = "builder" /\ \A x \in Handles : h \notin sources'[x]
    BY DEF NothingLeaks
  <2>1. CASE h = g
    BY <2>1, <1>1, <1>3, <1>5
  <2>2. CASE h # g
    BY <2>2, <1>t, <1>m, <1>d, <1>2, <1>5 DEF GraphInv, NothingLeaks
  <2>3. QED
    BY <2>1, <2>2
<1>8. \A h \in Handles : kind'[h] = "none" =>
        /\ own'[h] = None /\ sources'[h] = {} /\ frees'[h] = 0
        /\ \A x \in Handles : h \notin sources'[x] /\ own'[x] # h
  BY <1>t, <1>m, <1>1, <1>2, <1>5 DEF GraphInv
<1>9. \A h \in Handles \ live' : own'[h] \in Handles => frees'[own'[h]] = 1
  BY <1>t, <1>m, <1>5 DEF GraphInv
<1>10. \A h \in Handles : \A s \in sources[h] : s \in Handles /\ s # g
  BY <1>t, <1>3 DEF NotesTypeOK
<1>11. \A h \in Handles : kind'[h] \notin {"none", "builder"} =>
        /\ mem'[h] \in {own'[h], Lent} \cup {own'[s] : s \in sources'[h]} /\ mem'[h] # None
        /\ kind'[h] \notin {"ref", "relays", "block"} => own'[h] # None
        /\ kind'[h] = "note" => mem'[h] = own'[h]
        /\ kind'[h] = "iter" => mem'[h] = own'[h] \/ \E s \in sources'[h] : kind'[s] = "iter"
  BY <1>t, <1>1, <1>2, <1>5, <1>10 DEF GraphInv
<1>12. \A b \in Handles : kind'[b] = "builder" =>
        /\ own'[b] = None /\ mem'[b] = b
        /\ b \in live' => frees'[b] = 0 /\ \A x \in Handles : own'[x] # b /\ b \notin sources'[x]
  BY <1>t, <1>m, <1>1, <1>2, <1>3, <1>5 DEF GraphInv
<1>13. \A h \in Handles : \A s \in sources'[h] : sources'[s] \subseteq sources'[h]
  BY <1>t, <1>5, <1>10 DEF GraphInv
<1>14. GraphInv'
  BY <1>6, <1>7, <1>8, <1>9, <1>11, <1>12, <1>13 DEF GraphInv
<1>15. QED
  BY <1>4, <1>14 DEF GraphOK

\* A note is built: its block is the builder's buffer, shrunk in place, or a new
\* one, and then the buffer was freed.
LEMMA Built ==
    ASSUME GraphOK, NEW b \in Handles, NEW g \in Handles, Build(b, g)
    PROVE  GraphOK'
<1> USE NotesAssumption DEF NotesAssumption
<1>t. NotesTypeOK /\ GraphInv
  BY DEF GraphOK
<1>d. live \subseteq Handles /\ b \in live /\ kind[b] = "builder"
  BY <1>t DEF NotesTypeOK, Build, InUse
<1>b. /\ own[b] = None /\ mem[b] = b /\ frees[b] = 0
      /\ \A h \in Handles : own[h] # b /\ b \notin sources[h]
  BY <1>t, <1>d DEF GraphInv
<1> DEFINE block == own'[g]
<1>m. /\ block \in {b, g} /\ Make(g, "note", block, block, b)
      /\ live' = (live \ {b}) \cup {g} /\ building' = NewBuilding
      /\ frees' \in [Handles -> {0, 1}]
      /\ \A x \in Handles : frees'[x] = IF x = b /\ block # b THEN 1 ELSE frees[x]
  <2>1. CASE Make(g, "note", b, b, b) /\ UNCHANGED frees
    <3>1. block = b
      BY <2>1, <1>t, MadePointwise
    <3>2. QED
      BY <3>1, <2>1, <1>t DEF Build, NotesTypeOK
  <2>2. CASE Make(g, "note", g, g, b) /\ frees' = Free(b)
    <3>1. block = g /\ g # b
      BY <2>2, <1>t, <1>d, MadePointwise
    <3>2. /\ frees' \in [Handles -> {0, 1}]
          /\ \A x \in Handles : frees'[x] = IF x = b THEN 1 ELSE frees[x]
      BY <2>2, <1>t, <1>b DEF Free, NotesTypeOK
    <3>3. QED
      BY <3>1, <3>2, <2>2 DEF Build
  <2>3. QED
    BY <2>1, <2>2 DEF Build
<1>1. /\ kind[g] = "none" /\ g \notin live /\ g # b
      /\ kind'[g] = "note" /\ mem'[g] = block /\ sources'[g] = sources[b] \cup {b}
  BY <1>t, <1>d, <1>m, MadePointwise
<1>2. \A h \in Handles \ {g} : /\ kind'[h] = kind[h] /\ own'[h] = own[h]
                               /\ mem'[h] = mem[h] /\ sources'[h] = sources[h]
  BY <1>t, <1>m, MadePointwise
<1>3. /\ own[g] = None /\ frees[g] = 0
      /\ \A h \in Handles : g \notin sources[h] /\ own[h] # g
  BY <1>1, <1>t DEF GraphInv
<1> HIDE DEF block
<1>o. own'[g] = block
  BY DEF block
<1>4. NotesTypeOK'
  <2>1. /\ kind' \in [Handles -> Kinds \cup {"none"}]
        /\ own' \in [Handles -> Handles \cup {Lent, None}]
        /\ mem' \in [Handles -> Handles \cup {Lent, None}]
        /\ sources' \in [Handles -> SUBSET Handles]
        /\ \A h \in Handles : kind[h] # "none" => kind'[h] # "none"
        /\ kind'[g] # "none"
    <3>1. "note" \in Kinds /\ block \in Handles
      BY <1>m DEF Kinds
    <3>2. QED
      BY <3>1, <1>t, <1>m, MadeTypes
  <2>2. building' \in [setAt : BOOLEAN, key : {"none", "good", "bad"},
                       sig : {"zero", "given"}, at : {"zero", "given", "now"},
                       pubkey : {"zero", "given", "ofKey"},
                       signing : {"none", "sig", "sign"}, dated : BOOLEAN]
    BY <1>m DEF NewBuilding
  <2>3. live' \subseteq {h \in Handles : kind'[h] # "none"}
    BY <2>1, <1>t, <1>m DEF NotesTypeOK
  <2>4. QED
    BY <2>1, <2>2, <2>3, <1>m DEF NotesTypeOK
<1>6. OwnersAreAlone'
  <2> SUFFICES ASSUME NEW h \in live', own'[h] \notin {Lent, None}
               PROVE  /\ frees'[own'[h]] = 0
                      /\ \A x \in live' : own'[x] = own'[h] => x = h
    BY DEF OwnersAreAlone
  <2>1. CASE h = g
    <3>1. frees'[block] = 0
      BY <1>m, <1>b, <1>1, <1>3
    <3>2. \A x \in live' : x # g => own'[x] # block
      BY <1>m, <1>2, <1>3, <1>b, <1>d
    <3>3. QED
      BY <2>1, <3>1, <3>2, <1>o
  <2>2. CASE h # g
    <3>1. h \in live /\ own'[h] = own[h] /\ own[h] \in Handles
      BY <2>2, <1>2, <1>d, <1>m, <1>t DEF NotesTypeOK
    <3>2. frees[own[h]] = 0 /\ \A x \in live : own[x] = own[h] => x = h
      BY <3>1, <1>t DEF GraphInv, OwnersAreAlone
    <3>3. own[h] # b /\ own[h] # block
      BY <3>1, <1>d, <1>b, <1>3, <1>m
    <3>4. \A x \in live' : own'[x] = own[h] => x = h
      <4>1. \A x \in live' : x # g => x \in live /\ own'[x] = own[x]
        BY <1>2, <1>d, <1>m
      <4>2. QED
        BY <4>1, <3>2, <3>3, <1>o
    <3>5. QED
      BY <3>1, <3>2, <3>3, <3>4, <1>m
  <2>3. QED
    BY <2>1, <2>2
<1>7. \A h \in Handles : \A x \in Handles : x \in sources'[h] =>
         (h # g /\ x \in sources[h]) \/ (h = g /\ (x = b \/ x \in sources[b]))
  BY <1>1, <1>2
<1>8. NothingLeaks'
  <2> SUFFICES ASSUME NEW h \in Handles, own'[h] = h \/ kind'[h] = "builder", frees'[h] = 0
               PROVE  \/ \E x \in live' : own'[x] = h
                      \/ kind'[h] = "builder" /\ \A x \in Handles : h \notin sources'[x]
    BY DEF NothingLeaks
  <2>1. CASE h \in {b, g}
    <3>1. block = h
      BY <2>1, <1>m, <1>o, <1>1
    <3>2. QED
      BY <3>1, <1>o, <1>m
  <2>2. CASE h \notin {b, g}
    <3>1. (own[h] = h \/ kind[h] = "builder") /\ frees[h] = 0
      BY <2>2, <1>2, <1>m
    <3>2. \/ \E x \in live : own[x] = h
          \/ kind[h] = "builder" /\ \A x \in Handles : h \notin sources[x]
      BY <3>1, <1>t DEF GraphInv, NothingLeaks
    <3>3. CASE \E x \in live : own[x] = h
      <4>1. PICK x \in live : own[x] = h
        BY <3>3
      <4>2. x # b /\ x # g
        BY <4>1, <1>b, <1>1
      <4>3. QED
        BY <4>1, <4>2, <1>2, <1>m, <1>d
    <3>4. CASE kind[h] = "builder" /\ \A x \in Handles : h \notin sources[x]
      <4>1. \A x \in Handles : h \notin sources'[x]
        BY <3>4, <2>2, <1>7
      <4>2. QED
        BY <4>1, <3>4, <2>2, <1>2
    <3>5. QED
      BY <3>2, <3>3, <3>4
  <2>3. QED
    BY <2>1, <2>2
<1>9. \A h \in Handles : kind'[h] = "none" =>
        /\ own'[h] = None /\ sources'[h] = {} /\ frees'[h] = 0
        /\ \A x \in Handles : h \notin sources'[x] /\ own'[x] # h
  <2> SUFFICES ASSUME NEW h \in Handles, kind'[h] = "none"
               PROVE  /\ own'[h] = None /\ sources'[h] = {} /\ frees'[h] = 0
                      /\ \A x \in Handles : h \notin sources'[x] /\ own'[x] # h
    OBVIOUS
  <2>1. h # g /\ h # b /\ kind[h] = "none"
    BY <1>1, <1>2, <1>d
  <2>2. /\ own[h] = None /\ sources[h] = {} /\ frees[h] = 0
        /\ \A x \in Handles : h \notin sources[x] /\ own[x] # h
    BY <2>1, <1>t DEF GraphInv
  <2>3. QED
    BY <2>1, <2>2, <1>2, <1>7, <1>m, <1>o
<1>10. \A h \in Handles \ live' : own'[h] \in Handles => frees'[own'[h]] = 1
  <2> SUFFICES ASSUME NEW h \in Handles \ live', own'[h] \in Handles
               PROVE  frees'[own'[h]] = 1
    OBVIOUS
  <2>1. h # g /\ own'[h] = own[h] /\ (h = b \/ h \notin live)
    BY <1>2, <1>m
  <2>2. h # b
    BY <2>1, <1>b
  <2>3. frees[own[h]] = 1
    BY <2>1, <2>2, <1>t DEF GraphInv
  <2>4. QED
    BY <2>1, <2>3, <1>m
<1>11. \A h \in Handles : kind'[h] \notin {"none", "builder"} =>
        /\ mem'[h] \in {own'[h], Lent} \cup {own'[s] : s \in sources'[h]} /\ mem'[h] # None
        /\ kind'[h] \notin {"ref", "relays", "block"} => own'[h] # None
        /\ kind'[h] = "note" => mem'[h] = own'[h]
        /\ kind'[h] = "iter" => mem'[h] = own'[h] \/ \E s \in sources'[h] : kind'[s] = "iter"
  <2> SUFFICES ASSUME NEW h \in Handles, kind'[h] \notin {"none", "builder"}
               PROVE  /\ mem'[h] \in {own'[h], Lent} \cup {own'[s] : s \in sources'[h]}
                      /\ mem'[h] # None
                      /\ kind'[h] \notin {"ref", "relays", "block"} => own'[h] # None
                      /\ kind'[h] = "note" => mem'[h] = own'[h]
                      /\ kind'[h] = "iter" =>
                            mem'[h] = own'[h] \/ \E s \in sources'[h] : kind'[s] = "iter"
    OBVIOUS
  <2>1. CASE h = g
    BY <2>1, <1>1, <1>m, <1>o
  <2>2. CASE h # g
    <3>1. kind'[h] = kind[h] /\ own'[h] = own[h] /\ mem'[h] = mem[h] /\ sources'[h] = sources[h]
      BY <2>2, <1>2
    <3>2. /\ mem[h] \in {own[h], Lent} \cup {own[s] : s \in sources[h]} /\ mem[h] # None
          /\ kind[h] \notin {"ref", "relays", "block"} => own[h] # None
          /\ kind[h] = "note" => mem[h] = own[h]
          /\ kind[h] = "iter" => mem[h] = own[h] \/ \E s \in sources[h] : kind[s] = "iter"
      BY <3>1, <1>t DEF GraphInv
    <3>3. \A s \in sources[h] : own'[s] = own[s] /\ kind'[s] = kind[s]
      BY <1>t, <1>2, <1>3 DEF NotesTypeOK
    <3>4. QED
      BY <3>1, <3>2, <3>3
  <2>3. QED
    BY <2>1, <2>2
<1>12. \A c \in Handles : kind'[c] = "builder" =>
        /\ own'[c] = None /\ mem'[c] = c
        /\ c \in live' => frees'[c] = 0 /\ \A x \in Handles : own'[x] # c /\ c \notin sources'[x]
  <2> SUFFICES ASSUME NEW c \in Handles, kind'[c] = "builder"
               PROVE  /\ own'[c] = None /\ mem'[c] = c
                      /\ c \in live' => /\ frees'[c] = 0
                                        /\ \A x \in Handles : own'[x] # c /\ c \notin sources'[x]
    OBVIOUS
  <2>1. c # g /\ kind[c] = "builder" /\ own'[c] = own[c] /\ mem'[c] = mem[c]
    BY <1>1, <1>2
  <2>2. /\ own[c] = None /\ mem[c] = c
        /\ c \in live => frees[c] = 0 /\ \A x \in Handles : own[x] # c /\ c \notin sources[x]
    BY <2>1, <1>t DEF GraphInv
  <2>3. ASSUME c \in live'
        PROVE  frees'[c] = 0 /\ \A x \in Handles : own'[x] # c /\ c \notin sources'[x]
    <3>1. c \in live /\ c # b
      BY <2>1, <2>3, <1>m, <1>1
    <3>2. QED
      BY <3>1, <2>1, <2>2, <1>2, <1>7, <1>m, <1>o
  <2>4. QED
    BY <2>1, <2>2, <2>3
<1>13. \A h \in Handles : \A s \in sources'[h] : sources'[s] \subseteq sources'[h]
  <2>1. \A h \in Handles : \A s \in sources[h] :
            s \in Handles /\ s # g /\ sources[s] \subseteq sources[h]
    BY <1>t, <1>3 DEF NotesTypeOK, GraphInv
  <2>2. QED
    BY <2>1, <1>1, <1>2
<1>14. GraphInv'
  BY <1>6, <1>8, <1>9, <1>10, <1>11, <1>12, <1>13 DEF GraphInv
<1>15. QED
  BY <1>4, <1>14 DEF GraphOK

\* The fields of a builder are not part of the graph.
LEMMA Called ==
    ASSUME GraphOK, UNCHANGED <<kind, live, own, mem, sources, frees>>,
           building' \in [setAt : BOOLEAN, key : {"none", "good", "bad"},
                          sig : {"zero", "given"}, at : {"zero", "given", "now"},
                          pubkey : {"zero", "given", "ofKey"},
                          signing : {"none", "sig", "sign"}, dated : BOOLEAN]
    PROVE  GraphOK'
  BY DEF GraphOK, NotesTypeOK, GraphInv, OwnersAreAlone, NothingLeaks

-----------------------------------------------------------------------------
\* Every step keeps the inductive invariant.
LEMMA GraphInductive == GraphOK /\ [Next]_vars => GraphOK'
<1> SUFFICES ASSUME GraphOK, [Next]_vars
             PROVE  GraphOK'
  OBVIOUS
<1> USE NotesAssumption DEF NotesAssumption
<1>t. NotesTypeOK /\ GraphInv
  BY DEF GraphOK
<1>d. /\ live \subseteq Handles
      /\ building \in [setAt : BOOLEAN, key : {"none", "good", "bad"},
                       sig : {"zero", "given"}, at : {"zero", "given", "now"},
                       pubkey : {"zero", "given", "ofKey"},
                       signing : {"none", "sig", "sign"}, dated : BOOLEAN]
  BY <1>t DEF NotesTypeOK
\* A handle that leads to a block is somebody's, or it is lent.
<1>p. \A h \in live : kind[h] # "builder" =>
        /\ mem[h] \in Handles \cup {Lent}
        /\ mem[h] \in {own[h], Lent} \cup {own[s] : s \in sources[h]}
        /\ kind[h] \notin {"ref", "relays", "block"} => own[h] \in Handles \cup {Lent}
        /\ kind[h] = "note" => mem[h] = own[h]
        /\ kind[h] = "iter" => mem[h] = own[h] \/ \E s \in sources[h] : kind[s] = "iter"
  BY <1>t DEF NotesTypeOK, GraphInv
\* The handle that another came from, and those before it, were not touched.
<1>s. \A h \in live, g \in Handles, k \in Kinds, block, points \in Handles \cup {Lent, None} :
        Make(g, k, block, points, h) =>
            /\ sources'[g] = sources[h] \cup {h}
            /\ {own[h], Lent} \cup {own[s] : s \in sources[h]}
                 \subseteq {block, Lent} \cup {own[s] : s \in sources'[g]}
  <2> SUFFICES ASSUME NEW h \in live, NEW g \in Handles, NEW k \in Kinds,
                      NEW block \in Handles \cup {Lent, None},
                      NEW points \in Handles \cup {Lent, None},
                      Make(g, k, block, points, h)
               PROVE  sources'[g] = sources[h] \cup {h}
    OBVIOUS
  <2>1. h # None
    BY <1>d
  <2>2. QED
    BY <2>1, <1>t, MadePointwise
<1>k. {"note", "tags", "iter", "tag", "str", "relays", "blockIter", "block", "ref"}
        \subseteq Kinds \ {"builder"}
  BY DEF Kinds
<1>g. frees \in [Handles -> {0, 1}]
  BY <1>t DEF NotesTypeOK
\* One handle made from one that stays: what is left of Created to show.
<1>c. ASSUME NEW h \in live, NEW g \in Handles, NEW k \in Kinds \ {"builder"},
             NEW block \in {g, Lent, None}, NEW points \in Handles \cup {Lent},
             Make(g, k, block, points, h),
             live' = live \cup {g}, UNCHANGED <<frees, building>>,
             kind[h] # "builder",
             points \in {block, Lent, own[h]} \cup {own[s] : s \in sources[h]},
             k \notin {"ref", "relays", "block"} => block # None,
             k = "note" => points = block,
             k = "iter" => \/ points = block
                           \/ kind[h] = "iter"
      PROVE  GraphOK'
  <2>1. sources'[g] = sources[h] \cup {h}
    BY <1>s, <1>c
  <2>2. points \in {block, Lent} \cup {own[s] : s \in sources'[g]}
    BY <2>1, <1>c
  <2>3. k = "iter" => points = block \/ \E s \in sources'[g] : kind[s] = "iter"
    BY <2>1, <1>c
  <2> DEFINE gone == {}
  <2>4. /\ gone \in SUBSET live /\ \A d \in gone : kind[d] # "builder"
        /\ live' = (live \ gone) \cup {g} /\ frees' \in [Handles -> {0, 1}]
        /\ \A x \in Handles : frees'[x] = IF \E d \in gone : own[d] = x THEN 1 ELSE frees[x]
    BY <1>c, <1>g
  <2> HIDE DEF gone
  <2>5. h \in live \cup {None}
    OBVIOUS
  <2>6. QED
    BY <2>2, <2>3, <2>4, <2>5, <1>c, Created
<1>1. ASSUME NEW g \in Handles, NewNote(g)
      PROVE  GraphOK'
  <2>1. PICK block \in {g, Lent} : Make(g, "note", block, block, None)
    BY <1>1 DEF NewNote
  <2> DEFINE gone == {}
  <2>2. /\ gone \in SUBSET live /\ \A d \in gone : kind[d] # "builder"
        /\ live' = (live \ gone) \cup {g} /\ frees' \in [Handles -> {0, 1}]
        /\ \A x \in Handles : frees'[x] = IF \E d \in gone : own[d] = x THEN 1 ELSE frees[x]
        /\ building' = building
    BY <1>1, <1>g DEF NewNote
  <2> HIDE DEF gone
  <2>3. block \in {g, Lent, None} /\ block \in Handles \cup {Lent} /\ block # None
    BY <2>1
  <2>4. None \in live \cup {None} /\ "note" \in Kinds \ {"builder"}
    BY <1>k
  <2>5. block \in {block, Lent} \cup {own[s] : s \in sources'[g]}
    OBVIOUS
  <2>6. QED
    BY <2>1, <2>2, <2>3, <2>4, <2>5, Created
<1>2. ASSUME NEW g \in Handles, NewBuilder(g)
      PROVE  GraphOK'
  BY <1>2, BuilderMade
<1>3. ASSUME NEW h \in Handles, NEW g \in Handles, Clone(h, g)
      PROVE  GraphOK'
  <2> DEFINE points == IF kind[h] = "note" THEN CloneOf(h, g) ELSE mem[h]
  <2>1. /\ h \in live /\ kind[h] \in {"note", "tags", "iter", "tag"}
        /\ live' = live \cup {g} /\ UNCHANGED <<frees, building>>
        /\ Make(g, kind[h], CloneOf(h, g), points, h)
    BY <1>3 DEF Clone
  <2>2. CloneOf(h, g) \in {g, Lent}
    BY DEF CloneOf
  <2>3. /\ points \in Handles \cup {Lent}
        /\ points \in {CloneOf(h, g), Lent, own[h]} \cup {own[s] : s \in sources[h]}
    BY <2>1, <2>2, <1>p
  <2>4. kind[h] = "note" => points = CloneOf(h, g)
    OBVIOUS
  <2>5. QED
    BY <2>1, <2>2, <2>3, <2>4, <1>k, <1>c
<1>4. ASSUME NEW h \in Handles, NEW g \in Handles, TagsOf(h, g)
      PROVE  GraphOK'
  <2>1. own[h] \in Handles \cup {Lent} /\ CloneOf(h, g) \in {g, Lent}
    BY <1>4, <1>p DEF TagsOf, CloneOf
  <2>2. QED
    BY <2>1, <1>4, <1>k, <1>c DEF TagsOf
<1>5. ASSUME NEW h \in Handles, NEW g \in Handles, Iter(h, g)
      PROVE  GraphOK'
  <2>1. IterStart(h, g) = CloneOf(h, g) /\ CloneOf(h, g) \in {g, Lent}
    BY DEF IterStart, CloneOf
  <2>2. QED
    BY <2>1, <1>5, <1>k, <1>c DEF Iter
<1>6. ASSUME NEW h \in Handles, NEW g \in Handles, IntoIter(h, g)
      PROVE  GraphOK'
  <2>1. /\ h \in live /\ kind[h] = "tags" /\ live' = (live \ {h}) \cup {g}
        /\ CloneOf(h, g) \in {g, Lent}
        /\ Make(g, "iter", CloneOf(h, g), CloneOf(h, g), h) /\ building' = building
    BY <1>6 DEF IntoIter, IterStart, CloneOf
  <2>2. \/ own[h] \in {Lent, None}
        \/ own[h] \in Handles /\ frees[own[h]] = 0
    BY <2>1, <1>t DEF NotesTypeOK, GraphInv, OwnersAreAlone
  <2>3. own[h] # None
    BY <2>1, <1>d, <1>p
  <2> DEFINE gone == {h}
  <2>4. /\ gone \in SUBSET live /\ \A d \in gone : kind[d] # "builder"
        /\ live' = (live \ gone) \cup {g} /\ frees' \in [Handles -> {0, 1}]
        /\ \A x \in Handles : frees'[x] = IF \E d \in gone : own[d] = x THEN 1 ELSE frees[x]
    BY <2>1, <2>2, <2>3, <1>6, <1>g DEF IntoIter, Free
  <2> HIDE DEF gone
  <2> DEFINE block == CloneOf(h, g)
  <2>5. /\ block \in {g, Lent, None} /\ block # None /\ block \in Handles \cup {Lent}
        /\ h \in live \cup {None} /\ "iter" \in Kinds \ {"builder"}
        /\ Make(g, "iter", block, block, h) /\ kind[h] # "builder"
        /\ block \in {block, Lent} \cup {own[s] : s \in sources'[g]}
    BY <2>1, <1>k
  <2> HIDE DEF block
  <2>6. QED
    BY <2>1, <2>4, <2>5, Created
<1>7. ASSUME NEW h \in Handles, NEW g \in Handles, NextTag(h, g)
      PROVE  GraphOK'
  <2>1. mem[h] \in Handles \cup {Lent} /\ CloneOf(h, g) \in {g, Lent}
    BY <1>7, <1>p DEF NextTag, CloneOf
  <2>2. QED
    BY <2>1, <1>7, <1>k, <1>p, <1>c DEF NextTag
<1>8. ASSUME NEW h \in Handles, NEW g \in Handles, GetStr(h, g)
      PROVE  GraphOK'
  <2>1. PICK block \in {mem[h], own[h]} : Make(g, "str", CloneOf(h, g), block, h)
    BY <1>8 DEF GetStr, StrOf
  <2>2. own[h] \in Handles \cup {Lent} /\ mem[h] \in Handles \cup {Lent}
    BY <1>8, <1>p DEF GetStr
  <2>3. CloneOf(h, g) \in {g, Lent}
    BY DEF CloneOf
  <2>4. QED
    BY <2>1, <2>2, <2>3, <1>8, <1>k, <1>p, <1>c DEF GetStr
<1>9. ASSUME NEW h \in Handles, NEW g \in Handles, Borrow(h, g)
      PROVE  GraphOK'
  <2>1. CASE kind[h] # "block"
    <3>1. PICK block \in {mem[h], own[h]} :
              /\ Make(g, "ref", None, block, h) /\ kind[h] \in {"note", "str", "tag", "relays"}
              /\ kind[h] = "tag" \/ block = mem[h]
      BY <2>1, <1>9 DEF Borrow, StrOf
    <3>2. block \in Handles \cup {Lent}
      BY <3>1, <1>9, <1>p DEF Borrow
    <3>3. QED
      BY <3>1, <3>2, <1>9, <1>k, <1>p, <1>c DEF Borrow
  <2>2. CASE kind[h] = "block"
    <3>1. PICK block \in InBlock(h) : Make(g, "ref", None, block, h)
      BY <2>2, <1>9 DEF Borrow
    <3>2. /\ block \in Handles \cup {Lent}
          /\ block \in {own[h], Lent} \cup {own[s] : s \in sources[h]}
      <4>1. CASE block = mem[h]
        BY <4>1, <2>2, <1>9, <1>p DEF Borrow
      <4>2. CASE block # mem[h]
        <5>1. PICK i \in sources[h] : own[i] = mem[h] /\ block = mem[i]
          BY <4>2, <3>1 DEF InBlock
        <5>2. i \in Handles /\ sources[i] \subseteq sources[h] /\ own[i] # None
          BY <5>1, <2>2, <1>9, <1>p, <1>t DEF Borrow, NotesTypeOK, GraphInv
        <5>3. kind[i] \notin {"none", "builder"}
          BY <5>2, <1>t DEF GraphInv
        <5>4. /\ mem[i] \in {own[i], Lent} \cup {own[s] : s \in sources[i]} /\ mem[i] # None
              /\ mem[i] \in Handles \cup {Lent, None}
          BY <5>2, <5>3, <1>t DEF NotesTypeOK, GraphInv
        <5>5. QED
          BY <5>1, <5>2, <5>4
      <4>3. QED
        BY <4>1, <4>2
    <3>3. QED
      BY <3>1, <3>2, <2>2, <1>9, <1>k, <1>c DEF Borrow
  <2>3. QED
    BY <2>1, <2>2
<1>10. ASSUME NEW h \in Handles, NEW g \in Handles, Relays(h, g)
       PROVE  GraphOK'
  <2>1. PICK cursor \in {g, None} : Make(g, "relays", cursor, Lent, h)
    BY <1>10 DEF Relays
  <2>2. QED
    BY <2>1, <1>10, <1>k, <1>c DEF Relays
<1>11. ASSUME NEW h \in Handles, NEW g \in Handles, BlockIter(h, g)
       PROVE  GraphOK'
  <2>1. own[h] \in Handles \cup {Lent}
    BY <1>11, <1>p DEF BlockIter
  <2>2. QED
    BY <2>1, <1>11, <1>k, <1>c DEF BlockIter
<1>12. ASSUME NEW h \in Handles, NEW g \in Handles, NextBlock(h, g)
       PROVE  GraphOK'
  <2>1. own[h] \in Handles \cup {Lent}
    BY <1>12, <1>p DEF NextBlock
  <2>2. QED
    BY <2>1, <1>12, <1>k, <1>c DEF NextBlock
<1>13. ASSUME NEW b \in Handles, NEW g \in Handles, Build(b, g)
       PROVE  GraphOK'
  BY <1>13, Built
<1>14. ASSUME NEW h \in Handles, Drop(h)
       PROVE  GraphOK'
  BY <1>14, Dropped
<1>15. ASSUME NEW h \in Handles,
              \/ Sig(h)
              \/ \E k \in {"good", "bad"} : Sign(h, k)
              \/ CreatedAt(h)
              \/ Pubkey(h)
              \/ \E setAt \in BOOLEAN, k \in {"none", "good", "bad"} : Options(h, setAt, k)
              \/ BuildFails(h)
       PROVE  GraphOK'
  <2>1. UNCHANGED <<kind, live, own, mem, sources, frees>>
    BY <1>15 DEF Sig, Sign, CreatedAt, Pubkey, Options, BuildFails, Call
  <2>2. building' \in [setAt : BOOLEAN, key : {"none", "good", "bad"},
                       sig : {"zero", "given"}, at : {"zero", "given", "now"},
                       pubkey : {"zero", "given", "ofKey"},
                       signing : {"none", "sig", "sign"}, dated : BOOLEAN]
    BY <1>15, <1>d, ZenonT(40) DEF Sig, Sign, CreatedAt, Pubkey, Options, BuildFails, Prepared, Call
  <2>3. QED
    BY <2>1, <2>2, Called
<1>16. CASE UNCHANGED vars
  BY <1>16, <1>d, Called DEF vars
<1>17. QED
  BY <1>1, <1>2, <1>3, <1>4, <1>5, <1>6, <1>7, <1>8, <1>9, <1>10, <1>11, <1>12, <1>13,
     <1>14, <1>15, <1>16
  DEF Next

LEMMA GraphAlways == Spec => []GraphOK
<1>1. Init => GraphOK
  <2> SUFFICES ASSUME Init
               PROVE  GraphOK
    OBVIOUS
  <2>1. NotesTypeOK
    BY DEF Init, NotesTypeOK, NewBuilding
  <2>2. GraphInv
    BY NotesAssumption
    DEF NotesAssumption, Init, GraphInv, OwnersAreAlone, NothingLeaks
  <2>3. QED
    BY <2>1, <2>2 DEF GraphOK
<1>2. QED
  BY <1>1, GraphInductive, PTL DEF Spec

\* Every variable keeps to its type, and no block is freed twice: whatever the
\* notes, iterators and builders a program makes, clones and drops.
THEOREM NotesTypeCorrect == Spec => []NotesTypeOK
<1>1. GraphOK => NotesTypeOK
  BY DEF GraphOK
<1>2. QED
  BY <1>1, GraphAlways, PTL

\* The block of a live owned note is allocated, and no other handle frees it.
THEOREM OwnersStayAlone == Spec => []OwnersAreAlone
<1>1. GraphOK => OwnersAreAlone
  BY DEF GraphOK, GraphInv
<1>2. QED
  BY <1>1, GraphAlways, PTL

\* A block that is not freed has a note to free it, but for a builder's buffer.
THEOREM NothingEverLeaks == Spec => []NothingLeaks
<1>1. GraphOK => NothingLeaks
  BY DEF GraphOK, GraphInv
<1>2. QED
  BY <1>1, GraphAlways, PTL

\* A pointer dangles only if it leads into the block of a handle that came
\* before it and was dropped: never in a note or in a first iterator.
THEOREM DanglingIsBehind == Spec => []DanglesOnlyBehindSource
<1>1. GraphOK => DanglesOnlyBehindSource
  <2> SUFFICES ASSUME GraphOK, NEW h \in live, ~Intact(mem[h])
               PROVE  /\ \E s \in sources[h] \ live : own[s] = mem[h]
                      /\ kind[h] # "note"
                      /\ kind[h] = "iter" => \E s \in sources[h] : kind[s] = "iter"
    BY DEF DanglesOnlyBehindSource
  <2> USE NotesAssumption DEF NotesAssumption
  <2>t. NotesTypeOK /\ GraphInv
    BY DEF GraphOK
  <2>1. h \in Handles /\ kind[h] # "none" /\ mem[h] \in Handles \cup {Lent, None}
    BY <2>t DEF NotesTypeOK
  <2>2. mem[h] # Lent /\ (mem[h] \in Handles => frees[mem[h]] # 0)
    BY DEF Intact
  <2>3. kind[h] # "builder"
    BY <2>1, <2>2, <2>t DEF GraphInv
  <2>4. /\ mem[h] \in {own[h]} \cup {own[s] : s \in sources[h]} /\ mem[h] \in Handles
        /\ kind[h] = "note" => mem[h] = own[h]
        /\ kind[h] = "iter" => mem[h] = own[h] \/ \E s \in sources[h] : kind[s] = "iter"
    BY <2>1, <2>2, <2>3, <2>t DEF GraphInv
  <2>5. \A s \in live : own[s] \in Handles => frees[own[s]] = 0
    BY <2>t DEF GraphInv, OwnersAreAlone
  <2>6. mem[h] # own[h]
    BY <2>2, <2>4, <2>5
  <2>7. PICK s \in sources[h] : own[s] = mem[h]
    BY <2>4, <2>6
  <2>8. s \notin live
    BY <2>2, <2>4, <2>5, <2>7
  <2>9. QED
    BY <2>4, <2>6, <2>7, <2>8
<1>2. QED
  BY <1>1, GraphAlways, PTL

\* Of sig, sign, created_at and options the last one called decides.
THEOREM BuildersObey == Spec => []BuildsAsAsked
<1>1. Init => AskedInv
  BY DEF Init, NewBuilding, AskedInv
<1>2. NotesTypeOK /\ AskedInv /\ [Next]_vars => AskedInv'
  <2> SUFFICES ASSUME NotesTypeOK, AskedInv, [Next]_vars, building' # building, building' # NewBuilding
               PROVE  AskedInv'
    BY DEF AskedInv, NewBuilding
  <2>1. ASSUME NEW h \in Handles, NEW g \in Handles,
               \/ NewNote(g) \/ NewBuilder(g) \/ Clone(h, g) \/ TagsOf(h, g) \/ Iter(h, g)
               \/ IntoIter(h, g) \/ NextTag(h, g) \/ GetStr(h, g) \/ Relays(h, g)
               \/ BlockIter(h, g) \/ NextBlock(h, g) \/ Borrow(h, g)
               \/ Build(h, g) \/ Drop(h)
        PROVE  FALSE
    BY <2>1 DEF NewNote, NewBuilder, Clone, TagsOf, Iter, IntoIter, NextTag, GetStr,
                Relays, BlockIter, NextBlock, Borrow, Build, Drop
  <2>2. ASSUME NEW h \in Handles, BuildFails(h)
        PROVE  AskedInv'
    BY <2>2 DEF BuildFails, Call, Prepared, AskedInv, NotesTypeOK
  <2>3. ASSUME NEW h \in Handles, Sig(h) \/ CreatedAt(h) \/ Pubkey(h)
        PROVE  AskedInv'
    BY <2>3 DEF Sig, CreatedAt, Pubkey, Call, AskedInv, NotesTypeOK
  <2>4. ASSUME NEW h \in Handles,
               \/ \E k \in {"good", "bad"} : Sign(h, k)
               \/ \E setAt \in BOOLEAN, k \in {"none", "good", "bad"} : Options(h, setAt, k)
        PROVE  AskedInv'
    <3>1. ASSUME NEW k \in {"good", "bad"}, Sign(h, k) PROVE AskedInv'
      BY <3>1 DEF Sign, Call, AskedInv, NotesTypeOK
    <3>2. ASSUME NEW setAt \in BOOLEAN, NEW k \in {"none", "good", "bad"}, Options(h, setAt, k)
          PROVE  AskedInv'
      BY <3>2 DEF Options, Call, AskedInv, NotesTypeOK
    <3>3. QED
      BY <2>4, <3>1, <3>2
  <2>5. QED
    BY <2>1, <2>2, <2>3, <2>4 DEF Next, vars
<1>3. AskedInv => BuildsAsAsked
  BY DEF AskedInv, BuildsAsAsked, Signature, Prepared
<1>4. QED
  BY <1>1, <1>2, <1>3, NotesTypeCorrect, PTL DEF Spec
=============================================================================
