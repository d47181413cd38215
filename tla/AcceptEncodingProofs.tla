------------------------ MODULE AcceptEncodingProofs ------------------------
(***************************************************************************)
(* The pass over the header finds the best option whatever the tokens,     *)
(* qualities and flags, and there is only one best option: the result does *)
(* not depend on the order of the tokens.  BestOfSeen is inductive with    *)
(* TypeOK, because Better is transitive and a token offers one encoding at *)
(* most.                                                                   *)
(***************************************************************************)
EXTENDS AcceptEncoding, TLAPS

(* The preferences are different.                                          *)
LEMMA PrefFacts ==
    /\ \A e \in Encodings : Pref[e] \in 0 .. 3
    /\ \A e, f \in Encodings : Pref[e] = Pref[f] => e = f
BY DEF Pref, Encodings, Compressions

(* The wildcard stands for something the build has.                        *)
LEMMA WildcardSupported ==
    ASSUME embedded \subseteq Compressions
    PROVE  Wildcard \in Supported
<1>1. \E e \in Supported : \A f \in Supported : Pref[e] >= Pref[f]
  <2>1. CASE "br" \in Supported
      BY <2>1 DEF Pref, Encodings, Compressions, Supported
  <2>2. CASE "br" \notin Supported /\ "zstd" \in Supported
      BY <2>2 DEF Pref, Encodings, Compressions, Supported
  <2>3. CASE "br" \notin Supported /\ "zstd" \notin Supported /\ "gzip" \in Supported
      BY <2>3 DEF Pref, Encodings, Compressions, Supported
  <2>4. CASE Supported = {"identity"}
      BY <2>4, PrefFacts DEF Encodings
  <2> QED
      BY <2>1, <2>2, <2>3, <2>4 DEF Compressions, Supported
<1> QED
    BY <1>1 DEF Wildcard

(* A token offers at most one encoding, and the build has it.              *)
LEMMA OffersOne ==
    ASSUME embedded \subseteq Compressions, NEW t
    PROVE  /\ Offers(t) \subseteq Supported
           /\ \A e, f \in Offers(t) : e = f
BY WildcardSupported DEF Offers

(* The pass starts with the baseline.                                      *)
LEMMA InitBest == Init => TypeOK /\ BestOfSeen
<1> SUFFICES ASSUME Init PROVE TypeOK /\ BestOfSeen
    OBVIOUS
<1>1. TypeOK
    BY DEF Init, TypeOK, NotBest, Supported
<1>2. Options = {NotBest}
    BY DEF Init, Options
<1>3. ~ Better(NotBest.q, NotBest.enc, NotBest)
    BY QualityAssumption, PrefFacts DEF Better, NotBest, Encodings
<1> QED
    BY <1>1, <1>2, <1>3 DEF Init, BestOfSeen

(* Better is transitive, on what can be compared.                          *)
LEMMA BetterTransitive ==
    ASSUME NEW a \in [enc : Encodings, q : Int],
           NEW b \in [enc : Encodings, q : Int],
           NEW c \in [enc : Encodings, q : Int],
           Better(a.q, a.enc, b), Better(b.q, b.enc, c)
    PROVE  Better(a.q, a.enc, c)
<1>1. /\ a.q \in Int /\ b.q \in Int /\ c.q \in Int
      /\ Pref[a.enc] \in 0 .. 3 /\ Pref[b.enc] \in 0 .. 3 /\ Pref[c.enc] \in 0 .. 3
    BY PrefFacts
<1> QED
    BY <1>1 DEF Better

(* Nothing is better than itself.                                          *)
LEMMA BetterIrreflexive ==
    ASSUME NEW a \in [enc : Encodings, q : Int]
    PROVE  ~ Better(a.q, a.enc, a)
BY PrefFacts DEF Better

(* Options have encodings and qualities.                                   *)
LEMMA OptionTypes ==
    ASSUME TypeOK
    PROVE  /\ Options \subseteq [enc : Encodings, q : Int]
           /\ best \in [enc : Encodings, q : Int]
<1>1. Supported \subseteq Encodings
    BY DEF TypeOK, Supported, Encodings
<1>2. Qualities \subseteq Int /\ Baseline \in Int
    BY QualityAssumption
<1>3. NotBest \in [enc : Encodings, q : Int]
    BY <1>2 DEF NotBest, Encodings
<1>4. ASSUME NEW o \in [enc : Supported, q : Qualities]
      PROVE  o \in [enc : Encodings, q : Int]
    BY <1>1, <1>2
<1>5. best \in [enc : Encodings, q : Int]
    BY <1>1, <1>2 DEF TypeOK
<1> QED
    BY <1>3, <1>4, <1>5 DEF Options

(* A token replaces the best option only by a better one, and adds at most *)
(* that one to the options.                                                *)
LEMMA ReadTokenBest ==
    ASSUME TypeOK, BestOfSeen, NEW t \in Token, ReadToken(t)
    PROVE  TypeOK' /\ BestOfSeen'
<1>1. /\ embedded' = embedded /\ Supported' = Supported
      /\ seen' = seen \cup {t}
    BY DEF ReadToken, Supported
<1>2. \A u : Offers(u)' = Offers(u)
    BY <1>1 DEF Offers, Wildcard
<1>3. /\ Offers(t) \subseteq Supported /\ Supported \subseteq Encodings
      /\ \A e, f \in Offers(t) : e = f
    BY OffersOne DEF TypeOK, Supported, Encodings
<1>4. /\ Options \subseteq Options'
      /\ \A o \in Options' : o \in Options \/ (o.enc \in Offers(t) /\ o.q = t.q)
    BY <1>1, <1>2 DEF Options
<1>5. CASE \E e \in Offers(t) :
              Better(t.q, e, best) /\ best' = [enc |-> e, q |-> t.q]
  <2>1. PICK e \in Offers(t) :
              Better(t.q, e, best) /\ best' = [enc |-> e, q |-> t.q]
      BY <1>5
  <2>2. t.q \in Qualities
      BY <2>1 DEF Better, Token
  <2>3. TypeOK'
      BY <1>1, <1>3, <2>1, <2>2 DEF TypeOK
  <2>4. best' \in Options'
      BY <1>1, <1>2, <1>3, <2>1, <2>2 DEF Options
  <2>5. best' \in [enc : Encodings, q : Int]
      BY <1>3, <2>1, <2>2, QualityAssumption
  <2>6. ASSUME NEW o \in Options, Better(o.q, o.enc, best') PROVE FALSE
    <3>1. o \in [enc : Encodings, q : Int] /\ best \in [enc : Encodings, q : Int]
        BY OptionTypes
    <3>2. Better(best'.q, best'.enc, best)
        BY <2>1
    <3>3. Better(o.q, o.enc, best)
        BY <2>5, <2>6, <3>1, <3>2, BetterTransitive
    <3> QED
        BY <3>3 DEF BestOfSeen
  <2>7. ASSUME NEW o \in Options', o.enc \in Offers(t), o.q = t.q
        PROVE  ~ Better(o.q, o.enc, best')
    <3>1. o.enc = best'.enc /\ o.q = best'.q
        BY <1>3, <2>1, <2>7
    <3> QED
        BY <2>5, <3>1, BetterIrreflexive
  <2>8. \A o \in Options' : ~ Better(o.q, o.enc, best')
      BY <1>4, <2>6, <2>7
  <2>9. BestOfSeen' = (best' \in Options' /\ \A o \in Options' : ~ Better(o.q, o.enc, best'))
      BY DEF BestOfSeen, Better
  <2> QED
      BY <2>3, <2>4, <2>8, <2>9
<1>6. CASE best' = best /\ ~ \E e \in Offers(t) : Better(t.q, e, best)
  <2>1. TypeOK'
      BY <1>1, <1>6 DEF TypeOK
  <2>2. \A o \in Options' : ~ Better(o.q, o.enc, best')
      BY <1>4, <1>6 DEF BestOfSeen
  <2>3. BestOfSeen' = (best' \in Options' /\ \A o \in Options' : ~ Better(o.q, o.enc, best'))
      BY DEF BestOfSeen, Better
  <2> QED
      BY <1>4, <1>6, <2>1, <2>2, <2>3 DEF BestOfSeen
<1> QED
    BY <1>5, <1>6 DEF ReadToken

(* The encoding is always one the build has, and the best one of those the *)
(* tokens read so far leave.                                               *)
LEMMA BestInvariance == Spec => [](TypeOK /\ BestOfSeen)
<1>1. TypeOK /\ BestOfSeen /\ [Next]_vars => (TypeOK /\ BestOfSeen)'
  <2> SUFFICES ASSUME TypeOK, BestOfSeen, [Next]_vars PROVE (TypeOK /\ BestOfSeen)'
      OBVIOUS
  <2>1. CASE Next
      BY <2>1, ReadTokenBest DEF Next
  <2>2. CASE UNCHANGED vars
    <3>1. embedded' = embedded /\ seen' = seen /\ best' = best
        BY <2>2 DEF vars
    <3>2. Supported' = Supported
        BY <3>1 DEF Supported
    <3>3. \A u : Offers(u)' = Offers(u)
        BY <3>1, <3>2 DEF Offers, Wildcard
    <3>4. Options' = Options
        BY <3>1, <3>2, <3>3 DEF Options
    <3>5. TypeOK'
        BY <3>1, <3>2 DEF TypeOK
    <3>6. BestOfSeen' = (best' \in Options' /\ \A o \in Options' : ~ Better(o.q, o.enc, best'))
        BY DEF BestOfSeen, Better
    <3> QED
        BY <3>1, <3>4, <3>5, <3>6 DEF BestOfSeen
  <2> QED
      BY <2>1, <2>2
<1> QED
    BY InitBest, <1>1, PTL DEF Spec

(* What is sent is embedded, or not compressed, for every header.          *)
THEOREM EncodingTypes == Spec => []TypeOK
    BY BestInvariance, PTL

(* The pass finds the best option, for every header.                       *)
THEOREM BestIsBest == Spec => []BestOfSeen
    BY BestInvariance, PTL

(* There is only one best option, so the order of the tokens is irrelevant.*)
THEOREM BestIsUnique ==
    ASSUME TypeOK, BestOfSeen,
           NEW o \in Options, \A p \in Options : ~ Better(p.q, p.enc, o)
    PROVE  o = best
<1>1. o \in [enc : Encodings, q : Int] /\ best \in [enc : Encodings, q : Int]
    BY OptionTypes
<1>2. ~ Better(best.q, best.enc, o) /\ ~ Better(o.q, o.enc, best)
    BY DEF BestOfSeen
<1>3. /\ Pref[o.enc] \in 0 .. 3 /\ Pref[best.enc] \in 0 .. 3
      /\ o.q \in Int /\ best.q \in Int /\ o.q # NaN /\ best.q # NaN
    BY <1>1, PrefFacts, QualityAssumption
<1>4. o.q = best.q /\ Pref[o.enc] = Pref[best.enc]
    BY <1>2, <1>3 DEF Better
<1>5. o.enc = best.enc
    BY <1>1, <1>4, PrefFacts
<1> QED
    BY <1>1, <1>4, <1>5

=============================================================================
