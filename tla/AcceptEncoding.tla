--------------------------- MODULE AcceptEncoding ---------------------------
(***************************************************************************)
(* parse_accept_encoding (rust-server/src/response.rs): one pass over the  *)
(* tokens of an Accept-Encoding header that keeps the best encoding so     *)
(* far.  Which encodings there are is a choice of the build.               *)
(*                                                                         *)
(* A quality is a rank: only the order of the f32 values matters, and      *)
(* whether they are equal.  "q=nan" parses, to a value that is neither     *)
(* above nor below nor equal to any other.  A missing or malformed quality *)
(* is the one of 1.0; "x-gzip" is "gzip" by another name.                  *)
(***************************************************************************)
EXTENDS Integers, FiniteSets

CONSTANTS
    Qualities,  \* ranks of the qualities clients send
    Baseline,   \* the rank of 0.0001, the identity baseline
    Zero,       \* the rank of 0
    NaN,        \* not a number
    MaxTokens   \* different tokens of a header at most

ASSUME QualityAssumption ==
    /\ Qualities \subseteq Int
    /\ Baseline \in Int /\ Zero \in Int
    /\ Zero < Baseline
    /\ NaN \notin Int
    /\ MaxTokens \in Nat

Compressions == {"br", "zstd", "gzip"}
Encodings == Compressions \cup {"identity"}

(* "other" stands for every name the server does not know.                 *)
Token == [name : Encodings \cup {"*", "other"}, q : Qualities \cup {NaN}]

(* The preference among encodings of equal quality.                        *)
Pref == [e \in Encodings |->
            CASE e = "br" -> 3 [] e = "zstd" -> 2
              [] e = "gzip" -> 1 [] e = "identity" -> 0]

VARIABLES
    embedded,  \* the compressions the build embeds: EMBED_BROTLI, ...
    seen,      \* the tokens read so far
    best       \* best_encoding (with its preference) and best_q

vars == <<embedded, seen, best>>

-----------------------------------------------------------------------------
Supported == embedded \cup {"identity"}

NotBest == [enc |-> "identity", q |-> Baseline]

Init ==
    /\ embedded \in SUBSET Compressions
    /\ seen = {}
    /\ best = NotBest

(* Mutant: the wildcard does not look at the build's flags.                *)
WildcardAny == "br"

(* What "*" stands for: the first choice of what is embedded.              *)
Wildcard ==
    CHOOSE e \in Supported : \A f \in Supported : Pref[e] >= Pref[f]

(* The encodings a token is about: one or none.                            *)
Offers(t) ==
    IF t.name = "*" THEN {Wildcard} ELSE {t.name} \cap Supported

(* Mutant: the last one wins a tie.                                        *)
BetterOrEqual(q, e, b) == q # NaN /\ q >= b.q

(* Does encoding e at quality q replace b?                                 *)
Better(q, e, b) ==
    /\ q # NaN
    /\ \/ q > b.q
       \/ q = b.q /\ Pref[e] > Pref[b.enc]

ReadToken(t) ==
    /\ Cardinality(seen) < MaxTokens
    /\ seen' = seen \cup {t}
    /\ \/ \E e \in Offers(t) :
             /\ Better(t.q, e, best)
             /\ best' = [enc |-> e, q |-> t.q]
       \/ /\ ~ \E e \in Offers(t) : Better(t.q, e, best)
          /\ UNCHANGED best
    /\ UNCHANGED embedded

Next == \E t \in Token : ReadToken(t)

Spec == Init /\ [][Next]_vars

-----------------------------------------------------------------------------
(* Properties.                                                             *)

(* Every variable has its type; the encoding is one the build has.         *)
TypeOK ==
    /\ embedded \subseteq Compressions
    /\ seen \subseteq Token
    /\ best \in [enc : Supported, q : Qualities \cup {Baseline}]

(* The choices the tokens read so far leave.                               *)
Options ==
    {NotBest} \cup
    {o \in [enc : Supported, q : Qualities] :
        \E t \in seen : o.enc \in Offers(t) /\ o.q = t.q}

(* The pass finds the best of them: what the server sends depends on which *)
(* tokens a header has and not on their order.                             *)
BestOfSeen ==
    /\ best \in Options
    /\ \A o \in Options : ~ Better(o.q, o.enc, best)

=============================================================================
