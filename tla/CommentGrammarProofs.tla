-------------------------- MODULE CommentGrammarProofs -------------------------
(***************************************************************************)
(* Theorems about CommentGrammar, for every comment.                        *)
(***************************************************************************)
EXTENDS CommentGrammar, FiniteSetTheorems, WellFoundedInduction, TLAPS

FoldedKinds == {"annotation", "keyword", "rawblock", "rawvalue", "yaml", "blank", "text", "dropped"}
FoldedTokens ==
    [kind : FoldedKinds, head : Nat, next : Nat, body : SUBSET Nat, truncated : BOOLEAN]

\* A folded token reaches no further than the tokens do, and not past its end.
IsBounded(f) ==
    /\ f.head \in DOMAIN tokens /\ f.next \in f.head + 1 .. Len(tokens) + 1
    /\ \A j \in DOMAIN tokens :
          f.kind # "yaml" /\ f.head < j /\ j < f.next =>
             /\ tokens[j] # "annotation"
             /\ f.kind \in {"rawblock", "rawvalue"} /\ tokens[j] = "keyword" =>
                    ~EndsBody(f.head, j)

BodyInv ==
    /\ tokens \in Seq(TokenKind)
    /\ folded \in Seq(FoldedTokens)
    /\ phase = "classify" => folded = <<>>
    /\ \A i \in DOMAIN folded : IsBounded(folded[i])

-----------------------------------------------------------------------------
(* Whatever ends the body of i ends it: nothing that does is before n.      *)
LEMMA EndIsFirst ==
    ASSUME tokens \in Seq(TokenKind), NEW i \in DOMAIN tokens,
           NEW n \in i + 1 .. Len(tokens) + 1, IsEnd(i, n),
           NEW j \in DOMAIN tokens, i < j, j < n, tokens[i] # "fence"
    PROVE  /\ tokens[j] # "annotation"
           /\ FoldedKind(i) \in {"rawblock", "rawvalue"} /\ tokens[j] = "keyword" =>
                  ~EndsBody(i, j)
  <1>0. j \in i + 1 .. n - 1 /\ tokens[j] \in TokenKind
    OBVIOUS
  <1>1. j \notin Ends(i)
    BY <1>0 DEF IsEnd
  <1>2. CASE tokens[i] = "keyword" /\ HasBody(i)
    <2>1. j \notin KeywordEnds(i)
      BY <1>1, <1>2 DEF Ends
    <2> QED BY <2>1 DEF KeywordEnds, Of
  <1>3. CASE tokens[i] = "annotation"
    <2>1. tokens[j] \in Described(i)
      BY <1>0, <1>1, <1>3 DEF Ends, Of
    <2>2. tokens[j] \in {"raw", "text"}
      BY <2>1 DEF Described
    <2> QED BY <2>2
  <1>4. CASE ~(tokens[i] = "keyword" /\ HasBody(i)) /\ tokens[i] # "annotation"
    BY <1>0, <1>1, <1>4 DEF Ends, Of
  <1> QED BY <1>2, <1>3, <1>4

LEMMA AccumulatedIsBounded ==
    ASSUME tokens \in Seq(TokenKind), NEW i \in DOMAIN tokens,
           NEW n \in i + 1 .. Len(tokens) + 1, IsEnd(i, n)
    PROVE  Accumulated(i, n) \in FoldedTokens /\ IsBounded(Accumulated(i, n))
  <1>0. Len(tokens) \in Nat /\ DOMAIN tokens = 1 .. Len(tokens) /\ tokens[i] \in TokenKind
    OBVIOUS
  <1>1. FoldedKind(i) \in FoldedKinds
    BY DEF FoldedKind, FoldedKinds
  <1>2. Accumulated(i, n).next \in i + 1 .. Len(tokens) + 1
    BY <1>0 DEF Accumulated
  <1>3. Of(BodyKinds(i)) \subseteq Nat
    BY <1>0 DEF Of
  <1>4. Accumulated(i, n) \in FoldedTokens
    BY <1>0, <1>1, <1>2, <1>3 DEF Accumulated, FoldedTokens
  <1>5. FoldedKind(i) # "yaml" => tokens[i] # "fence" /\ Accumulated(i, n).next = n
    BY DEF FoldedKind, Accumulated
  <1>6. /\ Accumulated(i, n).head = i /\ Accumulated(i, n).kind = FoldedKind(i)
    BY DEF Accumulated
  <1>7. ASSUME NEW j \in DOMAIN tokens, FoldedKind(i) # "yaml", i < j, j < Accumulated(i, n).next
        PROVE  /\ tokens[j] # "annotation"
               /\ FoldedKind(i) \in {"rawblock", "rawvalue"} /\ tokens[j] = "keyword" =>
                      ~EndsBody(i, j)
    BY <1>5, <1>7, EndIsFirst
  <1> QED BY <1>2, <1>4, <1>6, <1>7 DEF IsBounded

LEMMA BodyInvInit == Init => BodyInv
  BY DEF Init, BodyInv, FoldedTokens, FoldedKinds

LEMMA BodyInvNext == BodyInv /\ [Next]_vars => BodyInv'
  <1> SUFFICES ASSUME BodyInv, [Next]_vars PROVE BodyInv'
    OBVIOUS
  <1>1. CASE ClassifyLine
    <2>1. LexLine(text[Len(tokens) + 1], inFence /\ ~inLiteralDesc) \in TokenKind
      BY DEF LexLine, TokenKind
    <2>2. tokens' \in Seq(TokenKind)
      <3>1. PICK k \in TokenKind : tokens' = Append(tokens, k)
        BY <1>1, <2>1 DEF ClassifyLine, TokenKind
      <3> QED BY <3>1 DEF BodyInv
    <2>3. folded = <<>> /\ folded' = <<>>
      BY <1>1 DEF ClassifyLine, BodyInv
    <2> QED BY <2>2, <2>3 DEF BodyInv
  <1>2. CASE AccumulateBody
    <2>1. PICK n \in Cursor + 1 .. Len(tokens) + 1 :
            IsEnd(Cursor, n) /\ folded' = Append(folded, Accumulated(Cursor, n))
      BY <1>2 DEF AccumulateBody
    <2>2. Cursor \in DOMAIN tokens
      <3>1. Len(tokens) \in Nat /\ DOMAIN tokens = 1 .. Len(tokens) /\ Cursor <= Len(tokens)
        BY <1>2 DEF AccumulateBody, BodyInv
      <3>2. folded # <<>> => Len(folded) \in DOMAIN folded /\ folded[Len(folded)].head \in DOMAIN tokens
                             /\ Cursor > folded[Len(folded)].head /\ Cursor \in Nat
        BY <3>1 DEF BodyInv, IsBounded, Cursor
      <3> QED BY <3>1, <3>2 DEF Cursor
    <2>3. Accumulated(Cursor, n) \in FoldedTokens /\ IsBounded(Accumulated(Cursor, n))
      BY <2>1, <2>2, AccumulatedIsBounded DEF BodyInv
    <2>4. folded' \in Seq(FoldedTokens)
      BY <2>1, <2>3 DEF BodyInv
    <2>5. \A i \in DOMAIN folded' : IsBounded(folded'[i])
      <3>1. \A i \in DOMAIN folded' : \/ folded'[i] = Accumulated(Cursor, n)
                                      \/ (i \in DOMAIN folded /\ folded'[i] = folded[i])
        BY <2>1 DEF BodyInv
      <3> QED BY <3>1, <2>3 DEF BodyInv
    <2>6. UNCHANGED <<input, tokens, phase>> /\ phase = "accumulate"
      BY <1>2 DEF AccumulateBody
    <2>7. \A f : IsBounded(f) => IsBounded(f)'
      BY <2>6 DEF IsBounded, EndsBody, text, Preprocess
    <2> QED BY <2>4, <2>5, <2>6, <2>7 DEF BodyInv
  <1>3. CASE UNCHANGED <<input, tokens, folded>> /\ (phase' = "classify" => phase = "classify")
    <2>1. \A f : IsBounded(f) => IsBounded(f)'
      BY <1>3 DEF IsBounded, EndsBody, text, Preprocess
    <2> QED BY <1>3, <2>1 DEF BodyInv
  <1>4. CASE ClassifiedLines \/ AccumulatedBodies \/ ClassifyProse \/ ParseBlock
    BY <1>3, <1>4 DEF ClassifiedLines, AccumulatedBodies, ClassifyProse, ParseBlock
  <1>5. CASE UNCHANGED vars
    BY <1>3, <1>5 DEF vars
  <1> QED BY <1>1, <1>2, <1>4, <1>5 DEF Next

(* No body reaches past an annotation or an unnested sibling, for every comment. *)
THEOREM BodiesEnd == Spec => []BodiesEndAtSiblings
  <1>1. BodyInv => BodiesEndAtSiblings
    BY DEF BodyInv, IsBounded, BodiesEndAtSiblings
  <1> QED BY <1>1, BodyInvInit, BodyInvNext, PTL DEF Spec

-----------------------------------------------------------------------------
(* Verbatim text.                                                           *)

\* The fences before line n, and the literal description that is open after line j.
Fences(n) == {f \in Of({"fence"}) : f < n}
Odd(n) == Cardinality(Fences(n)) % 2 = 1
Under(a, j) ==
    /\ a \in Of({"annotation"}) /\ a <= j /\ IsLiteralDescMarker(text[a])
    /\ \A b \in a + 1 .. j : LexLine(text[b], FALSE) # "annotation"

Phases == {"classify", "accumulate", "prose", "parse", "done"}

\* What the first pass knows of the lines it has seen.
Classified(j) ==
    /\ tokens[j] = "annotation" => LexLine(text[j], FALSE) = "annotation"
    /\ tokens[j] = "fence" => \A a \in DOMAIN tokens : a < j => ~Under(a, j)
    /\ tokens[j] = "raw" <=> tokens[j] # "fence" /\ (Odd(j) \/ \E a \in DOMAIN tokens : a < j /\ Under(a, j))

LexInv ==
    /\ tokens \in Seq(TokenKind) /\ text \in Seq(Line) /\ phase \in Phases
    /\ inFence \in BOOLEAN /\ inLiteralDesc \in BOOLEAN
    /\ Len(tokens) <= Len(text)
    /\ phase # "classify" => Len(tokens) = Len(text)
    /\ ~(inFence /\ inLiteralDesc)
    /\ inFence <=> Odd(Len(tokens) + 1)
    /\ inLiteralDesc <=> \E a \in DOMAIN tokens : Under(a, Len(tokens))
    /\ \A j \in DOMAIN tokens : Classified(j)

LEMMA FencesAreFinite ==
    ASSUME tokens \in Seq(TokenKind), NEW n
    PROVE  IsFiniteSet(Fences(n)) /\ Cardinality(Fences(n)) \in Nat
  <1>1. Fences(n) \subseteq 1 .. Len(tokens) /\ Len(tokens) \in Int /\ 1 \in Int
    BY DEF Fences, Of
  <1>2. IsFiniteSet(1 .. Len(tokens))
    BY <1>1, FS_Interval
  <1>3. IsFiniteSet(Fences(n))
    BY <1>1, <1>2, FS_Subset
  <1> QED BY <1>3, FS_CardinalityType

(* A fence turns the parity, another line keeps it.                         *)
LEMMA ParityStep ==
    ASSUME tokens \in Seq(TokenKind), NEW n \in DOMAIN tokens
    PROVE  Odd(n + 1) <=> (Odd(n) # (tokens[n] = "fence"))
  <1>0. n \in Nat /\ DOMAIN tokens = 1 .. Len(tokens) /\ Len(tokens) \in Nat
    OBVIOUS
  <1>1. CASE tokens[n] = "fence"
    <2>1. Fences(n + 1) = Fences(n) \union {n} /\ n \notin Fences(n)
      BY <1>0, <1>1 DEF Fences, Of
    <2>2. Cardinality(Fences(n + 1)) = Cardinality(Fences(n)) + 1
      BY <2>1, FencesAreFinite, FS_AddElement
    <2>3. Cardinality(Fences(n)) \in Nat
      BY FencesAreFinite
    <2> QED BY <1>1, <2>2, <2>3 DEF Odd
  <1>2. CASE tokens[n] # "fence"
    <2>1. Fences(n + 1) = Fences(n)
      BY <1>0, <1>2 DEF Fences, Of
    <2> QED BY <1>2, <2>1 DEF Odd
  <1> QED BY <1>1, <1>2

LEMMA TextIsLines == Init => text \in Seq(Line)
  <1> SUFFICES ASSUME Init PROVE text \in Seq(Line)
    OBVIOUS
  <1>1. input.lines \in Seq(Line) /\ BlankLine \in Line
    BY CommentAssumption DEF Init, IsInput
  <1> QED BY <1>1 DEF text, Preprocess

LEMMA LexInvInit == Init => LexInv
  <1> SUFFICES ASSUME Init PROVE LexInv
    OBVIOUS
  <1>1. tokens = <<>> /\ tokens \in Seq(TokenKind) /\ Len(tokens) = 0 /\ DOMAIN tokens = {}
    BY DEF Init
  <1>2. Fences(Len(tokens) + 1) = {}
    BY <1>1 DEF Fences, Of
  <1>3. ~Odd(Len(tokens) + 1)
    BY <1>2, FS_EmptySet DEF Odd
  <1>4. text \in Seq(Line)
    BY TextIsLines
  <1>5. phase \in Phases /\ phase = "classify" /\ inFence = FALSE /\ inLiteralDesc = FALSE
    BY DEF Init, Phases
  <1>6. Len(tokens) <= Len(text)
    BY <1>1, <1>4
  <1>7. /\ ~\E a \in DOMAIN tokens : Under(a, Len(tokens))
        /\ \A j \in DOMAIN tokens : Classified(j)
    BY <1>1
  <1> QED BY <1>1, <1>3, <1>4, <1>5, <1>6, <1>7, Zenon DEF LexInv

(* The line read next: what was told of the lines before stays told.        *)
LEMMA ClassifyLineKeeps ==
    ASSUME LexInv, ClassifyLine
    PROVE  LexInv'
  <1> PICK n \in Nat : n = Len(tokens) + 1
    BY DEF LexInv
  <1> PICK l : l = text[n]
    OBVIOUS
  <1> PICK kind : kind = LexLine(l, inFence /\ ~inLiteralDesc)
    OBVIOUS
  <1> PICK t : t = IF inLiteralDesc /\ kind # "annotation" THEN "raw" ELSE kind
    OBVIOUS
  <1>1. /\ tokens' = Append(tokens, t) /\ n \in 1 .. Len(text) /\ n # 0
        /\ inFence' = (inFence # (kind = "fence" /\ ~inLiteralDesc))
        /\ inLiteralDesc' = IF kind = "annotation" THEN IsLiteralDescMarker(l) ELSE inLiteralDesc
        /\ phase = "classify" /\ phase' = phase /\ text' = text
    BY DEF ClassifyLine, LexInv, text, Preprocess
  <1>2. kind \in TokenKind /\ t \in TokenKind
    BY DEF LexLine, TokenKind
  <1>3. /\ tokens' \in Seq(TokenKind) /\ Len(tokens') = n /\ DOMAIN tokens' = 1 .. n /\ tokens'[n] = t
        /\ DOMAIN tokens = 1 .. n - 1 /\ \A j \in 1 .. n - 1 : tokens'[j] = tokens[j]
        /\ tokens \in Seq(TokenKind) /\ text \in Seq(Line)
    BY <1>1, <1>2 DEF LexInv
  <1>4. \A j \in 1 .. n : Fences(j)' = Fences(j)
    BY <1>3 DEF Fences, Of
  <1>5. \A j \in 1 .. n : Odd(j)' <=> Odd(j)
    BY <1>4 DEF Odd
  <1>6. Odd(n + 1)' <=> (Odd(n) # (t = "fence"))
    <2>0. IsFiniteSet(Fences(n)) /\ Cardinality(Fences(n)) \in Nat /\ n \notin Fences(n)
      <3>1. n \notin Fences(n)
        BY DEF Fences
      <3> QED BY <1>3, <3>1, FencesAreFinite
    <2>1. CASE t = "fence"
      <3>1. Fences(n + 1)' = Fences(n) \union {n}
        BY <1>3, <2>1 DEF Fences, Of
      <3>2. Cardinality(Fences(n) \union {n}) = Cardinality(Fences(n)) + 1
        BY <2>0, FS_AddElement
      <3>3. Odd(n + 1)' <=> (Cardinality(Fences(n)) + 1) % 2 = 1
        BY <3>1, <3>2 DEF Odd
      <3> QED BY <2>0, <2>1, <3>3 DEF Odd
    <2>2. CASE t # "fence"
      <3>1. Fences(n + 1)' = Fences(n)
        BY <1>3, <2>2 DEF Fences, Of
      <3> QED BY <2>2, <3>1 DEF Odd
    <2> QED BY <2>1, <2>2
  <1>7. ASSUME NEW a \in 1 .. n - 1, NEW j \in 1 .. n - 1
        PROVE  Under(a, j)' <=> Under(a, j)
    <2>1. a \in Of({"annotation"})' <=> a \in Of({"annotation"})
      BY <1>3 DEF Of
    <2> QED BY <1>1, <2>1, Zenon DEF Under
  <1>8. ASSUME NEW a \in 1 .. n - 1
        PROVE  Under(a, n)' <=> Under(a, n - 1) /\ LexLine(l, FALSE) # "annotation"
    <2>1. a + 1 .. n = (a + 1 .. n - 1) \union {n} /\ a <= n /\ a <= n - 1
      OBVIOUS
    <2>2. a \in Of({"annotation"})' <=> a \in Of({"annotation"})
      BY <1>3 DEF Of
    <2>3. (\A b \in a + 1 .. n : LexLine(text[b], FALSE) # "annotation") <=>
             (\A b \in a + 1 .. n - 1 : LexLine(text[b], FALSE) # "annotation") /\ LexLine(l, FALSE) # "annotation"
      BY <2>1, Zenon
    <2>4. Under(a, n)' <=> /\ a \in Of({"annotation"}) /\ a <= n /\ IsLiteralDescMarker(text[a])
                           /\ \A b \in a + 1 .. n : LexLine(text[b], FALSE) # "annotation"
      BY <1>1, <2>2, Zenon DEF Under
    <2>5. Under(a, n - 1) <=> /\ a \in Of({"annotation"}) /\ a <= n - 1 /\ IsLiteralDescMarker(text[a])
                              /\ \A b \in a + 1 .. n - 1 : LexLine(text[b], FALSE) # "annotation"
      BY DEF Under
    <2> QED BY <2>1, <2>3, <2>4, <2>5
  <1>9. Under(n, n)' <=> t = "annotation" /\ IsLiteralDescMarker(l)
    <2>1. (n \in Of({"annotation"}))' <=> t = "annotation"
      BY <1>1, <1>3 DEF Of
    <2>2. n + 1 .. n = {} /\ n <= n
      OBVIOUS
    <2>3. text'[n] = l
      BY <1>1
    <2> QED BY <2>1, <2>2, <2>3, Zenon DEF Under
  <1>10. /\ ~(inFence /\ inLiteralDesc) /\ inFence \in BOOLEAN /\ inLiteralDesc \in BOOLEAN
         /\ (inFence <=> Odd(n))
         /\ (inLiteralDesc <=> \E a \in 1 .. n - 1 : Under(a, n - 1))
    BY <1>3 DEF LexInv
  <1>11. /\ inFence' \in BOOLEAN /\ inLiteralDesc' \in BOOLEAN
         /\ ~(inFence' /\ inLiteralDesc')
         /\ (t = "annotation" => LexLine(l, FALSE) = "annotation")
         /\ (t = "fence" => ~inLiteralDesc)
         /\ (t = "raw" <=> t # "fence" /\ (inFence \/ (inLiteralDesc /\ LexLine(l, FALSE) # "annotation")))
         /\ (inFence' <=> (inFence # (t = "fence")))
         /\ (inLiteralDesc' <=> \/ inLiteralDesc /\ LexLine(l, FALSE) # "annotation"
                                \/ t = "annotation" /\ IsLiteralDescMarker(l))
    <2> DEFINE plain == LexLine(l, FALSE)
               marker == IsLiteralDescMarker(l)
    <2>1. marker \in BOOLEAN /\ plain # "raw"
      BY DEF LexLine, IsLiteralDescMarker
    <2>2. CASE inFence
      <3>1. kind \in {"fence", "raw"} /\ ~inLiteralDesc /\ t = kind
        BY <1>10, <2>2 DEF LexLine
      <3> QED BY <1>1, <1>10, <2>1, <2>2, <3>1
    <2>3. CASE ~inFence
      <3>1. kind = plain
        BY <1>10, <2>3
      <3> HIDE DEF plain, marker
      <3>2. /\ inFence' = (kind = "fence" /\ ~inLiteralDesc)
            /\ inLiteralDesc' = IF kind = "annotation" THEN marker ELSE inLiteralDesc
        <4>1. inFence = FALSE
          BY <1>10, <2>3
        <4>2. (FALSE # (kind = "fence" /\ ~inLiteralDesc)) = (kind = "fence" /\ ~inLiteralDesc)
          OBVIOUS
        <4> QED BY <1>1, <4>1, <4>2, Zenon DEF marker
      <3>3. t = IF inLiteralDesc /\ kind # "annotation" THEN "raw" ELSE kind
        OBVIOUS
      <3> QED BY <1>10, <2>1, <2>3, <3>1, <3>2, <3>3 DEF plain, marker
    <2> QED BY <2>2, <2>3
  <1>12. ASSUME NEW j \in 1 .. n - 1 PROVE Classified(j)'
    <2>1. Classified(j)
      BY <1>3 DEF LexInv
    <2>2. Odd(j)' <=> Odd(j)
      BY <1>5
    <2>3. tokens'[j] = tokens[j] /\ text' = text
      BY <1>1, <1>3
    <2>4. \A a \in 1 .. n : a < j => (Under(a, j)' <=> Under(a, j)) /\ a \in 1 .. n - 1
      BY <1>7
    <2>5. (\E a \in DOMAIN tokens' : a < j /\ Under(a, j)') <=> \E a \in DOMAIN tokens : a < j /\ Under(a, j)
      BY <1>3, <2>4
    <2>6. (\A a \in DOMAIN tokens' : a < j => ~Under(a, j)') <=> \A a \in DOMAIN tokens : a < j => ~Under(a, j)
      BY <1>3, <2>4
    <2> QED BY <2>1, <2>2, <2>3, <2>5, <2>6, Zenon DEF Classified
  <1>13. \A a \in 1 .. n - 1 : (Under(a, n)' => inLiteralDesc)
    BY <1>8, <1>10
  <1>14. (\E a \in 1 .. n - 1 : Under(a, n)') <=> inLiteralDesc /\ LexLine(l, FALSE) # "annotation"
    BY <1>8, <1>10
  <1>15. Classified(n)'
    <2>1. \A a : a \in DOMAIN tokens' /\ a < n <=> a \in 1 .. n - 1
      BY <1>3
    <2>2. tokens'[n] = t /\ text'[n] = l /\ (Odd(n)' <=> inFence)
      BY <1>1, <1>3, <1>5, <1>10
    <2>3. (\E a \in DOMAIN tokens' : a < n /\ Under(a, n)') <=> inLiteralDesc /\ LexLine(l, FALSE) # "annotation"
      BY <1>14, <2>1
    <2>4. t = "fence" => \A a \in DOMAIN tokens' : a < n => ~Under(a, n)'
      BY <1>11, <1>13, <2>1
    <2> QED BY <1>11, <2>2, <2>3, <2>4, Zenon DEF Classified
  <1>16. \A j \in 1 .. n : Classified(j)'
    <2>1. \A j \in 1 .. n : j \in 1 .. n - 1 \/ j = n
      OBVIOUS
    <2> QED BY <1>12, <1>15, <2>1
  <1>17. inLiteralDesc' <=> \E a \in 1 .. n : Under(a, n)'
    <2>1. 1 .. n = (1 .. n - 1) \union {n}
      BY <1>1
    <2> QED BY <1>9, <1>11, <1>14, <2>1
  <1>18. inFence' <=> Odd(n + 1)'
    <2>1. inFence' <=> (inFence # (t = "fence"))
      BY <1>11
    <2>2. inFence <=> Odd(n)
      BY <1>10
    <2>3. Odd(n) \in BOOLEAN
      BY DEF Odd
    <2>4. inFence = Odd(n)
      BY <1>10, <2>2, <2>3
    <2> QED BY <1>6, <2>1, <2>4
  <1>19. Len(tokens)' = n /\ (Odd(Len(tokens) + 1)' <=> Odd(n + 1)') /\ \A a : (Under(a, Len(tokens))' <=> Under(a, n)')
    BY <1>3 DEF Odd, Fences, Under
  <1> QED BY <1>1, <1>3, <1>11, <1>16, <1>17, <1>18, <1>19 DEF LexInv, Phases

LEMMA LexInvNext == LexInv /\ [Next]_vars => LexInv'
  <1> SUFFICES ASSUME LexInv, [Next]_vars PROVE LexInv'
    OBVIOUS
  <1>1. CASE ClassifyLine
    BY <1>1, ClassifyLineKeeps
  <1>2. CASE /\ UNCHANGED <<input, inFence, inLiteralDesc, tokens>> /\ phase' \in Phases
             /\ phase' # "classify" => Len(tokens) = Len(text)
    <2>1. text' = text /\ tokens' = tokens
      BY <1>2 DEF text, Preprocess
    <2>2. \A a, j : Under(a, j)' <=> Under(a, j)
      BY <2>1 DEF Under, Of
    <2>3. \A j : Odd(j)' <=> Odd(j)
      BY <2>1 DEF Odd, Fences, Of
    <2>4. \A j \in DOMAIN tokens : Classified(j)'
      BY <2>1, <2>2, <2>3 DEF LexInv, Classified
    <2>5. (Odd(Len(tokens) + 1))' <=> Odd(Len(tokens) + 1)
      BY <2>1 DEF Odd, Fences, Of
    <2>6. \A a : (Under(a, Len(tokens)))' <=> Under(a, Len(tokens))
      BY <2>1 DEF Under, Of
    <2> QED BY <1>2, <2>1, <2>4, <2>5, <2>6 DEF LexInv
  <1>3. CASE ClassifiedLines
    BY <1>2, <1>3 DEF ClassifiedLines, Phases
  <1>4. CASE AccumulateBody \/ AccumulatedBodies \/ ClassifyProse \/ ParseBlock
    BY <1>2, <1>4 DEF AccumulateBody, AccumulatedBodies, ClassifyProse, ParseBlock, Phases, LexInv
  <1>5. CASE UNCHANGED vars
    BY <1>2, <1>5 DEF vars, LexInv
  <1> QED BY <1>1, <1>3, <1>4, <1>5 DEF Next

LEMMA LexInvVerbatim == LexInv => VerbatimIsDelimited
  <1> SUFFICES ASSUME LexInv PROVE VerbatimIsDelimited
    OBVIOUS
  <1>1. ASSUME NEW j \in DOMAIN tokens
        PROVE  (\E a \in DOMAIN tokens : a < j /\ Under(a, j)) <=>
               \E a \in Of({"annotation"}) :
                  /\ a < j /\ IsLiteralDescMarker(text[a])
                  /\ \A b \in a + 1 .. j : LexLine(text[b], FALSE) # "annotation"
    <2>1. tokens \in Seq(TokenKind)
      BY DEF LexInv
    <2>2. Of({"annotation"}) \subseteq DOMAIN tokens /\ DOMAIN tokens \subseteq Nat
      BY <2>1 DEF Of
    <2>3. \A a \in DOMAIN tokens : a < j => a <= j
      BY <2>1
    <2> QED BY <2>2, <2>3, Zenon DEF Under
  <1>2. \A j : Odd(j) <=> Cardinality({f \in Of({"fence"}) : f < j}) % 2 = 1
    BY DEF Odd, Fences
  <1>3. \A j \in DOMAIN tokens : Classified(j)
    BY DEF LexInv
  <1> QED BY <1>1, <1>2, <1>3, Zenon DEF VerbatimIsDelimited, Classified

-----------------------------------------------------------------------------
(* Folded tokens.                                                           *)

\* Text taken as it stands begins after a fence that opens or a literal description.
LEMMA RawAfter ==
    ASSUME LexInv, NEW j \in DOMAIN tokens, j + 1 \in DOMAIN tokens, tokens[j] # "raw", tokens[j + 1] = "raw"
    PROVE  \/ tokens[j] = "fence" /\ ~Odd(j)
           \/ tokens[j] = "annotation" /\ IsLiteralDescMarker(text[j])
  <1>0. tokens \in Seq(TokenKind) /\ Classified(j) /\ Classified(j + 1) /\ j \in Nat
    BY DEF LexInv
  <1>1. CASE Odd(j + 1)
    <2>1. Odd(j) # (tokens[j] = "fence")
      BY <1>0, <1>1, ParityStep
    <2>2. tokens[j] # "fence" => ~Odd(j)
      BY <1>0 DEF Classified
    <2>3. Odd(j) \in BOOLEAN
      BY DEF Odd
    <2> QED BY <2>1, <2>2, <2>3
  <1>2. CASE ~Odd(j + 1)
    <2>1. PICK a \in DOMAIN tokens : a < j + 1 /\ Under(a, j + 1)
      BY <1>0, <1>2 DEF Classified
    <2>2. a \in Nat /\ (a = j \/ a < j)
      BY <1>0, <2>1
    <2>3. CASE a = j
      BY <2>1, <2>3 DEF Under, Of
    <2>4. CASE a < j
      <3>1. a + 1 .. j \subseteq a + 1 .. j + 1 /\ a <= j
        BY <1>0, <2>2, <2>4
      <3>2. Under(a, j)
        BY <2>1, <3>1, Zenon DEF Under
      <3> QED BY <1>0, <2>4, <3>2 DEF Classified
    <2> QED BY <2>2, <2>3, <2>4
  <1> QED BY <1>1, <1>2

LEMMA FirstIsOpen ==
    ASSUME LexInv, 1 \in DOMAIN tokens
    PROVE  ~Odd(1) /\ tokens[1] # "raw"
  <1>1. tokens \in Seq(TokenKind) /\ Classified(1)
    BY DEF LexInv
  <1>2. Fences(1) = {}
    BY <1>1 DEF Fences, Of
  <1>3. ~Odd(1)
    BY <1>2, FS_EmptySet DEF Odd
  <1>4. \A a \in DOMAIN tokens : ~(a < 1)
    BY <1>1
  <1> QED BY <1>1, <1>3, <1>4 DEF Classified

LEMMA SameParity ==
    ASSUME tokens \in Seq(TokenKind), NEW i \in Nat, NEW n \in Nat, i <= n, n <= Len(tokens) + 1,
           \A j \in i .. n - 1 : j \in DOMAIN tokens => tokens[j] # "fence"
    PROVE  Odd(n) <=> Odd(i)
  <1>1. Fences(n) = Fences(i)
    BY DEF Fences, Of
  <1> QED BY <1>1 DEF Odd

\* The token after a folded one is outside verbatim text, as the folded one is.
LEMMA NextIsOpen ==
    ASSUME LexInv, NEW i \in DOMAIN tokens, ~Odd(i), tokens[i] # "raw",
           NEW n \in i + 1 .. Len(tokens) + 1, IsEnd(i, n), Accumulated(i, n).next <= Len(tokens)
    PROVE  ~Odd(Accumulated(i, n).next) /\ tokens[Accumulated(i, n).next] # "raw"
  <1>0. /\ tokens \in Seq(TokenKind) /\ DOMAIN tokens = 1 .. Len(tokens) /\ Len(tokens) \in Nat /\ i \in Nat /\ n \in Nat
        /\ tokens[i] \in TokenKind
    BY DEF LexInv
  <1>1. /\ \A j \in i + 1 .. n - 1 : j \in DOMAIN tokens /\ j \notin Ends(i)
        /\ n <= Len(tokens) => n \in Ends(i)
    BY <1>0 DEF IsEnd
  <1>2. CASE tokens[i] = "fence"
    <2>1. n <= Len(tokens) /\ Accumulated(i, n).next = n + 1 /\ n + 1 \in DOMAIN tokens /\ n \in DOMAIN tokens
      BY <1>0, <1>2 DEF Accumulated
    <2>2. tokens[n] = "fence" /\ \A j \in i + 1 .. n - 1 : tokens[j] # "fence"
      BY <1>1, <1>2, <2>1 DEF Ends, Of
    <2>3. Odd(i + 1)
      BY <1>0, <1>2, ParityStep
    <2>4. Odd(n)
      <3>1. i + 1 \in Nat /\ i + 1 <= n /\ n <= Len(tokens) + 1
        BY <1>0
      <3> QED BY <1>0, <2>2, <2>3, <3>1, SameParity
    <2>5. ~Odd(n + 1)
      BY <1>0, <2>1, <2>2, <2>4, ParityStep DEF Odd
    <2> QED BY <2>1, <2>2, <2>4, <2>5, RawAfter
  <1>3. ASSUME tokens[i] # "fence"
        PROVE  n \in DOMAIN tokens /\ n \in Ends(i) /\ Accumulated(i, n).next = n /\ n - 1 \in DOMAIN tokens
    BY <1>0, <1>1, <1>3 DEF Accumulated
  <1>4. ASSUME tokens[i] # "fence", \A j \in i + 1 .. n - 1 : tokens[j] # "fence" PROVE ~Odd(n)
    <2>1. \A j \in i .. n - 1 : tokens[j] # "fence"
      BY <1>0, <1>4
    <2> QED BY <1>0, <2>1, SameParity
  <1>5. ASSUME tokens[i] # "fence", tokens[n] = "raw", tokens[n - 1] # "raw"
        PROVE  tokens[n - 1] = "fence" \/ (tokens[n - 1] = "annotation" /\ IsLiteralDescMarker(text[n - 1]))
    <2>1. n - 1 \in DOMAIN tokens /\ n \in DOMAIN tokens /\ (n - 1) + 1 = n
      BY <1>0, <1>3, <1>5
    <2> QED BY <1>5, <2>1, RawAfter
  <1>6. CASE tokens[i] = "keyword" /\ HasBody(i)
    <2>1. Ends(i) = KeywordEnds(i)
      BY <1>6 DEF Ends
    <2>2. tokens[n] \in {"annotation", "keyword", "fence"}
      BY <1>3, <1>6, <2>1 DEF KeywordEnds, Of
    <2>3. tokens[n] = "fence" => \A j \in i + 1 .. n - 1 : tokens[j] # "fence"
      BY <1>1, <1>3, <1>6, <2>1 DEF KeywordEnds, Of
    <2>4. tokens[n] # "fence" => ~Odd(n)
      BY <1>3, <1>6, <2>2 DEF LexInv, Classified
    <2> QED BY <1>3, <1>4, <1>6, <2>2, <2>3, <2>4
  <1>7. CASE tokens[i] = "annotation"
    <2>1. Ends(i) = Of(TokenKind \ Described(i)) /\ Described(i) \subseteq {"raw", "text"}
      BY <1>7 DEF Ends, Described
    <2>2. \A j \in i + 1 .. n - 1 : tokens[j] \in Described(i)
      BY <1>0, <1>1, <2>1 DEF Of
    <2>3. ~Odd(n)
      BY <1>4, <1>7, <2>1, <2>2
    <2>4. tokens[n] \notin Described(i)
      BY <1>3, <1>7, <2>1 DEF Of
    <2>5. CASE Described(i) = {"raw"}
      BY <1>3, <1>7, <2>3, <2>4, <2>5
    <2>6. CASE Described(i) # {"raw"}
      <3>1. ~IsLiteralDescMarker(text[i]) /\ Described(i) \subseteq {"text"}
        BY <2>6 DEF Described, IsLiteralDescMarker
      <3>2. n - 1 = i \/ tokens[n - 1] = "text"
        BY <1>0, <2>2, <3>1
      <3>3. tokens[n] # "raw"
        BY <1>5, <1>7, <3>1, <3>2
      <3> QED BY <1>3, <1>7, <2>3, <3>3
    <2> QED BY <2>5, <2>6
  <1>8. CASE tokens[i] \notin {"fence", "annotation"} /\ ~(tokens[i] = "keyword" /\ HasBody(i))
    <2>1. Ends(i) = DOMAIN tokens
      <3>1. Ends(i) = Of(TokenKind)
        BY <1>8, Zenon DEF Ends
      <3>2. \A j \in DOMAIN tokens : tokens[j] \in TokenKind
        BY <1>0
      <3> QED BY <3>1, <3>2 DEF Of
    <2>2. n - 1 = i
      BY <1>0, <1>1, <2>1
    <2>3. ~Odd(n)
      BY <1>0, <1>4, <1>8, <2>2
    <2>4. tokens[n] # "raw"
      BY <1>5, <1>8, <2>2
    <2> QED BY <1>3, <1>8, <2>3, <2>4
  <1> QED BY <1>2, <1>6, <1>7, <1>8

\* What a folded token reaches over is in its body, or is nothing.
LEMMA InTheBody ==
    ASSUME LexInv, NEW i \in DOMAIN tokens, ~Odd(i), tokens[i] # "raw",
           NEW n \in i + 1 .. Len(tokens) + 1, IsEnd(i, n),
           NEW j \in DOMAIN tokens, i < j, j < Accumulated(i, n).next
    PROVE  j \in Accumulated(i, n).body \/ tokens[j] \in {"blank", "directive", "fence"}
  <1>0. /\ tokens \in Seq(TokenKind) /\ DOMAIN tokens = 1 .. Len(tokens) /\ Len(tokens) \in Nat
        /\ i \in Nat /\ n \in Nat /\ j \in Nat /\ tokens[i] \in TokenKind /\ tokens[j] \in TokenKind
    BY DEF LexInv
  <1>1. j < n => j \notin Ends(i)
    BY <1>0 DEF IsEnd
  <1>2. Accumulated(i, n).body = {k \in Of(BodyKinds(i)) : i < k /\ k < n}
    BY DEF Accumulated
  <1>3. j < n \/ (j = n /\ tokens[i] = "fence" /\ n <= Len(tokens))
    BY <1>0 DEF Accumulated
  <1>4. CASE j = n /\ tokens[i] = "fence" /\ n <= Len(tokens)
    <2>1. n \in Ends(i)
      BY <1>4 DEF IsEnd
    <2> QED BY <1>4, <2>1 DEF Ends, Of
  <1>5. CASE j < n /\ tokens[i] = "fence"
    <2>1. Ends(i) = Of({"fence"}) /\ BodyKinds(i) = {"raw"}
      BY <1>5 DEF Ends, BodyKinds
    <2>2. \A k \in i + 1 .. j : k \in DOMAIN tokens /\ k \notin Ends(i)
      BY <1>0, <1>5 DEF IsEnd
    <2>3. \A k \in i + 1 .. j : tokens[k] # "fence"
      BY <2>1, <2>2 DEF Of
    <2>4. Odd(i + 1)
      BY <1>0, <1>5, ParityStep
    <2>5. Odd(j)
      <3>1. i + 1 \in Nat /\ i + 1 <= j /\ j <= Len(tokens) + 1
        BY <1>0
      <3>2. \A k \in i + 1 .. j - 1 : tokens[k] # "fence"
        BY <1>0, <2>3
      <3> QED BY <1>0, <2>4, <3>1, <3>2, SameParity
    <2>6. tokens[j] = "raw"
      <3>1. tokens[j] # "fence"
        BY <1>0, <2>3
      <3> QED BY <2>5, <3>1 DEF LexInv, Classified
    <2> QED BY <1>2, <1>5, <2>1, <2>6 DEF Of
  <1>6. CASE j < n /\ tokens[i] = "keyword" /\ HasBody(i)
    <2>1. BodyKinds(i) = {"text", "raw", "keyword"} /\ j \notin KeywordEnds(i)
      BY <1>1, <1>6 DEF BodyKinds, Ends
    <2>2. tokens[j] # "annotation"
      BY <2>1 DEF KeywordEnds, Of
    <2> QED BY <1>0, <1>2, <1>6, <2>1, <2>2 DEF Of, TokenKind
  <1>7. CASE j < n /\ tokens[i] = "annotation"
    <2>1. BodyKinds(i) = Described(i) /\ j \notin Of(TokenKind \ Described(i))
      BY <1>1, <1>7 DEF BodyKinds, Ends
    <2> QED BY <1>0, <1>2, <1>7, <2>1 DEF Of
  <1>8. CASE j < n /\ tokens[i] \notin {"fence", "annotation"} /\ ~(tokens[i] = "keyword" /\ HasBody(i))
    <2>1. Ends(i) = Of(TokenKind)
      BY <1>8, Zenon DEF Ends
    <2> QED BY <1>0, <1>1, <1>8, <2>1 DEF Of
  <1> QED BY <1>3, <1>4, <1>5, <1>6, <1>7, <1>8

\* What a folded token reaches over.
Covers(f, j) == f.head <= j /\ j < f.next
Kept(f) ==
    /\ f.head \in DOMAIN tokens /\ f.next \in f.head + 1 .. Len(tokens) + 1
    /\ f.body \subseteq f.head + 1 .. f.next - 1
    /\ \A j \in f.head + 1 .. f.next - 1 : j \in f.body \/ tokens[j] \in {"blank", "directive", "fence"}
    /\ f.kind \in {"blank", "text", "dropped"} => f.next = f.head + 1
    /\ f.kind = "blank" => tokens[f.head] = "blank"
    /\ f.kind = "text" => tokens[f.head] = "text"
    /\ f.kind = "dropped" => tokens[f.head] = "directive"

FoldInv ==
    /\ Cursor \in 1 .. Len(tokens) + 1
    /\ Cursor <= Len(tokens) => ~Odd(Cursor) /\ tokens[Cursor] # "raw"
    /\ phase \in {"prose", "parse", "done"} => Cursor > Len(tokens)
    /\ \A i \in DOMAIN folded : Kept(folded[i]) /\ folded[i].next <= Cursor
    /\ \A i, k \in DOMAIN folded : i < k => folded[i].next <= folded[k].head
    /\ \A j \in DOMAIN tokens : j < Cursor => \E i \in DOMAIN folded : Covers(folded[i], j)

LEMMA AccumulatedIsKept ==
    ASSUME LexInv, NEW i \in DOMAIN tokens, ~Odd(i), tokens[i] # "raw",
           NEW n \in i + 1 .. Len(tokens) + 1, IsEnd(i, n)
    PROVE  Kept(Accumulated(i, n)) /\ Accumulated(i, n).head = i
  <1>0. /\ tokens \in Seq(TokenKind) /\ DOMAIN tokens = 1 .. Len(tokens) /\ Len(tokens) \in Nat
        /\ i \in Nat /\ n \in Nat /\ tokens[i] \in TokenKind
    BY DEF LexInv
  <1>1. /\ Accumulated(i, n).head = i /\ Accumulated(i, n).kind = FoldedKind(i)
        /\ Accumulated(i, n).next = IF tokens[i] = "fence" /\ n <= Len(tokens) THEN n + 1 ELSE n
        /\ Accumulated(i, n).body = {j \in Of(BodyKinds(i)) : i < j /\ j < n}
    BY DEF Accumulated
  <1>2. Accumulated(i, n).next \in i + 1 .. Len(tokens) + 1 /\ n <= Accumulated(i, n).next
    BY <1>0, <1>1
  <1>3. Accumulated(i, n).body \subseteq i + 1 .. Accumulated(i, n).next - 1
    BY <1>0, <1>1, <1>2 DEF Of
  <1>4. \A j \in i + 1 .. Accumulated(i, n).next - 1 :
           j \in Accumulated(i, n).body \/ tokens[j] \in {"blank", "directive", "fence"}
    <2>1. \A j \in i + 1 .. Accumulated(i, n).next - 1 : j \in DOMAIN tokens /\ i < j /\ j < Accumulated(i, n).next
      BY <1>0, <1>2
    <2> QED BY <2>1, InTheBody
  <1>5. /\ FoldedKind(i) = "blank" => tokens[i] = "blank"
        /\ FoldedKind(i) = "text" => tokens[i] = "text"
        /\ FoldedKind(i) = "dropped" => tokens[i] = "directive"
    <2>1. tokens[i] \in TokenKind \ {"raw"}
      BY <1>0
    <2> QED BY <2>1 DEF FoldedKind, TokenKind
  <1>6. FoldedKind(i) \in {"blank", "text", "dropped"} => Accumulated(i, n).next = i + 1
    <2> SUFFICES ASSUME FoldedKind(i) \in {"blank", "text", "dropped"} PROVE Accumulated(i, n).next = i + 1
      OBVIOUS
    <2>1. tokens[i] \in {"blank", "text", "directive"}
      BY <1>5
    <2>2. Ends(i) = Of(TokenKind)
      BY <2>1, Zenon DEF Ends
    <2>3. \A j \in DOMAIN tokens : j \in Ends(i)
      BY <1>0, <2>2 DEF Of
    <2>4. n = i + 1
      <3>1. i + 1 <= n - 1 => i + 1 \in i + 1 .. n - 1 /\ i + 1 \in DOMAIN tokens
        BY <1>0
      <3> QED BY <1>0, <2>3, <3>1 DEF IsEnd
    <2> QED BY <1>1, <2>1, <2>4
  <1> QED BY <1>1, <1>2, <1>3, <1>4, <1>5, <1>6 DEF Kept

FirstFacts == LexInv => (1 \in DOMAIN tokens => ~Odd(1) /\ tokens[1] # "raw")
LEMMA FirstIsOpenNext == FirstFacts'
  <1>1. FirstFacts
    BY FirstIsOpen DEF FirstFacts
  <1> QED BY <1>1, PTL

LEMMA FoldInvEmpty ==
    ASSUME LexInv, folded = <<>>, phase \in {"classify", "accumulate"}
    PROVE  FoldInv
  <1>1. Cursor = 1 /\ DOMAIN folded = {} /\ tokens \in Seq(TokenKind)
    BY DEF Cursor, LexInv
  <1>2. Cursor \in 1 .. Len(tokens) + 1 /\ (Cursor <= Len(tokens) => 1 \in DOMAIN tokens)
        /\ \A j \in DOMAIN tokens : ~(j < Cursor)
    BY <1>1
  <1> QED BY <1>1, <1>2, FirstIsOpen DEF FoldInv

EmptyFacts == LexInv /\ folded = <<>> /\ phase \in {"classify", "accumulate"} => FoldInv
LEMMA FoldInvEmptyNext == EmptyFacts'
  <1>1. EmptyFacts
    BY FoldInvEmpty DEF EmptyFacts
  <1> QED BY <1>1, PTL

\* The bodies that are there stay as they are, and the next one begins where the last ended.
LEMMA AccumulateBodyKeeps ==
    ASSUME LexInv, BodyInv, FoldInv, AccumulateBody
    PROVE  FoldInv'
  <1> PICK c : c = Cursor
    OBVIOUS
  <1>0. /\ tokens \in Seq(TokenKind) /\ DOMAIN tokens = 1 .. Len(tokens) /\ Len(tokens) \in Nat
        /\ folded \in Seq(FoldedTokens) /\ c \in DOMAIN tokens /\ ~Odd(c) /\ tokens[c] # "raw" /\ c \in Nat
    <2>1. Cursor \in 1 .. Len(tokens) + 1 /\ Cursor <= Len(tokens) /\ tokens \in Seq(TokenKind)
      BY DEF LexInv, FoldInv, AccumulateBody
    <2> QED BY <2>1 DEF BodyInv, FoldInv
  <1>1. PICK n \in c + 1 .. Len(tokens) + 1 : IsEnd(c, n) /\ folded' = Append(folded, Accumulated(c, n))
    BY DEF AccumulateBody
  <1> PICK g : g = Accumulated(c, n)
    OBVIOUS
  <1>2. Kept(g) /\ g.head = c /\ g.next \in c + 1 .. Len(tokens) + 1
    BY <1>0, <1>1, AccumulatedIsKept DEF Kept
  <1>3. g.next <= Len(tokens) => ~Odd(g.next) /\ tokens[g.next] # "raw"
    BY <1>0, <1>1, NextIsOpen
  <1>4. tokens' = tokens /\ phase' = "accumulate" /\ phase = "accumulate"
    BY DEF AccumulateBody
  <1> PICK m : m = Len(folded) + 1
    OBVIOUS
  <1>5. /\ Len(folded') = m /\ DOMAIN folded' = 1 .. m /\ folded'[m] = g /\ folded' # <<>>
        /\ DOMAIN folded = 1 .. m - 1 /\ m \in Nat \ {0}
        /\ \A i \in 1 .. m - 1 : folded'[i] = folded[i]
    BY <1>0, <1>1
  <1>6. Cursor' = g.next
    BY <1>5 DEF Cursor
  <1>7. \A f : Kept(f) => Kept(f)'
    BY <1>4 DEF Kept
  <1>8. \A i \in 1 .. m : i \in 1 .. m - 1 \/ i = m
    BY <1>5
  <1>9. \A i \in 1 .. m - 1 : Kept(folded[i]) /\ folded[i].next <= c /\ folded[i].next \in Nat /\ folded[i].head \in Nat
    <2>1. \A i \in 1 .. m - 1 : folded[i] \in FoldedTokens
      BY <1>0, <1>5
    <2> QED BY <1>5, <2>1 DEF FoldInv, FoldedTokens
  <1>10. \A i \in 1 .. m : Kept(folded[i])' /\ folded'[i].next <= g.next
    <2>1. \A i \in 1 .. m - 1 : folded[i].next <= g.next
      BY <1>0, <1>2, <1>9
    <2>2. g.next <= g.next
      BY <1>0, <1>2
    <2>3. \A i \in 1 .. m - 1 : Kept(folded'[i])
      BY <1>5, <1>9
    <2>4. Kept(folded'[m])
      BY <1>2, <1>5
    <2>5. \A i \in 1 .. m : Kept(folded'[i])
      BY <1>8, <2>3, <2>4
    <2>6. \A i \in 1 .. m : folded'[i].next <= g.next
      BY <1>5, <1>8, <2>1, <2>2
    <2>7. \A i \in 1 .. m : Kept(folded[i])'
      BY <1>7, <2>5
    <2> QED BY <2>6, <2>7
  <1>11. \A i, k \in 1 .. m : i < k => folded'[i].next <= folded'[k].head
    <2> SUFFICES ASSUME NEW i \in 1 .. m, NEW k \in 1 .. m, i < k PROVE folded'[i].next <= folded'[k].head
      OBVIOUS
    <2>1. i \in 1 .. m - 1 /\ folded'[i] = folded[i]
      BY <1>5
    <2>2. CASE k = m
      BY <1>2, <1>5, <1>9, <2>1, <2>2
    <2>3. CASE k # m
      BY <1>5, <1>8, <2>1, <2>3 DEF FoldInv
    <2> QED BY <2>2, <2>3
  <1>12. ASSUME NEW j \in DOMAIN tokens, j < g.next
         PROVE  \E i \in 1 .. m : Covers(folded'[i], j)
    <2>1. CASE j < c
      <3>1. PICK i \in DOMAIN folded : Covers(folded[i], j)
        BY <2>1 DEF FoldInv
      <3>2. i \in 1 .. m /\ folded'[i] = folded[i]
        BY <1>5
      <3> QED BY <3>1, <3>2
    <2>2. CASE ~(j < c)
      <3>1. c <= j
        BY <1>0, <2>2
      <3>2. Covers(folded'[m], j) /\ m \in 1 .. m
        BY <1>2, <1>5, <1>12, <3>1 DEF Covers
      <3> QED BY <3>2
    <2> QED BY <2>1, <2>2
  <1>13. Odd(g.next)' <=> Odd(g.next)
    BY <1>4 DEF Odd, Fences, Of
  <1>14. (Cursor \in 1 .. Len(tokens) + 1)' /\ (Cursor <= Len(tokens) => ~Odd(Cursor) /\ tokens[Cursor] # "raw")'
    <2>1. Odd(Cursor)' <=> Odd(g.next)'
      BY <1>6 DEF Odd, Fences
    <2>2. g.next \in 1 .. Len(tokens) + 1
      BY <1>0, <1>2
    <2> QED BY <1>3, <1>4, <1>6, <1>13, <2>1, <2>2
  <1> QED BY <1>4, <1>5, <1>6, <1>10, <1>11, <1>12, <1>14 DEF FoldInv, Covers

LEMMA FoldInvNext == LexInv /\ LexInv' /\ BodyInv /\ FoldInv /\ [Next]_vars => FoldInv'
  <1> SUFFICES ASSUME LexInv, LexInv', BodyInv, FoldInv, [Next]_vars PROVE FoldInv'
    OBVIOUS
  <1>1. CASE ClassifyLine
    <2>1. folded' = <<>> /\ phase' = "classify"
      BY <1>1 DEF ClassifyLine, BodyInv
    <2> QED BY <2>1, FoldInvEmptyNext DEF EmptyFacts
  <1>2. CASE AccumulateBody
    BY <1>2, AccumulateBodyKeeps
  <1>3. CASE /\ UNCHANGED <<tokens, folded>>
             /\ phase' \in {"prose", "parse", "done"} => phase \in {"prose", "parse", "done"} \/ Cursor > Len(tokens)
    <2>1. Cursor' = Cursor /\ tokens' = tokens /\ folded' = folded
      BY <1>3 DEF Cursor
    <2>2. Odd(Cursor)' <=> Odd(Cursor)
      BY <2>1 DEF Odd, Fences, Of
    <2>3. \A f : Kept(f) => Kept(f)'
      BY <2>1 DEF Kept
    <2>4. \A i \in DOMAIN folded : Kept(folded[i])'
      BY <2>1, <2>3 DEF FoldInv
    <2>5. phase' \in {"prose", "parse", "done"} => Cursor > Len(tokens)
      BY <1>3 DEF FoldInv
    <2> QED BY <2>1, <2>2, <2>4, <2>5 DEF FoldInv, Covers
  <1>4. CASE ClassifiedLines \/ AccumulatedBodies \/ ClassifyProse \/ ParseBlock
    BY <1>3, <1>4 DEF ClassifiedLines, AccumulatedBodies, ClassifyProse, ParseBlock
  <1>5. CASE UNCHANGED vars
    BY <1>3, <1>5 DEF vars
  <1> QED BY <1>1, <1>2, <1>4, <1>5 DEF Next

-----------------------------------------------------------------------------
(* Blocks.                                                                  *)

LEMMA MinIsLeast == ASSUME NEW I \in SUBSET Nat, I # {} PROVE Min(I) \in I /\ \A y \in I : Min(I) <= y
  <1> DEFINE R == {ss \in Nat \X Nat : ss[1] < ss[2]}
  <1>1. IsWellFoundedOn(R, Nat)
    BY NatLessThanWellFounded DEF OpToRel
  <1> HIDE DEF R
  <1>2. PICK x \in I : \A y \in I : <<y, x>> \notin R
    BY <1>1, WFMin
  <1>3. ASSUME NEW y \in I PROVE x <= y
    <2>1. y < x => <<y, x>> \in R
      BY DEF R
    <2> QED BY <1>2, <2>1
  <1> QED BY <1>2, <1>3 DEF Min

LEMMA MaxOfInterval ==
    ASSUME NEW lo \in Nat, NEW hi \in Nat, lo <= hi
    PROVE  Max(lo .. hi) = hi /\ Max((lo .. hi) \union {0}) = hi
  <1>1. ASSUME NEW S \in SUBSET Nat, hi \in S, \A y \in S : hi >= y PROVE Max(S) = hi
    <2>1. \E x \in S : \A y \in S : x >= y
      BY <1>1
    <2>2. Max(S) \in S /\ \A y \in S : Max(S) >= y
      BY <2>1, Zenon DEF Max
    <2>3. Max(S) \in Nat /\ Max(S) >= hi /\ hi >= Max(S)
      BY <1>1, <2>2
    <2> QED BY <2>3
  <1>2. lo .. hi \in SUBSET Nat /\ hi \in lo .. hi /\ \A y \in lo .. hi : hi >= y
    OBVIOUS
  <1>3. /\ (lo .. hi) \union {0} \in SUBSET Nat /\ hi \in (lo .. hi) \union {0}
        /\ \A y \in (lo .. hi) \union {0} : hi >= y
    BY <1>2
  <1> QED BY <1>1, <1>2, <1>3

LEMMA TitlesAreTexts ==
    ASSUME folded \in Seq(FoldedTokens), NEW run
    PROVE  TitleOf(run) \subseteq Texts0
  <1> DEFINE texts == run \intersect Texts0
  <1>1. texts \in SUBSET Nat
    BY DEF Texts0, FoldedOf
  <1>2. texts # {} => Min(texts) \in Texts0
    BY <1>1, MinIsLeast
  <1> QED BY <1>2 DEF TitleOf

\* Each kind of token of a block has its place, or the block says that it has not.
Sorted(blk) ==
    /\ blk.properties \subseteq Keywords(blk.tokens) /\ blk.enumBody \subseteq Keywords(blk.tokens)
    /\ blk.properties = {} \/ blk.enumBody = {}
    /\ blk.yaml \subseteq blk.tokens \intersect FoldedOf({"yaml"})
    /\ blk.prose.title \union blk.prose.description = blk.tokens \intersect Texts0
    /\ \A i \in blk.tokens \intersect FoldedOf({"yaml"}) :
          i \in blk.yaml \/ \E d \in blk.diagnostics : d.at = i
    /\ \A i \in Keywords(blk.tokens) :
          \/ i \in blk.properties \union blk.enumBody
          \/ \E d \in blk.diagnostics : d.at = i
          \/ /\ FamilyOf(blk.kind) = "classifier"
             /\ LineOf(i).name \in {"in", "name"} \/ (LineOf(i).name = "enum" /\ blk.enumBody # {})

LEMMA BareBlockHas ==
    ASSUME titles \subseteq Texts0, NEW I, NEW kind
    PROVE  /\ BareBlock(I, kind).prose.title \union BareBlock(I, kind).prose.description = I \intersect Texts0
           /\ BareBlock(I, kind).tokens = I /\ BareBlock(I, kind).kind = kind /\ BareBlock(I, kind).enumBody = {}
           /\ BareBlock(I, kind).properties = {} /\ BareBlock(I, kind).yaml = {}
  <1>1. TitleDesc(I).title \union TitleDesc(I).description = I \intersect Texts0
    <2> DEFINE title == I \intersect titles
               desc == (I \intersect Texts0) \ titles
               lone == input.singleLineAsDesc /\ Cardinality(title) = 1 /\ desc = {}
    <2>1. TitleDesc(I) = [title |-> IF lone THEN {} ELSE title, description |-> IF lone THEN title ELSE desc]
      BY DEF TitleDesc
    <2>2. title \union desc = I \intersect Texts0 /\ (lone => desc = {})
      OBVIOUS
    <2> HIDE DEF title, desc, lone
    <2> QED BY <2>1, <2>2
  <1> QED BY <1>1 DEF BareBlock

LEMMA WithBodySorted ==
    ASSUME titles \subseteq Texts0, NEW I, NEW kind, NEW diagnostics, NEW yaml \in SUBSET (I \intersect FoldedOf({"yaml"})),
           \A i \in I \intersect FoldedOf({"yaml"}) : i \in yaml \/ \E d \in diagnostics : d.at = i
    PROVE  Sorted(WithBody(I, kind, yaml, diagnostics)) /\ WithBody(I, kind, yaml, diagnostics).tokens = I
  <1> DEFINE blk == WithBody(I, kind, yaml, diagnostics)
  <1>1. /\ blk.tokens = I /\ blk.kind = kind /\ blk.prose = BareBlock(I, kind).prose
        /\ blk.properties = Keywords(I) /\ blk.yaml = yaml /\ blk.enumBody = {}
        /\ diagnostics \subseteq blk.diagnostics
    BY DEF WithBody, BareBlock
  <1>2. blk.prose.title \union blk.prose.description = I \intersect Texts0
    BY <1>1, BareBlockHas
  <1> HIDE DEF blk
  <1>3. Sorted(blk)
    BY <1>1, <1>2 DEF Sorted
  <1> QED BY <1>1, <1>3 DEF blk

LEMMA ReportHas == ASSUME NEW I, NEW code, NEW i \in I PROVE \E d \in Report(I, code) : d.at = i
  <1>1. [code |-> code, at |-> i] \in Report(I, code)
    BY DEF Report
  <1> QED BY <1>1

LEMMA LastOf ==
    ASSUME NEW n \in Nat, NEW S \in SUBSET (1 .. n), S # {}
    PROVE  \E i \in S : \A k \in S : k <= i
  <1> DEFINE T == {n - i : i \in S}
  <1>1. T \in SUBSET Nat /\ T # {}
    OBVIOUS
  <1>2. Min(T) \in T /\ \A y \in T : Min(T) <= y
    BY <1>1, MinIsLeast
  <1>3. PICK i \in S : Min(T) = n - i
    BY <1>2
  <1>4. \A k \in S : n - i <= n - k
    BY <1>2, <1>3
  <1> QED BY <1>4

LEMMA ClassifierBlockSorted ==
    ASSUME folded \in Seq(FoldedTokens), titles \subseteq Texts0, NEW I \in SUBSET DOMAIN folded, NEW kind,
           FamilyOf(kind) = "classifier"
    PROVE  Sorted(ClassifierBlock(I, kind)) /\ ClassifierBlock(I, kind).tokens = I
  <1> DEFINE blk == ClassifierBlock(I, kind)
             enums == {i \in I \intersect FoldedOf({"rawvalue"}) : kind = "enum" /\ LineOf(i).name = "enum"}
             ignored == enums \union {i \in Keywords(I) : LineOf(i).name \in {"in", "name"}}
  <1>1. /\ blk.tokens = I /\ blk.kind = kind /\ blk.prose = BareBlock(I, kind).prose
        /\ blk.properties = {} /\ blk.yaml = {}
        /\ blk.enumBody = {i \in enums : \A k \in enums : k <= i}
        /\ Report(Keywords(I) \ ignored, "context-invalid") \subseteq blk.diagnostics
        /\ Report(I \intersect FoldedOf({"yaml"}), "unexpected-token") \subseteq blk.diagnostics
    BY DEF ClassifierBlock, BareBlock
  <1>2. blk.prose.title \union blk.prose.description = I \intersect Texts0
    BY <1>1, BareBlockHas
  <1>3. enums \subseteq Keywords(I) /\ \A i \in enums : LineOf(i).name = "enum"
    BY DEF Keywords, FoldedOf
  <1>4. enums # {} => blk.enumBody # {}
    <2>1. enums \in SUBSET (1 .. Len(folded)) /\ Len(folded) \in Nat
      OBVIOUS
    <2> QED BY <1>1, <2>1, LastOf
  <1> HIDE DEF blk, enums
  <1>5. ASSUME NEW i \in Keywords(I)
        PROVE  \/ LineOf(i).name \in {"in", "name"} \/ (LineOf(i).name = "enum" /\ blk.enumBody # {})
               \/ \E d \in blk.diagnostics : d.at = i
    <2>1. CASE i \in enums
      BY <1>3, <1>4, <2>1
    <2>2. CASE i \notin ignored
      <3> PICK rest : rest = Keywords(I) \ ignored
        OBVIOUS
      <3>1. i \in rest
        BY <2>2
      <3>2. [code |-> "context-invalid", at |-> i] \in Report(rest, "context-invalid")
        BY <3>1 DEF Report
      <3>3. Report(rest, "context-invalid") \subseteq blk.diagnostics
        BY <1>1
      <3> QED BY <3>2, <3>3
    <2> QED BY <2>1, <2>2
  <1>6. ASSUME NEW i \in I \intersect FoldedOf({"yaml"}) PROVE \E d \in blk.diagnostics : d.at = i
    <2>1. \E d \in Report(I \intersect FoldedOf({"yaml"}), "unexpected-token") : d.at = i
      BY ReportHas
    <2> QED BY <1>1, <2>1
  <1>7. Sorted(blk)
    BY <1>1, <1>2, <1>3, <1>5, <1>6 DEF Sorted
  <1> QED BY <1>1, <1>7 DEF blk

LEMMA BlockSorted ==
    ASSUME folded \in Seq(FoldedTokens), titles \subseteq Texts0, NEW I \in SUBSET DOMAIN folded
    PROVE  Sorted(Block(I)) /\ Block(I).tokens = I
  <1> DEFINE yaml == I \intersect FoldedOf({"yaml"})
             kind == LineOf(Min(Annotations(I))).name
  <1>1. Sorted(UnboundBlock(I)) /\ UnboundBlock(I).tokens = I
    BY WithBodySorted DEF UnboundBlock
  <1>2. Sorted(SchemaBlock(I, kind)) /\ SchemaBlock(I, kind).tokens = I
    BY WithBodySorted DEF SchemaBlock
  <1>3. Sorted(OperationBlock(I, kind)) /\ OperationBlock(I, kind).tokens = I
    <2>1. CASE kind = "operation"
      <3>1. OperationBlock(I, kind) = WithBody(I, kind, yaml, ArgDiagnostics(I, kind))
        BY <2>1 DEF OperationBlock
      <3> HIDE DEF kind
      <3> QED BY <3>1, WithBodySorted
    <2>2. CASE kind # "operation"
      <3> PICK more : more = Report(yaml, "unexpected-token") \union ArgDiagnostics(I, kind)
        OBVIOUS
      <3>1. OperationBlock(I, kind) = WithBody(I, kind, {}, more)
        BY <2>2 DEF OperationBlock
      <3>2. Report(yaml, "unexpected-token") \subseteq more
        OBVIOUS
      <3> HIDE DEF kind, yaml
      <3>3. \A i \in yaml : \E d \in Report(yaml, "unexpected-token") : d.at = i
        BY ReportHas
      <3>4. \A i \in yaml : \E d \in more : d.at = i
        BY <3>2, <3>3
      <3>5. Sorted(WithBody(I, kind, {}, more)) /\ WithBody(I, kind, {}, more).tokens = I
        <4> PICK none : none = {}
          OBVIOUS
        <4>1. none \in SUBSET (I \intersect FoldedOf({"yaml"}))
          OBVIOUS
        <4>2. \A i \in I \intersect FoldedOf({"yaml"}) : i \in none \/ \E d \in more : d.at = i
          BY <3>4 DEF yaml
        <4>3. Sorted(WithBody(I, kind, none, more)) /\ WithBody(I, kind, none, more).tokens = I
          BY <4>1, <4>2, WithBodySorted
        <4> QED BY <4>3
      <3> QED BY <3>1, <3>5
    <2> QED BY <2>1, <2>2
  <1>4. FamilyOf(kind) = "classifier" => Sorted(ClassifierBlock(I, kind)) /\ ClassifierBlock(I, kind).tokens = I
    BY ClassifierBlockSorted
  <1>5. \/ Block(I) = UnboundBlock(I) \/ Block(I) = SchemaBlock(I, kind) \/ Block(I) = OperationBlock(I, kind)
        \/ FamilyOf(kind) = "classifier" /\ Block(I) = ClassifierBlock(I, kind)
    <2>1. CASE Annotations(I) = {}
      BY <2>1 DEF Block
    <2>2. CASE Annotations(I) # {}
      <3>1. Block(I) = CASE FamilyOf(kind) \in {"schema", "meta"} -> SchemaBlock(I, kind)
                         [] FamilyOf(kind) = "operation" -> OperationBlock(I, kind)
                         [] FamilyOf(kind) = "classifier" -> ClassifierBlock(I, kind)
                         [] OTHER -> UnboundBlock(I)
        BY <2>2 DEF Block
      <3> HIDE DEF kind
      <3>2. CASE FamilyOf(kind) \in {"schema", "meta"}
        <4>1. FamilyOf(kind) # "operation" /\ FamilyOf(kind) # "classifier"
          BY <3>2
        <4> QED BY <3>1, <3>2, <4>1, Zenon
      <3>3. CASE FamilyOf(kind) = "operation"
        <4>1. FamilyOf(kind) \notin {"schema", "meta"} /\ FamilyOf(kind) # "classifier"
          BY <3>3
        <4> QED BY <3>1, <3>3, <4>1, Zenon
      <3>4. CASE FamilyOf(kind) = "classifier"
        <4>1. FamilyOf(kind) \notin {"schema", "meta"} /\ FamilyOf(kind) # "operation"
          BY <3>4
        <4> QED BY <3>1, <3>4, <4>1, Zenon
      <3>5. CASE FamilyOf(kind) \notin {"schema", "meta", "operation", "classifier"}
        <4>1. /\ FamilyOf(kind) \notin {"schema", "meta"} /\ FamilyOf(kind) # "operation"
              /\ FamilyOf(kind) # "classifier"
          BY <3>5
        <4> QED BY <3>1, <4>1, Zenon
      <3> QED BY <3>2, <3>3, <3>4, <3>5
    <2> QED BY <2>1, <2>2
  <1> HIDE DEF kind
  <1> QED BY <1>1, <1>2, <1>3, <1>4, <1>5

LEMMA SmallIsOne ==
    ASSUME NEW S, IsFiniteSet(S), Cardinality(S) <= 1
    PROVE  \A x, y \in S : x = y
  <1> SUFFICES ASSUME NEW x \in S, NEW y \in S, x # y PROVE FALSE
    OBVIOUS
  <1>1. IsFiniteSet({x}) /\ Cardinality({x}) = 1
    BY FS_Singleton
  <1>2. Cardinality({x} \union {y}) = 2
    BY <1>1, FS_AddElement
  <1>3. Cardinality({x} \union {y}) <= Cardinality(S) /\ Cardinality(S) \in Nat
    BY FS_Subset, FS_CardinalityType
  <1> QED BY <1>2, <1>3

\* The tokens of the next block: an interval, and one annotation when every annotation has a block.
LEMMA NextBlock ==
    ASSUME folded \in Seq(FoldedTokens), BlockStart \in 1 .. Len(folded) + 1
    PROVE  \E hi \in Nat :
              /\ hi <= Len(folded) /\ BlockTokens = BlockStart .. hi
              /\ BlockStart <= hi \/ hi = Len(folded)
              /\ input.all => \A x, y \in Annotations(BlockStart .. hi) : x = y
  <1> PICK lo : lo = BlockStart
    OBVIOUS
  <1> PICK n : n = Len(folded)
    OBVIOUS
  <1> PICK A : A = Annotations(lo .. n)
    OBVIOUS
  <1>0. lo \in Nat /\ n \in Nat /\ A \subseteq lo .. n /\ A \in SUBSET Nat /\ 1 <= lo /\ lo <= n + 1
    BY DEF Annotations
  <1>1. IsFiniteSet(A)
    <2>1. IsFiniteSet(lo .. n)
      BY <1>0, FS_Interval
    <2> QED BY <1>0, <2>1, FS_Subset
  <1>2. CASE ~input.all \/ Cardinality(A) <= 1
    <2>1. BlockTokens = lo .. n
      BY <1>2 DEF BlockTokens
    <2>2. input.all => \A x, y \in A : x = y
      BY <1>1, <1>2, SmallIsOne
    <2> QED BY <1>0, <2>1, <2>2
  <1>3. CASE ~(~input.all \/ Cardinality(A) <= 1)
    <2> PICK x : x = Min(A)
      OBVIOUS
    <2> PICK y : y = Min(A \ {x})
      OBVIOUS
    <2>1. BlockTokens = lo .. y - 1
      BY <1>3 DEF BlockTokens
    <2>0. ~(Cardinality(A) <= 1)
      BY <1>3
    <2>2. A # {}
      <3>1. A = {} => Cardinality(A) = 0
        BY FS_EmptySet
      <3> QED BY <2>0, <3>1
    <2>3. x \in A /\ \A z \in A : x <= z
      BY <1>0, <2>2, MinIsLeast
    <2>4. A \ {x} # {}
      <3>1. A \ {x} = {} => A = {x}
        BY <2>3
      <3>2. Cardinality({x}) = 1
        BY FS_Singleton
      <3>3. A = {x} => Cardinality(A) = 1
        BY <3>2
      <3> QED BY <2>0, <3>1, <3>3
    <2>5. y \in A \ {x} /\ \A z \in A \ {x} : y <= z
      <3>1. A \ {x} \in SUBSET Nat
        BY <1>0
      <3> QED BY <2>4, <3>1, MinIsLeast
    <2>6. y - 1 \in Nat /\ y - 1 <= n /\ lo <= y - 1
      BY <1>0, <2>3, <2>5
    <2>7. \A z \in Annotations(lo .. y - 1) : z = x
      <3> SUFFICES ASSUME NEW z \in Annotations(lo .. y - 1), z # x PROVE FALSE
        OBVIOUS
      <3>1. z \in lo .. n /\ z <= y - 1 /\ z \in FoldedOf({"annotation"})
        BY <1>0, <2>6 DEF Annotations
      <3>2. z \in A \ {x}
        BY <3>1 DEF Annotations
      <3>3. y <= z /\ y \in Nat /\ z \in Nat
        BY <1>0, <2>5, <3>1, <3>2
      <3> QED BY <3>1, <3>3
    <2>8. \A z, w \in Annotations(lo .. y - 1) : z = w
      BY <2>7
    <2> PICK hi : hi = y - 1
      OBVIOUS
    <2>9. /\ hi \in Nat /\ hi <= Len(folded) /\ BlockTokens = BlockStart .. hi /\ BlockStart <= hi
          /\ \A z, w \in Annotations(BlockStart .. hi) : z = w
      BY <2>1, <2>6, <2>8
    <2> QED BY <2>9
  <1> QED BY <1>2, <1>3

BlockInv ==
    /\ \E S : blocks \in Seq(S)
    /\ titles \subseteq Texts0
    /\ phase \in {"classify", "accumulate", "prose"} => blocks = <<>> /\ titles = {}
    /\ \A b \in DOMAIN blocks :
          /\ Sorted(blocks[b]) /\ blocks[b].tokens \subseteq DOMAIN folded
          /\ input.all => \A x, y \in Annotations(blocks[b].tokens) : x = y
    /\ \A b, c \in DOMAIN blocks : b # c => blocks[b].tokens \intersect blocks[c].tokens = {}
    /\ phase = "parse" =>
          /\ BlockStart \in 1 .. Len(folded) + 1 /\ (BlockStart <= Len(folded) \/ Len(folded) = 0)
          /\ \A b \in DOMAIN blocks : \A i \in blocks[b].tokens : i < BlockStart
    /\ phase \in {"parse", "done"} =>
          \A i \in DOMAIN folded : (phase = "parse" => i < BlockStart) => \E b \in DOMAIN blocks : i \in blocks[b].tokens

\* The blocks that are there stay, and the next one takes the tokens from where the last one stopped.
LEMMA ParseBlockKeeps ==
    ASSUME BodyInv, BlockInv, ParseBlock
    PROVE  BlockInv'
  <1> PICK lo : lo = BlockStart
    OBVIOUS
  <1> PICK n : n = Len(folded)
    OBVIOUS
  <1> PICK m : m = Len(blocks) + 1
    OBVIOUS
  <1>0. /\ folded \in Seq(FoldedTokens) /\ phase = "parse" /\ n \in Nat /\ DOMAIN folded = 1 .. n
        /\ lo \in 1 .. n + 1 /\ (lo <= n \/ n = 0) /\ lo \in Nat
        /\ UNCHANGED <<input, tokens, folded, titles>> /\ titles \subseteq Texts0
    BY DEF BodyInv, BlockInv, ParseBlock
  <1>1. PICK hi \in Nat :
              /\ hi <= n /\ BlockTokens = lo .. hi /\ (lo <= hi \/ hi = n)
              /\ input.all => \A x, y \in Annotations(lo .. hi) : x = y
    BY <1>0, NextBlock
  <1> PICK I : I = lo .. hi
    OBVIOUS
  <1> PICK g : g = Block(I)
    OBVIOUS
  <1>2. Sorted(g) /\ g.tokens = I /\ I \subseteq DOMAIN folded
    <2>1. I \in SUBSET DOMAIN folded
      BY <1>0, <1>1
    <2> QED BY <1>0, <2>1, BlockSorted
  <1>3. PICK S : blocks \in Seq(S)
    BY DEF BlockInv
  <1>4. /\ blocks' = Append(blocks, g)
        /\ phase' = IF Max(I \union {0}) >= n THEN "done" ELSE "parse"
    BY <1>1 DEF ParseBlock
  <1>5. /\ blocks' \in Seq(S \union {g}) /\ Len(blocks') = m /\ m \in Nat \ {0} /\ blocks' # <<>>
        /\ DOMAIN blocks' = 1 .. m /\ DOMAIN blocks = 1 .. m - 1 /\ blocks'[m] = g
        /\ \A b \in 1 .. m - 1 : blocks'[b] = blocks[b]
    <2>1. blocks \in Seq(S \union {g})
      BY <1>3
    <2> QED BY <1>4, <2>1
  <1>6. \A b \in 1 .. m : b \in 1 .. m - 1 \/ b = m
    BY <1>5
  <1>7. \A blk : Sorted(blk) => Sorted(blk)'
    <2>1. /\ \A kinds : FoldedOf(kinds)' = FoldedOf(kinds)
          /\ \A i : LineOf(i)' = LineOf(i)
      BY <1>0 DEF FoldedOf, LineOf, text, Preprocess
    <2>2. Texts0' = Texts0
      BY <2>1 DEF Texts0
    <2>3. \A J : Keywords(J)' = Keywords(J)
      BY <2>1 DEF Keywords
    <2> QED BY <2>1, <2>2, <2>3, Zenon DEF Sorted
  <1>8. \A b \in 1 .. m : Sorted(blocks[b])'
    <2>1. \A b \in 1 .. m : Sorted(blocks'[b])
      BY <1>2, <1>5, <1>6 DEF BlockInv
    <2> QED BY <1>7, <2>1
  <1>9. \A b \in 1 .. m : blocks'[b].tokens \subseteq DOMAIN folded
    BY <1>2, <1>5, <1>6 DEF BlockInv
  <1>10. \A b \in 1 .. m : input.all => \A x, y \in Annotations(blocks'[b].tokens) : x = y
    BY <1>1, <1>2, <1>5, <1>6 DEF BlockInv
  <1>11. \A b \in 1 .. m - 1 : \A i \in blocks[b].tokens : i < lo /\ i \in Nat
    BY <1>0, <1>5 DEF BlockInv
  <1>12. \A b \in 1 .. m - 1 : blocks[b].tokens \intersect I = {}
    <2>1. \A i \in I : i \in Nat /\ ~(i < lo)
      BY <1>0, <1>1
    <2> QED BY <1>11, <2>1
  <1>13. \A b, c \in 1 .. m : b # c => blocks'[b].tokens \intersect blocks'[c].tokens = {}
    <2> SUFFICES ASSUME NEW b \in 1 .. m, NEW c \in 1 .. m, b # c
                 PROVE  blocks'[b].tokens \intersect blocks'[c].tokens = {}
      OBVIOUS
    <2>1. CASE b \in 1 .. m - 1 /\ c \in 1 .. m - 1
      BY <1>5, <2>1 DEF BlockInv
    <2>2. CASE b = m \/ c = m
      BY <1>2, <1>5, <1>6, <1>12, <2>2
    <2> QED BY <1>6, <2>1, <2>2
  <1>14. \A i \in 1 .. n : i <= hi => \E b \in 1 .. m : i \in blocks'[b].tokens
    <2> SUFFICES ASSUME NEW i \in 1 .. n, i <= hi PROVE \E b \in 1 .. m : i \in blocks'[b].tokens
      OBVIOUS
    <2>1. CASE i < lo
      <3>1. PICK b \in 1 .. m - 1 : i \in blocks[b].tokens
        BY <1>0, <1>5, <2>1 DEF BlockInv
      <3> QED BY <1>5, <3>1
    <2>2. CASE ~(i < lo)
      <3>1. i \in I /\ m \in 1 .. m
        BY <1>0, <1>5, <2>2
      <3> QED BY <1>2, <1>5, <3>1
    <2> QED BY <2>1, <2>2
  <1>15. phase' = "done" => hi = n
    <2>1. lo <= hi => Max(I \union {0}) = hi
      BY <1>0, MaxOfInterval
    <2> QED BY <1>0, <1>1, <1>4, <2>1
  <1>16. phase' # "done" => phase' = "parse" /\ lo <= hi /\ hi < n
    <2>1. lo <= hi => Max(I \union {0}) = hi
      BY <1>0, MaxOfInterval
    <2>2. n = 0 => Max(I \union {0}) = 0
      <3>1. n = 0 => I \union {0} = 0 .. 0
        BY <1>0, <1>1
      <3>2. Max(0 .. 0) = 0
        BY MaxOfInterval
      <3> QED BY <3>1, <3>2
    <2>3. n = 0 => phase' = "done"
      BY <1>4, <2>2
    <2>4. n # 0 => lo <= hi
      BY <1>0, <1>1
    <2> QED BY <1>0, <1>1, <1>4, <2>1, <2>3, <2>4
  <1>17. phase' = "parse" => BlockStart' = hi + 1
    <2> SUFFICES ASSUME phase' = "parse" PROVE BlockStart' = hi + 1
      OBVIOUS
    <2>1. Max(I) = hi
      BY <1>0, <1>16, MaxOfInterval
    <2> QED BY <1>2, <1>5, <2>1 DEF BlockStart
  <1>18. phase' = "parse" => \A b \in 1 .. m : \A i \in blocks'[b].tokens : i < hi + 1
    <2> SUFFICES ASSUME phase' = "parse", NEW b \in 1 .. m, NEW i \in blocks'[b].tokens PROVE i < hi + 1
      OBVIOUS
    <2>1. lo <= hi
      BY <1>16
    <2>2. CASE b = m
      BY <1>0, <1>2, <1>5, <2>2
    <2>3. CASE b \in 1 .. m - 1
      BY <1>0, <1>5, <1>11, <2>1, <2>3
    <2> QED BY <1>6, <2>2, <2>3
  <1>19. (phase = "parse" =>
            /\ BlockStart \in 1 .. Len(folded) + 1 /\ (BlockStart <= Len(folded) \/ Len(folded) = 0)
            /\ \A b \in DOMAIN blocks : \A i \in blocks[b].tokens : i < BlockStart)'
    BY <1>0, <1>5, <1>16, <1>17, <1>18
  <1>20. (phase \in {"parse", "done"} =>
            \A i \in DOMAIN folded : (phase = "parse" => i < BlockStart) => \E b \in DOMAIN blocks : i \in blocks[b].tokens)'
    <2> SUFFICES ASSUME NEW i \in 1 .. n, phase' = "parse" => i < BlockStart'
                 PROVE  \E b \in 1 .. m : i \in blocks'[b].tokens
      BY <1>0, <1>5
    <2>1. i <= hi
      BY <1>15, <1>16, <1>17
    <2> QED BY <1>14, <2>1
  <1>21. (titles \subseteq Texts0)'
    BY <1>0 DEF Texts0, FoldedOf, LineOf, text, Preprocess
  <1>22. \A b \in 1 .. m : (input.all => \A x, y \in Annotations(blocks[b].tokens) : x = y)'
    BY <1>0, <1>10 DEF Annotations, FoldedOf
  <1>23. phase' \notin {"classify", "accumulate", "prose"}
    BY <1>4
  <1>24. (\E T : blocks \in Seq(T))'
    BY <1>5
  <1> QED BY <1>0, <1>5, <1>8, <1>9, <1>13, <1>19, <1>20, <1>21, <1>22, <1>23, <1>24 DEF BlockInv

LEMMA BlockInvNext == BodyInv /\ BlockInv /\ [Next]_vars => BlockInv'
  <1> SUFFICES ASSUME BodyInv, BlockInv, [Next]_vars PROVE BlockInv'
    OBVIOUS
  <1>1. CASE phase' \in {"classify", "accumulate", "prose"} /\ blocks' = <<>> /\ titles' = {}
    <2>1. blocks' \in Seq({}) /\ DOMAIN blocks' = {}
      BY <1>1
    <2>2. phase' \notin {"parse", "done"} /\ phase' # "parse"
      BY <1>1
    <2> QED BY <1>1, <2>1, <2>2 DEF BlockInv
  <1>2. CASE ClassifyLine \/ ClassifiedLines \/ AccumulateBody \/ AccumulatedBodies
    <2>1. phase' \in {"classify", "accumulate", "prose"} /\ blocks' = <<>> /\ titles' = {}
      BY <1>2 DEF ClassifyLine, ClassifiedLines, AccumulateBody, AccumulatedBodies, BlockInv
    <2> QED BY <1>1, <2>1
  <1>3. CASE ClassifyProse
    <2>1. blocks' = <<>> /\ phase' = "parse" /\ UNCHANGED <<input, tokens, folded>>
      BY <1>3 DEF ClassifyProse, BlockInv
    <2>2. titles' \subseteq Texts0
      BY <1>3, TitlesAreTexts DEF ClassifyProse, BodyInv
    <2>3. Texts0' = Texts0
      BY <2>1 DEF Texts0, FoldedOf, LineOf, text, Preprocess
    <2>4. BlockStart' = 1 /\ DOMAIN blocks' = {} /\ blocks' \in Seq({})
      BY <2>1 DEF BlockStart
    <2>5. /\ 1 \in 1 .. Len(folded) + 1 /\ (1 <= Len(folded) \/ Len(folded) = 0)
          /\ \A i \in DOMAIN folded : ~(i < 1)
      BY DEF BodyInv
    <2> QED BY <2>1, <2>2, <2>3, <2>4, <2>5 DEF BlockInv
  <1>4. CASE ParseBlock
    BY <1>4, ParseBlockKeeps
  <1>5. CASE UNCHANGED vars
    <2>1. UNCHANGED <<input, phase, tokens, folded, titles, blocks>>
      BY <1>5 DEF vars
    <2>2. /\ \A kinds : FoldedOf(kinds)' = FoldedOf(kinds)
          /\ \A i : LineOf(i)' = LineOf(i)
      BY <2>1 DEF FoldedOf, LineOf, text, Preprocess
    <2>3. Texts0' = Texts0
      BY <2>2 DEF Texts0
    <2>4. \A J : Keywords(J)' = Keywords(J) /\ Annotations(J)' = Annotations(J)
      BY <2>2 DEF Keywords, Annotations
    <2>5. \A blk : Sorted(blk) => Sorted(blk)'
      BY <2>2, <2>3, <2>4, Zenon DEF Sorted
    <2>6. BlockStart' = BlockStart
      BY <2>1 DEF BlockStart
    <2>7. \A b \in DOMAIN blocks : Sorted(blocks[b])'
      BY <2>1, <2>5 DEF BlockInv
    <2>8. \A b \in DOMAIN blocks : Annotations(blocks[b].tokens)' = Annotations(blocks[b].tokens)
      BY <2>1, <2>4
    <2>9. (\E S : blocks \in Seq(S))'
      BY <2>1 DEF BlockInv
    <2>10. (\A b \in DOMAIN blocks :
              /\ Sorted(blocks[b]) /\ blocks[b].tokens \subseteq DOMAIN folded
              /\ input.all => \A x, y \in Annotations(blocks[b].tokens) : x = y)'
      <3> SUFFICES ASSUME NEW b \in DOMAIN blocks
                   PROVE  /\ Sorted(blocks[b])' /\ blocks'[b].tokens \subseteq DOMAIN folded'
                          /\ input'.all => \A x, y \in Annotations(blocks[b].tokens)' : x = y
        BY <2>1
      <3>1. /\ blocks[b].tokens \subseteq DOMAIN folded
            /\ input.all => \A x, y \in Annotations(blocks[b].tokens) : x = y
        BY DEF BlockInv
      <3>2. Annotations(blocks[b].tokens)' = Annotations(blocks[b].tokens)
        BY <2>8
      <3>3. Sorted(blocks[b])'
        BY <2>7
      <3> QED BY <2>1, <3>1, <3>2, <3>3
    <2> QED BY <2>1, <2>3, <2>6, <2>9, <2>10, Zenon DEF BlockInv
  <1> QED BY <1>2, <1>3, <1>4, <1>5 DEF Next

-----------------------------------------------------------------------------
(* Places.                                                                  *)

LEMMA HeldIsCovered ==
    ASSUME FoldInv, BodyInv, NEW i \in DOMAIN folded, NEW j, Held({i}, j)
    PROVE  Covers(folded[i], j) /\ j \in Nat
  <1>1. folded[i] \in FoldedTokens /\ Kept(folded[i])
    BY DEF FoldInv, BodyInv
  <1>2. j = folded[i].head \/ j \in folded[i].head + 1 .. folded[i].next - 1
    BY <1>1 DEF Held, Kept
  <1>3. folded[i].head \in Nat /\ folded[i].next \in Nat /\ folded[i].head < folded[i].next
    <2>1. folded[i].next \in folded[i].head + 1 .. Len(tokens) + 1
      BY <1>1 DEF Kept
    <2> QED BY <1>1, <2>1 DEF FoldedTokens
  <1> QED BY <1>2, <1>3 DEF Covers

\* No line is in two tokens.
LEMMA HeldOnce ==
    ASSUME FoldInv, BodyInv, NEW i \in DOMAIN folded, NEW k \in DOMAIN folded, NEW j, Held({i}, j), Held({k}, j)
    PROVE  i = k
  <1>1. Covers(folded[i], j) /\ Covers(folded[k], j) /\ j \in Nat
    BY HeldIsCovered
  <1>2. /\ folded[i].head \in Nat /\ folded[i].next \in Nat /\ folded[k].head \in Nat /\ folded[k].next \in Nat
        /\ i \in Nat /\ k \in Nat
    <2>1. folded \in Seq(FoldedTokens)
      BY DEF BodyInv
    <2>2. folded[i] \in FoldedTokens /\ folded[k] \in FoldedTokens /\ i \in Nat /\ k \in Nat
      BY <2>1
    <2> QED BY <2>2 DEF FoldedTokens
  <1>3. ~(i < k) /\ ~(k < i)
    <2>1. /\ i < k => folded[i].next <= folded[k].head
          /\ k < i => folded[k].next <= folded[i].head
      BY DEF FoldInv
    <2> QED BY <1>1, <1>2, <2>1 DEF Covers
  <1> QED BY <1>2, <1>3

PlaceNames == {"annotation", "property", "yaml", "enum", "prose"}
\* The tokens that a place may hold.
InPlace(blk, place) ==
    CASE place = "annotation" -> Annotations(blk.tokens)
      [] place = "property" -> blk.properties
      [] place = "yaml" -> blk.yaml
      [] place = "enum" -> blk.enumBody
      [] place = "prose" -> blk.tokens \intersect Texts0

LEMMA HeldInPlace ==
    ASSUME NEW blk, Sorted(blk), NEW place \in PlaceNames, NEW j, HeldIn(blk, place, j)
    PROVE  \E i \in InPlace(blk, place) : Held({i}, j)
  <1>1. CASE place = "annotation"
    <2>1. \E a \in Annotations(blk.tokens) : Held({a}, j)
      BY <1>1, Zenon DEF HeldIn
    <2>2. InPlace(blk, place) = Annotations(blk.tokens)
      BY <1>1 DEF InPlace
    <2> QED BY <2>1, <2>2
  <1>2. ASSUME NEW S, Held(S, j) PROVE \E i \in S : Held({i}, j)
    BY <1>2 DEF Held
  <1>3. CASE place = "property"
    <2>1. Held(InPlace(blk, place), j)
      BY <1>3 DEF HeldIn, InPlace
    <2> QED BY <1>2, <2>1
  <1>4. CASE place = "yaml"
    <2>1. Held(InPlace(blk, place), j)
      BY <1>4 DEF HeldIn, InPlace
    <2> QED BY <1>2, <2>1
  <1>5. CASE place = "enum"
    <2>1. Held(InPlace(blk, place), j)
      BY <1>5 DEF HeldIn, InPlace
    <2> QED BY <1>2, <2>1
  <1>6. CASE place = "prose"
    <2>1. Held(blk.prose.title \union blk.prose.description, j)
      BY <1>6 DEF HeldIn
    <2>2. InPlace(blk, place) = blk.tokens \intersect Texts0
      BY <1>6 DEF InPlace
    <2>3. Held(InPlace(blk, place), j)
      BY <2>1, <2>2 DEF Sorted
    <2> QED BY <1>2, <2>3
  <1> QED BY <1>1, <1>3, <1>4, <1>5, <1>6 DEF PlaceNames

KeywordKinds == {"keyword", "rawblock", "rawvalue"}

LEMMA PlacesApart ==
    ASSUME NEW blk, Sorted(blk), NEW p \in PlaceNames, NEW q \in PlaceNames,
           NEW i \in InPlace(blk, p), i \in InPlace(blk, q)
    PROVE  p = q /\ i \in blk.tokens
  <1>1. /\ Annotations(blk.tokens) = {k \in blk.tokens : k \in DOMAIN folded /\ folded[k].kind = "annotation"}
        /\ Keywords(blk.tokens) = {k \in blk.tokens : k \in DOMAIN folded /\ folded[k].kind \in KeywordKinds}
        /\ blk.tokens \intersect FoldedOf({"yaml"}) = {k \in blk.tokens : k \in DOMAIN folded /\ folded[k].kind = "yaml"}
        /\ blk.tokens \intersect Texts0 \subseteq {k \in blk.tokens : k \in DOMAIN folded /\ folded[k].kind = "text"}
    BY DEF Annotations, Keywords, FoldedOf, Texts0, KeywordKinds
  <1>2. /\ blk.properties \subseteq Keywords(blk.tokens) /\ blk.enumBody \subseteq Keywords(blk.tokens)
        /\ blk.properties = {} \/ blk.enumBody = {}
        /\ blk.yaml \subseteq blk.tokens \intersect FoldedOf({"yaml"})
    BY DEF Sorted
  <1>3. ASSUME NEW r \in PlaceNames, i \in InPlace(blk, r)
        PROVE  /\ i \in blk.tokens
               /\ r = "annotation" => folded[i].kind = "annotation"
               /\ r = "property" => folded[i].kind \in KeywordKinds /\ i \in blk.properties
               /\ r = "enum" => folded[i].kind \in KeywordKinds /\ i \in blk.enumBody
               /\ r = "yaml" => folded[i].kind = "yaml"
               /\ r = "prose" => folded[i].kind = "text"
    <2>1. /\ r = "annotation" => InPlace(blk, r) = Annotations(blk.tokens)
          /\ r = "property" => InPlace(blk, r) = blk.properties
          /\ r = "enum" => InPlace(blk, r) = blk.enumBody
          /\ r = "yaml" => InPlace(blk, r) = blk.yaml
          /\ r = "prose" => InPlace(blk, r) = blk.tokens \intersect Texts0
      BY DEF InPlace
    <2> QED BY <1>1, <1>2, <1>3, <2>1 DEF PlaceNames
  <1> QED BY <1>2, <1>3 DEF PlaceNames, KeywordKinds

\* No line is in two places.
LEMMA OnePlace ==
    ASSUME FoldInv, BodyInv, BlockInv, NEW j
    PROVE  Cardinality(Places(j)) <= 1
  <1>1. ASSUME NEW p \in Places(j), NEW q \in Places(j) PROVE p = q
    <2>1. /\ p \in (DOMAIN blocks) \X PlaceNames /\ q \in (DOMAIN blocks) \X PlaceNames
          /\ HeldIn(blocks[p[1]], p[2], j) /\ HeldIn(blocks[q[1]], q[2], j)
      BY DEF Places, PlaceNames
    <2>2. PICK b \in DOMAIN blocks, u \in PlaceNames : p = <<b, u>>
      BY <2>1
    <2>3. PICK c \in DOMAIN blocks, v \in PlaceNames : q = <<c, v>>
      BY <2>1
    <2>4. HeldIn(blocks[b], u, j) /\ HeldIn(blocks[c], v, j)
      BY <2>1, <2>2, <2>3
    <2>5. Sorted(blocks[b]) /\ Sorted(blocks[c])
      BY DEF BlockInv
    <2>6. PICK i \in InPlace(blocks[b], u) : Held({i}, j)
      BY <2>4, <2>5, HeldInPlace
    <2>7. PICK k \in InPlace(blocks[c], v) : Held({k}, j)
      BY <2>4, <2>5, HeldInPlace
    <2>8. i \in blocks[b].tokens /\ k \in blocks[c].tokens
      BY <2>5, PlacesApart
    <2>9. i = k
      <3>1. i \in DOMAIN folded /\ k \in DOMAIN folded
        BY <2>8 DEF BlockInv
      <3> QED BY <2>6, <2>7, <3>1, HeldOnce
    <2>10. b = c
      BY <2>8, <2>9 DEF BlockInv
    <2>11. u = v
      BY <2>5, <2>9, <2>10, PlacesApart
    <2> QED BY <2>2, <2>3, <2>10, <2>11
  <1>2. CASE Places(j) = {}
    <2>1. Cardinality({}) = 0
      BY FS_EmptySet
    <2>2. Cardinality(Places(j)) = 0
      BY <1>2, <2>1
    <2> QED BY <2>2
  <1>3. CASE Places(j) # {}
    <2>1. PICK p : p \in Places(j)
      BY <1>3
    <2>2. Places(j) = {p}
      BY <1>1, <2>1
    <2>3. Cardinality({p}) = 1
      BY FS_Singleton
    <2>4. Cardinality(Places(j)) = 1
      BY <2>2, <2>3
    <2> QED BY <2>4
  <1> QED BY <1>2, <1>3

\* No line is lost: it is in the place of the token that holds it, or the block says why it is not.
LEMMA NoneLost ==
    ASSUME LexInv, BodyInv, FoldInv, BlockInv, phase = "done", input.all, NEW j \in DOMAIN text,
           ~Contentless(j), Places(j) = {}
    PROVE  \E b \in DOMAIN blocks : Reported(b, j) \/ LeftOut(b, j)
  <1>0. j \in DOMAIN tokens /\ j < Cursor
    <2>1. /\ tokens \in Seq(TokenKind) /\ text \in Seq(Line) /\ Len(tokens) = Len(text)
          /\ Cursor > Len(tokens) /\ Cursor \in 1 .. Len(tokens) + 1
      BY DEF LexInv, FoldInv
    <2> QED BY <2>1
  <1>1. PICK i \in DOMAIN folded : Covers(folded[i], j)
    BY <1>0 DEF FoldInv
  <1>2. /\ Kept(folded[i]) /\ folded[i].kind \in FoldedKinds /\ folded[i].head \in Nat /\ folded[i].next \in Nat
        /\ j \in Nat /\ i \in DOMAIN folded
    <2>1. folded[i] \in FoldedTokens
      BY DEF BodyInv
    <2>2. j \in Nat
      BY <1>0 DEF LexInv
    <2> QED BY <2>1, <2>2 DEF FoldInv, FoldedTokens
  <1>3. tokens[j] \notin {"blank", "directive", "fence"} /\ (tokens[j] = "text" => "marker" \notin text[j].shapes)
    BY DEF Contentless
  <1>4. Held({i}, j)
    <2>1. folded[i].head = j \/ j \in folded[i].head + 1 .. folded[i].next - 1
      BY <1>1, <1>2 DEF Covers
    <2>2. folded[i].head = j \/ j \in folded[i].body
      BY <1>2, <1>3, <2>1 DEF Kept
    <2> QED BY <2>2 DEF Held
  <1>5. PICK b \in DOMAIN blocks : i \in blocks[b].tokens
    BY DEF BlockInv
  <1>6. Sorted(blocks[b])
    BY DEF BlockInv
  <1>7. ASSUME NEW place \in PlaceNames PROVE ~HeldIn(blocks[b], place, j)
    <2>1. HeldIn(blocks[b], place, j) => <<b, place>> \in Places(j)
      BY DEF Places, PlaceNames
    <2> QED BY <2>1
  <1>8. /\ ~HeldIn(blocks[b], "annotation", j) /\ ~HeldIn(blocks[b], "property", j) /\ ~HeldIn(blocks[b], "yaml", j)
        /\ ~HeldIn(blocks[b], "enum", j) /\ ~HeldIn(blocks[b], "prose", j)
    BY <1>7 DEF PlaceNames
  <1>9. ASSUME NEW S, i \in S PROVE Held(S, j)
    BY <1>4, <1>9 DEF Held
  <1>10. ASSUME \E d \in blocks[b].diagnostics : d.at = i PROVE Reported(b, j)
    BY <1>4, <1>10 DEF Reported
  <1>11. CASE folded[i].kind = "annotation"
    <2>1. i \in Annotations(blocks[b].tokens)
      BY <1>5, <1>11 DEF Annotations, FoldedOf
    <2>2. \A c \in Annotations(blocks[b].tokens) : i = c
      BY <2>1 DEF BlockInv
    <2>3. i <= i
      BY DEF BodyInv
    <2>4. HeldIn(blocks[b], "annotation", j)
      BY <1>4, <2>1, <2>2, <2>3 DEF HeldIn
    <2> QED BY <1>8, <2>4
  <1>12. CASE folded[i].kind \in KeywordKinds
    <2>1. i \in Keywords(blocks[b].tokens)
      BY <1>5, <1>12 DEF Keywords, FoldedOf, KeywordKinds
    <2>2. i \notin blocks[b].properties
      <3>1. HeldIn(blocks[b], "property", j) <=> Held(blocks[b].properties, j)
        BY DEF HeldIn
      <3> QED BY <1>8, <1>9, <3>1
    <2>3. i \notin blocks[b].enumBody
      <3>1. HeldIn(blocks[b], "enum", j) <=> Held(blocks[b].enumBody, j)
        BY DEF HeldIn
      <3> QED BY <1>8, <1>9, <3>1
    <2>4. \/ \E d \in blocks[b].diagnostics : d.at = i
          \/ /\ FamilyOf(blocks[b].kind) = "classifier"
             /\ LineOf(i).name \in {"in", "name"} \/ (LineOf(i).name = "enum" /\ blocks[b].enumBody # {})
      BY <1>6, <2>1, <2>2, <2>3 DEF Sorted
    <2>5. CASE \E d \in blocks[b].diagnostics : d.at = i
      BY <1>10, <2>5
    <2>6. CASE /\ FamilyOf(blocks[b].kind) = "classifier"
               /\ LineOf(i).name \in {"in", "name"} \/ (LineOf(i).name = "enum" /\ blocks[b].enumBody # {})
      <3>1. LeftOut(b, j)
        BY <1>4, <2>1, <2>6 DEF LeftOut
      <3> QED BY <3>1
    <2> QED BY <2>4, <2>5, <2>6
  <1>13. CASE folded[i].kind = "yaml"
    <2>1. i \in blocks[b].tokens \intersect FoldedOf({"yaml"})
      BY <1>5, <1>13 DEF FoldedOf
    <2>2. i \notin blocks[b].yaml
      <3>1. HeldIn(blocks[b], "yaml", j) <=> Held(blocks[b].yaml, j)
        BY DEF HeldIn
      <3> QED BY <1>8, <1>9, <3>1
    <2>3. \E d \in blocks[b].diagnostics : d.at = i
      BY <1>6, <2>1, <2>2 DEF Sorted
    <2> QED BY <1>10, <2>3
  <1>14. CASE folded[i].kind \in {"blank", "text", "dropped"}
    <2>1. folded[i].head = j
      BY <1>1, <1>2, <1>14 DEF Covers, Kept
    <2>2. folded[i].kind = "text" /\ tokens[j] = "text"
      BY <1>2, <1>3, <1>14, <2>1 DEF Kept
    <2>3. "marker" \notin LineOf(i).shapes
      BY <1>3, <2>1, <2>2 DEF LineOf
    <2>4. i \in blocks[b].tokens \intersect Texts0
      BY <1>5, <2>2, <2>3 DEF Texts0, FoldedOf
    <2>5. i \in blocks[b].prose.title \union blocks[b].prose.description
      BY <1>6, <2>4 DEF Sorted
    <2>6. HeldIn(blocks[b], "prose", j) <=> Held(blocks[b].prose.title \union blocks[b].prose.description, j)
      BY DEF HeldIn
    <2> QED BY <1>8, <1>9, <2>5, <2>6
  <1> QED BY <1>2, <1>11, <1>12, <1>13, <1>14 DEF FoldedKinds, KeywordKinds

CommentInv == LexInv /\ BodyInv /\ FoldInv /\ BlockInv

LEMMA CommentInvInit == Init => CommentInv
  <1> SUFFICES ASSUME Init PROVE CommentInv
    OBVIOUS
  <1>1. LexInv /\ BodyInv
    BY LexInvInit, BodyInvInit
  <1>2. folded = <<>> /\ blocks = <<>> /\ titles = {} /\ phase = "classify"
    BY DEF Init
  <1>3. FoldInv
    BY <1>1, <1>2, FoldInvEmpty
  <1>4. blocks \in Seq({}) /\ DOMAIN blocks = {}
    BY <1>2
  <1>5. BlockInv
    BY <1>2, <1>4 DEF BlockInv
  <1> QED BY <1>1, <1>3, <1>5 DEF CommentInv

(* Every line of every comment is in one place or accounted for, and what is taken as it stands is delimited. *)
THEOREM LinesAnswered == Spec => []LinesAreAnswered
  <1>1. CommentInv /\ [Next]_vars => CommentInv'
    <2> SUFFICES ASSUME CommentInv, [Next]_vars PROVE CommentInv'
      OBVIOUS
    <2>1. LexInv' /\ BodyInv'
      BY LexInvNext, BodyInvNext DEF CommentInv
    <2>2. FoldInv' /\ BlockInv'
      BY <2>1, FoldInvNext, BlockInvNext DEF CommentInv
    <2> QED BY <2>1, <2>2 DEF CommentInv
  <1>2. CommentInv => LinesAreAnswered
    <2> SUFFICES ASSUME CommentInv PROVE LinesAreAnswered
      OBVIOUS
    <2>1. VerbatimIsDelimited
      BY LexInvVerbatim DEF CommentInv
    <2>2. LinesAreKept
      <3> SUFFICES ASSUME phase = "done", NEW j \in DOMAIN text
                   PROVE  /\ Cardinality(Places(j)) <= 1
                          /\ input.all /\ ~Contentless(j) /\ Places(j) = {} =>
                                \E b \in DOMAIN blocks : Reported(b, j) \/ LeftOut(b, j)
        BY DEF LinesAreKept
      <3>1. Cardinality(Places(j)) <= 1
        BY OnePlace DEF CommentInv
      <3>2. input.all /\ ~Contentless(j) /\ Places(j) = {} =>
               \E b \in DOMAIN blocks : Reported(b, j) \/ LeftOut(b, j)
        BY NoneLost DEF CommentInv
      <3> QED BY <3>1, <3>2
    <2> QED BY <2>1, <2>2 DEF LinesAreAnswered
  <1> QED BY <1>1, <1>2, CommentInvInit, PTL DEF Spec
================================================================================
