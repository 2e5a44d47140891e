---------------------------- MODULE AgentsProofs ----------------------------
(***************************************************************************)
(* Proofs about what the handlers compute, for any request: the chunks of  *)
(* F1 and F2, F3's blocks and its summary, F4's quiz, F5's terms and its   *)
(* adapter, F6's citations, and POST /api/tasks.                           *)
(***************************************************************************)
EXTENDS Agents, Induction

-----------------------------------------------------------------------------
(* The one request.                                                         *)

\* What has been answered is what the operation of the request computes.
OneRequest ==
    /\ request \in Requests
    /\ answered /\ request.op = "F1" => answer = segments_to_chunks(request.segments)
    /\ answered /\ request.op = "F2" => answer = pages_to_chunks(request.pages)
    /\ answered /\ request.op = "F3" => answer = summarize(request.length, request.valid)
    /\ answered /\ request.op = "F4" => answer = generate_test(request.questions)
    /\ answered /\ request.op = "F5" => answer \in _extract_terms(request.candidates, request.top_n)
    /\ answered /\ request.op = "NER" => answer = Session(request.calls)
    /\ answered /\ request.op = "F6" =>
          answer = recommend(request.corpus, request.query_dim, request.content)
    /\ answered /\ request.op = "POST" =>
          answer = create_task(request.uploads, request.ops_valid, request.stop)

LEMMA OneRequestCorrect == Spec => []OneRequest
<1>1. Init => OneRequest
  BY DEF Init, OneRequest
<1>2. OneRequest /\ [Next]_vars => OneRequest'
  <2> SUFFICES ASSUME OneRequest, [Next]_vars PROVE OneRequest'
    OBVIOUS
  <2> USE DEF OneRequest, Answer
  <2>1. CASE Transcribe
    BY <2>1 DEF Transcribe
  <2>2. CASE ExtractPages
    BY <2>2 DEF ExtractPages
  <2>3. CASE Summarize
    BY <2>3 DEF Summarize
  <2>4. CASE GenerateTest
    BY <2>4 DEF GenerateTest
  <2>5. CASE ExtractTerms
    BY <2>5 DEF ExtractTerms
  <2>6. CASE ExtractMany
    BY <2>6 DEF ExtractMany
  <2>7. CASE Recommend
    BY <2>7 DEF Recommend
  <2>8. CASE CreateTask
    BY <2>8 DEF CreateTask
  <2>9. CASE UNCHANGED vars
    BY <2>9 DEF vars
  <2>10. QED BY <2>1, <2>2, <2>3, <2>4, <2>5, <2>6, <2>7, <2>8, <2>9 DEF Next
<1>3. QED BY <1>1, <1>2, PTL DEF Spec

-----------------------------------------------------------------------------
(* F3: the blocks.                                                          *)

\* What division does.
LEMMA Division ==
    ASSUME NEW a \in Nat, NEW d \in Nat \ {0}
    PROVE  /\ a \div d \in Nat
           /\ (a \div d) * d <= a /\ a < (a \div d) * d + d
OBVIOUS

\* The quotient is the largest number that many times the divisor fits.
LEMMA Quotient ==
    ASSUME NEW a \in Nat, NEW d \in Nat \ {0}, NEW b \in Nat
    PROVE  b * d <= a <=> b <= a \div d
<1>1. PICK q \in Nat : q = a \div d /\ q * d <= a /\ a < q * d + d
  BY Division
<1>2. CASE b <= q
  <2>1. PICK e \in Nat : q = b + e
    BY <1>2
  <2>2. q * d = b * d + e * d /\ e * d >= 0
    BY <2>1
  <2>3. QED BY <1>1, <1>2, <2>2
<1>3. CASE q < b
  <2>1. PICK e \in Nat : b = q + 1 + e
    <3>1. b - q - 1 \in Nat /\ b = q + 1 + (b - q - 1)
      BY <1>3
    <3>2. QED BY <3>1
  <2>2. b * d = q * d + d + e * d /\ e * d >= 0
    BY <2>1
  <2>3. QED BY <1>1, <1>3, <2>2
<1>4. QED BY <1>2, <1>3

\* The smaller, and the larger, of two numbers.
LEMMA OfTwo ==
    ASSUME NEW a \in Int, NEW b \in Int
    PROVE  /\ Min({a, b}) = IF a <= b THEN a ELSE b
           /\ Max({a, b}) = IF a <= b THEN b ELSE a
<1>1. \E x \in {a, b} : \A y \in {a, b} : x <= y
  OBVIOUS
<1>2. \E x \in {a, b} : \A y \in {a, b} : x >= y
  OBVIOUS
<1>3. Min({a, b}) \in {a, b} /\ Min({a, b}) <= a /\ Min({a, b}) <= b
  BY <1>1 DEF Min
<1>4. Max({a, b}) \in {a, b} /\ Max({a, b}) >= a /\ Max({a, b}) >= b
  BY <1>2 DEF Max
<1>5. QED BY <1>3, <1>4

\* A block starts at least a character after the one before.
LEMMA SplitStep ==
    /\ Step \in Nat \ {0}
    /\ overlap < block_chars => Step = block_chars - overlap
<1>1. 1 \in Int /\ block_chars - overlap \in Int
  BY SummarizerAssumption
<1>2. Step = IF 1 <= block_chars - overlap THEN block_chars - overlap ELSE 1
  BY <1>1, OfTwo DEF Step
<1>3. QED BY <1>1, <1>2, SummarizerAssumption

\* BlocksCover of the one text.
Covers(length) ==
    LET blocks == _split(length) IN
    /\ \A b \in DOMAIN blocks : blocks[b].first <= blocks[b].last
                                /\ blocks[b].last < blocks[b].first + block_chars
    /\ \A i \in 1..length :
          \E b \in DOMAIN blocks :
             blocks[b].first <= i /\ Min({i + overlap, length}) <= blocks[b].last

LEMMA SplitCovers ==
    ASSUME overlap < block_chars, NEW length \in Nat
    PROVE  Covers(length)
<1> DEFINE blocks == _split(length)
           n == (length + Step - 1) \div Step
<1>1. Step = block_chars - overlap /\ Step \in Nat \ {0}
  BY SplitStep
<1>2. block_chars \in Nat /\ overlap \in Nat /\ length + Step - 1 \in Nat
  BY <1>1, SummarizerAssumption
<1>3. n \in Nat
  <2>1. QED BY <1>1, <1>2, Division
<1>4. DOMAIN blocks = 1..n
  BY DEF _split
<1>5. ASSUME NEW b \in 1..n
      PROVE  /\ (b - 1) * Step \in Nat /\ (b - 1) * Step < length
             /\ blocks[b].first = (b - 1) * Step + 1
             /\ blocks[b].last = IF (b - 1) * Step + block_chars <= length
                                 THEN (b - 1) * Step + block_chars ELSE length
  <2>1. b \in Nat /\ b - 1 \in Nat /\ b <= n
    BY <1>3
  <2>2. b * Step <= length + Step - 1
    BY <1>1, <1>2, <2>1, Quotient
  <2>3. b * Step = (b - 1) * Step + Step /\ (b - 1) * Step \in Nat
    BY <1>1, <2>1
  <2>4. (b - 1) * Step < length
    <3> DEFINE c == (b - 1) * Step
               d == b * Step
    <3>1. d <= length + Step - 1 /\ d = c + Step /\ c \in Nat
      BY <2>2, <2>3
    <3> HIDE DEF c, d
    <3>2. c < length
      BY <1>1, <3>1
    <3>3. QED BY <3>2 DEF c
  <2>5. /\ blocks[b].first = (b - 1) * Step + 1
        /\ blocks[b].last = Min({(b - 1) * Step + block_chars, length})
    BY DEF _split
  <2>6. (b - 1) * Step + block_chars \in Int /\ length \in Int
    BY <1>2, <2>3
  <2>7. QED BY <2>3, <2>4, <2>5, <2>6, OfTwo
<1> HIDE DEF blocks, n
<1>6. ASSUME NEW b \in DOMAIN blocks
      PROVE  blocks[b].first <= blocks[b].last /\ blocks[b].last < blocks[b].first + block_chars
  <2> DEFINE c == (b - 1) * Step
  <2>1. /\ c \in Nat /\ c < length /\ blocks[b].first = c + 1
        /\ blocks[b].last = IF c + block_chars <= length THEN c + block_chars ELSE length
    BY <1>4, <1>5
  <2> HIDE DEF c
  <2>2. QED BY <2>1, SummarizerAssumption
<1>7. ASSUME NEW i \in 1..length
      PROVE  \E b \in DOMAIN blocks :
                blocks[b].first <= i /\ Min({i + overlap, length}) <= blocks[b].last
  <2> DEFINE q == (i - 1) \div Step
             c == q * Step
             b == q + 1
  <2>1. i - 1 \in Nat /\ i \in Nat /\ i <= length
    OBVIOUS
  <2>2. q \in Nat /\ c <= i - 1 /\ i - 1 < c + Step
    BY <1>1, <2>1, Division
  <2>3. c \in Nat /\ b * Step = c + Step /\ b \in Nat /\ b - 1 = q
    <3> HIDE DEF q
    <3>1. QED BY <1>1, <2>2
  <2> HIDE DEF c, q
  <2>4. b * Step <= length + Step - 1
    BY <1>1, <2>1, <2>2, <2>3
  <2>5. b <= n
    BY <1>1, <1>2, <2>3, <2>4, Quotient DEF n
  <2>6. b \in 1..n
    BY <1>3, <2>2, <2>3, <2>5
  <2>7. (b - 1) * Step = c
    BY <2>3 DEF c
  <2>8. /\ blocks[b].first = c + 1
        /\ blocks[b].last = IF c + block_chars <= length THEN c + block_chars ELSE length
    BY <1>5, <2>6, <2>7
  <2>9. Min({i + overlap, length}) = IF i + overlap <= length THEN i + overlap ELSE length
    <3>1. i + overlap \in Int /\ length \in Int
      BY <1>2, <2>1
    <3>2. QED BY <3>1, OfTwo
  <2>10. blocks[b].first <= i /\ Min({i + overlap, length}) <= blocks[b].last
    BY <1>1, <1>2, <2>1, <2>2, <2>3, <2>8, <2>9
  <2>11. QED BY <1>4, <2>6, <2>10
<1>8. QED BY <1>6, <1>7 DEF Covers, blocks

\* F3 reads every character of a lecture of any length, and cuts no passage of as many
\* characters as two blocks share in all the blocks it comes up in: as long as two blocks
\* share less than a block, as the constructor's defaults do (summarizer.py:72).
THEOREM BlocksCoverText ==
    ASSUME overlap < block_chars
    PROVE  Spec => []BlocksCover
<1>1. OneRequest => BlocksCover
  <2> SUFFICES ASSUME OneRequest, request.op = "F3" PROVE BlocksCover
    BY DEF BlocksCover
  <2>1. request.length \in Nat
    BY AgentsAssumption DEF OneRequest
  <2>2. Covers(request.length)
    BY <2>1, SplitCovers
  <2>3. QED BY <2>2, Zenon DEF BlocksCover, Covers
<1>2. QED BY <1>1, OneRequestCorrect, PTL

-----------------------------------------------------------------------------
(* F3: the calls.                                                           *)

Call == [prompt : Nat, parsed : BOOLEAN]

\* Calls for the prompts of a set; a prompt that was answered is not put again, nor
\* any prompt more often than the retries allow.
Puts(calls, prompts) ==
    /\ calls \in Seq(Call)
    /\ \A i \in DOMAIN calls : calls[i].prompt \in prompts
    /\ \A i, j \in DOMAIN calls : i < j /\ calls[i].prompt = calls[j].prompt =>
          ~calls[i].parsed /\ j - i <= parse_retries

\* A prompt put `tries` times: only the last answer may parse.
Attempts(prompt, tries, heard) ==
    [k \in 1..tries |-> [prompt |-> prompt, parsed |-> heard /\ k = tries]]

\* A prompt is put at least once, and once more than the retries at most.
LEMMA Tried ==
    ASSUME NEW calls, NEW prompt, NEW valid
    PROVE  \E tries \in 1..(parse_retries + 1), heard \in BOOLEAN :
              parse_with_retry(calls, prompt, valid) = calls \o Attempts(prompt, tries, heard)
<1> DEFINE parsing == {k \in 1..(parse_retries + 1) : valid[Len(calls) + k]}
           tries == IF parsing = {} THEN parse_retries + 1 ELSE Min(parsing)
           heard == parsing # {}
<1>1. parse_with_retry(calls, prompt, valid)
        = calls \o [k \in 1..tries |-> [prompt |-> prompt, parsed |-> k \in parsing]]
  BY DEF parse_with_retry
<1>2. parse_retries \in Nat /\ parsing \in SUBSET (1..(parse_retries + 1))
  BY SummarizerAssumption
<1> HIDE DEF parsing
<1>3. CASE parsing = {}
  <2>1. tries \in 1..(parse_retries + 1)
    BY <1>2, <1>3
  <2>2. \A k \in 1..tries : (k \in parsing) = (heard /\ k = tries)
    BY <1>3
  <2> HIDE DEF tries, heard
  <2>3. [k \in 1..tries |-> [prompt |-> prompt, parsed |-> k \in parsing]]
          = Attempts(prompt, tries, heard)
    BY <2>2, Zenon DEF Attempts
  <2>4. heard \in BOOLEAN
    BY DEF heard
  <2>5. QED BY <1>1, <2>1, <2>3, <2>4
<1>4. CASE parsing # {}
  <2>1. parsing \in SUBSET Nat
    BY <1>2
  <2>2. PICK x \in parsing : \A y \in parsing : x <= y
    BY <1>4, <2>1, SmallestMember
  <2>3. Min(parsing) \in parsing /\ \A y \in parsing : Min(parsing) <= y
    BY <2>2 DEF Min
  <2>4. tries = Min(parsing)
    BY <1>4
  <2> HIDE DEF tries
  <2>5. tries \in 1..(parse_retries + 1) /\ tries \in parsing
    BY <1>2, <2>3, <2>4
  <2>6. ASSUME NEW k \in 1..tries PROVE (k \in parsing) = (heard /\ k = tries)
    <3>1. k \in Int /\ tries \in Int /\ k <= tries
      BY <1>2, <2>5
    <3>2. k \in parsing => tries <= k
      BY <2>3, <2>4
    <3>3. QED BY <1>4, <2>5, <3>1, <3>2
  <2> HIDE DEF heard
  <2>7. [k \in 1..tries |-> [prompt |-> prompt, parsed |-> k \in parsing]]
          = Attempts(prompt, tries, heard)
    BY <2>6, Zenon DEF Attempts
  <2>8. heard \in BOOLEAN
    BY DEF heard
  <2>9. QED BY <1>1, <2>5, <2>7, <2>8
<1>5. QED BY <1>3, <1>4

\* What comes after the calls made before.
Continue(all, calls, prompt, tries, heard) ==
    /\ all \in Seq(Call)
    /\ Len(all) = Len(calls) + tries
    /\ \A i \in 1..Len(calls) : all[i] = calls[i]
    /\ \A i \in (Len(calls) + 1)..(Len(calls) + tries) :
          all[i].prompt = prompt /\ (all[i].parsed <=> heard /\ i = Len(calls) + tries)

LEMMA TriedAfter ==
    ASSUME NEW calls \in Seq(Call), NEW prompt \in Nat, NEW valid
    PROVE  \E tries \in 1..(parse_retries + 1), heard \in BOOLEAN :
              Continue(parse_with_retry(calls, prompt, valid), calls, prompt, tries, heard)
<1> DEFINE all == parse_with_retry(calls, prompt, valid)
<1>0. PICK tries \in 1..(parse_retries + 1), heard \in BOOLEAN :
         all = calls \o Attempts(prompt, tries, heard)
  BY Tried
<1> HIDE DEF all
<1> DEFINE more == Attempts(prompt, tries, heard)
           m == Len(calls)
<1>1. tries \in Nat /\ m \in Nat
  BY SummarizerAssumption, LenProperties
<1>2. /\ more \in [1..tries -> Call]
      /\ \A k \in 1..tries : more[k].prompt = prompt /\ (more[k].parsed <=> heard /\ k = tries)
  BY DEF Attempts, Call
<1> HIDE DEF more
<1>3. more \in Seq(Call) /\ Len(more) = tries
  BY <1>1, <1>2
<1>4. /\ all \in Seq(Call) /\ Len(all) = m + tries
      /\ \A i \in 1..(m + tries) : all[i] = IF i <= m THEN calls[i] ELSE more[i - m]
  <2>1. all = calls \o more
    BY <1>0 DEF more
  <2>2. /\ calls \o more \in Seq(Call) /\ Len(calls \o more) = Len(calls) + Len(more)
        /\ \A i \in 1..(Len(calls) + Len(more)) :
              (calls \o more)[i] = IF i <= Len(calls) THEN calls[i] ELSE more[i - Len(calls)]
    BY <1>3, ConcatProperties
  <2>3. QED BY <1>3, <2>1, <2>2, Zenon
<1>5. \A i \in 1..m : all[i] = calls[i]
  BY <1>1, <1>4
<1>6. ASSUME NEW i \in (m + 1)..(m + tries)
      PROVE  all[i].prompt = prompt /\ (all[i].parsed <=> heard /\ i = m + tries)
  <2>1. i - m \in 1..tries /\ (i - m = tries <=> i = m + tries) /\ ~(i <= m) /\ i \in 1..(m + tries)
    BY <1>1
  <2>2. all[i] = more[i - m]
    BY <1>4, <2>1
  <2>3. QED BY <1>2, <2>1, <2>2
<1>7. Continue(all, calls, prompt, tries, heard)
  BY <1>4, <1>5, <1>6 DEF Continue
<1>8. QED BY <1>7 DEF all

\* Putting another prompt keeps the calls in order.
LEMMA PutsNext ==
    ASSUME NEW prompts \in SUBSET Nat, NEW calls, Puts(calls, prompts),
           NEW prompt \in Nat \ prompts, NEW valid
    PROVE  LET all == parse_with_retry(calls, prompt, valid) IN
           /\ Puts(all, prompts \cup {prompt})
           /\ Range(calls) \subseteq Range(all)
           /\ \A call \in Range(all) : call.prompt # prompt => call \in Range(calls)
           /\ \E call \in Range(all) : call.prompt = prompt
           /\ Last(all).parsed <=> [prompt |-> prompt, parsed |-> TRUE] \in Range(all)
<1> DEFINE all == parse_with_retry(calls, prompt, valid)
           m == Len(calls)
<1>2. parse_retries \in Nat /\ calls \in Seq(Call) /\ prompt \in Nat
  BY SummarizerAssumption DEF Puts
<1>1. PICK tries \in 1..(parse_retries + 1), heard \in BOOLEAN :
         Continue(all, calls, prompt, tries, heard)
  BY <1>2, TriedAfter
<1> HIDE DEF all
<1>3. /\ all \in Seq(Call)
      /\ Len(all) = m + tries
      /\ \A i \in 1..m : all[i] = calls[i]
      /\ \A i \in (m + 1)..(m + tries) :
            all[i].prompt = prompt /\ (all[i].parsed <=> heard /\ i = m + tries)
  BY <1>1 DEF Continue
<1>4. /\ tries \in Nat /\ tries >= 1 /\ tries <= parse_retries + 1 /\ m \in Nat
      /\ DOMAIN calls = 1..m /\ DOMAIN all = 1..(m + tries)
  BY <1>2, <1>3, LenProperties
<1>8. \A i \in 1..m : i \in 1..(m + tries) /\ all[i] = calls[i] /\ all[i].prompt \in prompts
  BY <1>4, <1>3 DEF Puts
<1>9. \A i \in 1..(m + tries) : i \in 1..m \/ i \in (m + 1)..(m + tries)
  BY <1>4
<1>10. Puts(all, prompts \cup {prompt})
  <2>1. \A i \in DOMAIN all : all[i].prompt \in prompts \cup {prompt}
    BY <1>3, <1>4, <1>8, <1>9
  <2>2. ASSUME NEW i \in DOMAIN all, NEW j \in DOMAIN all,
               i < j, all[i].prompt = all[j].prompt
        PROVE  ~all[i].parsed /\ j - i <= parse_retries
    <3>1. CASE i \in 1..m /\ j \in 1..m
      BY <1>4, <1>8, <2>2, <3>1 DEF Puts
    <3>2. CASE i \in (m + 1)..(m + tries) /\ j \in (m + 1)..(m + tries)
      <4>1. i # m + tries /\ j - i <= parse_retries
        BY <1>2, <1>4, <2>2, <3>2
      <4>2. QED BY <1>3, <3>2, <4>1
    <3>3. CASE i \in 1..m /\ j \in (m + 1)..(m + tries)
      BY <1>3, <1>8, <2>2, <3>3
    <3>4. CASE i \in (m + 1)..(m + tries) /\ j \in 1..m
      BY <1>4, <2>2, <3>4
    <3>5. QED BY <1>3, <1>4, <1>9, <3>1, <3>2, <3>3, <3>4
  <2>3. QED BY <1>3, <1>4, <2>1, <2>2 DEF Puts
<1>11. Range(calls) \subseteq Range(all)
  BY <1>3, <1>4, <1>8 DEF Range
<1>12. ASSUME NEW call \in Range(all), call.prompt # prompt PROVE call \in Range(calls)
  <2>1. PICK i \in DOMAIN all : all[i] = call
    BY DEF Range
  <2>2. i \in 1..m
    BY <1>3, <1>4, <1>9, <1>12, <2>1
  <2>3. QED BY <1>4, <1>8, <2>1, <2>2 DEF Range
<1>13. m + tries \in DOMAIN all /\ m + tries \in (m + 1)..(m + tries)
  BY <1>4, <1>3
<1>14. \E call \in Range(all) : call.prompt = prompt
  BY <1>3, <1>13 DEF Range
<1>15. Last(all).parsed <=> [prompt |-> prompt, parsed |-> TRUE] \in Range(all)
  <2>1. Last(all).parsed <=> heard
    BY <1>3, <1>4, <1>13 DEF Last
  <2>2. ASSUME heard PROVE [prompt |-> prompt, parsed |-> TRUE] \in Range(all)
    <3>1. all[m + tries] \in Call
      BY <1>3, <1>4, <1>13, ElementOfSeq
    <3>2. all[m + tries].prompt = prompt /\ all[m + tries].parsed
      BY <1>3, <1>13, <2>2
    <3>3. all[m + tries] = [prompt |-> prompt, parsed |-> TRUE]
      BY <3>1, <3>2 DEF Call
    <3>4. QED BY <1>13, <3>3 DEF Range
  <2>3. ASSUME NEW i \in DOMAIN all, all[i] = [prompt |-> prompt, parsed |-> TRUE]
        PROVE  heard
    <3>1. all[i].prompt = prompt /\ all[i].parsed
      BY <2>3
    <3>2. i \in (m + 1)..(m + tries)
      BY <1>3, <1>4, <1>8, <1>9, <3>1
    <3>3. QED BY <1>3, <3>1, <3>2
  <2>4. QED BY <2>1, <2>2, <2>3 DEF Range
<1>16. QED BY <1>10, <1>11, <1>12, <1>14, <1>15 DEF all

\* The calls for the first `n` blocks, one block after the other.
Mapped(n, valid) ==
    FoldLeft(LAMBDA calls, prompt : parse_with_retry(calls, prompt, valid), <<>>, [b \in 1..n |-> b])

\* The equation that this fold solves.
Maps(f, order, valid, D) ==
    f = [s \in SUBSET D |->
            IF s = {} THEN <<>> ELSE parse_with_retry(f[s \ {Max(s)}], order[Max(s)], valid)]

\* It has a solution.
LEMMA MapsExists ==
    ASSUME NEW n \in Nat, NEW order, \A b \in 1..n : order[b] = b, NEW valid
    PROVE  \E f : Maps(f, order, valid, 1..n)
<1> DEFINE Acc == Seq(Call)
           step == [p \in Acc \X (1..n) |-> parse_with_retry(p[1], order[p[2]], valid)]
<1>1. step \in [Acc \X (1..n) -> Acc]
  <2>1. ASSUME NEW calls \in Acc, NEW b \in 1..n
        PROVE  parse_with_retry(calls, order[b], valid) \in Acc
    <3>1. order[b] \in Nat
      OBVIOUS
    <3>2. QED BY <3>1, TriedAfter DEF Continue
  <2>2. QED BY <2>1
<1>2. ASSUME NEW calls \in Acc, NEW b \in 1..n
      PROVE  step[<<calls, b>>] = parse_with_retry(calls, order[b], valid)
  OBVIOUS
<1>3. <<>> \in Acc
  OBVIOUS
<1> HIDE DEF step, Acc
<1>4. PICK f \in [SUBSET (1..n) -> Acc] : FoldsBy(f, <<>>, n, step)
  BY <1>1, <1>3, FoldExists
<1>5. ASSUME NEW s \in SUBSET (1..n)
      PROVE  f[s] = IF s = {} THEN <<>> ELSE parse_with_retry(f[s \ {Max(s)}], order[Max(s)], valid)
  <2>1. CASE s = {}
    BY <1>4, <2>1 DEF FoldsBy
  <2>2. CASE s # {}
    <3>1. Max(s) \in 1..n
      BY <2>2, LastOfSome
    <3>2. f[s \ {Max(s)}] \in Acc
      OBVIOUS
    <3>3. f[s] = step[<<f[s \ {Max(s)}], Max(s)>>]
      BY <1>4, <2>2, Zenon DEF FoldsBy
    <3>4. QED BY <1>2, <2>2, <3>1, <3>2, <3>3, Zenon
  <2>3. QED BY <2>1, <2>2
<1>6. f = [s \in SUBSET (1..n) |-> f[s]]
  OBVIOUS
<1>7. Maps(f, order, valid, 1..n)
  BY <1>5, <1>6, Zenon DEF Maps
<1>8. QED BY <1>7

\* The calls for the blocks are in order.
LEMMA MappedPuts ==
    ASSUME NEW n \in Nat, NEW valid
    PROVE  Puts(Mapped(n, valid), 1..n)
<1> DEFINE order == [b \in 1..n |-> b]
           f == CHOOSE g : Maps(g, order, valid, 1..n)
           S == {k \in Nat : k <= n => Puts(f[1..k], 1..k)}
<1>0. DOMAIN order = 1..n /\ \A b \in 1..n : order[b] = b
  OBVIOUS
<1>1. Mapped(n, valid) = (CHOOSE g : Maps(g, order, valid, DOMAIN order))[DOMAIN order]
  BY Zenon DEF Mapped, FoldLeft, MapThenFoldSet, Maps
<1> HIDE DEF order
<1>2. Mapped(n, valid) = f[1..n]
  BY <1>0, <1>1, Zenon
<1>3. Maps(f, order, valid, 1..n)
  BY <1>0, MapsExists, Zenon
<1> HIDE DEF f
<1>4. \A s \in SUBSET (1..n) :
         f[s] = IF s = {} THEN <<>> ELSE parse_with_retry(f[s \ {Max(s)}], order[Max(s)], valid)
  BY <1>3, Zenon DEF Maps
<1>5. 0 \in S
  <2>1. 1..0 = {} /\ {} \in SUBSET (1..n)
    OBVIOUS
  <2>2. f[1..0] = <<>>
    BY <1>4, <2>1
  <2>3. Puts(<<>>, 1..0)
    BY DEF Puts
  <2>4. QED BY <2>2, <2>3
<1>6. ASSUME NEW k \in Nat, k < n, k \in S PROVE k + 1 \in S
  <2>1. /\ Max(1..(k + 1)) = k + 1 /\ 1..(k + 1) \ {k + 1} = 1..k /\ 1..(k + 1) # {}
    BY LastOfFirst
  <2>2. 1..(k + 1) \in SUBSET (1..n) /\ k + 1 \in 1..n
    BY <1>6
  <2>3. f[1..(k + 1)] = parse_with_retry(f[1..k], k + 1, valid)
    <3>1. order[k + 1] = k + 1
      BY <1>0, <2>2
    <3>2. QED BY <1>4, <2>1, <2>2, <3>1, Zenon
  <2>4. Puts(f[1..k], 1..k)
    BY <1>6
  <2>5. 1..k \in SUBSET Nat /\ k + 1 \in Nat \ (1..k)
    OBVIOUS
  <2>6. Puts(f[1..(k + 1)], (1..k) \cup {k + 1})
    <3> DEFINE prompts == 1..k
               prompt == k + 1
               calls == f[1..k]
    <3>1. prompts \in SUBSET Nat /\ prompt \in Nat \ prompts /\ Puts(calls, prompts)
      BY <2>4, <2>5
    <3> HIDE DEF prompts, prompt, calls
    <3>2. Puts(parse_with_retry(calls, prompt, valid), prompts \cup {prompt})
      BY <3>1, PutsNext
    <3>3. QED BY <2>3, <3>2 DEF prompts, prompt, calls
  <2>7. (1..k) \cup {k + 1} = 1..(k + 1)
    BY <2>1, <2>2
  <2>8. Puts(f[1..(k + 1)], 1..(k + 1))
    BY <2>6, <2>7
  <2>9. QED BY <2>8 DEF S
<1>7. n \in S
  <2> HIDE DEF S
  <2>1. QED BY <1>5, <1>6, InductiveUpTo
<1>8. n <= n
  OBVIOUS
<1>9. QED BY <1>2, <1>7, <1>8

\* What F3 makes of the calls for the blocks.
SummaryOf(mapped, n, valid) ==
    LET partials == {b \in 1..n : [prompt |-> b, parsed |-> TRUE] \in Range(mapped)}
        all      == parse_with_retry(mapped, Reduction, valid)
    IN  IF Cardinality(partials) <= 1
        THEN [calls |-> mapped, summary |-> partials]
        ELSE [calls |-> all, summary |-> reduce(partials, all)]

Asked(calls) == {call.prompt : call \in Range(calls)}

Parsed(calls) == {call.prompt : call \in {c \in Range(calls) : c.parsed}}

\* AnyAnswerCounts of the one answer.
Counts(calls, summary) ==
    LET heard == Parsed(calls) \ {Reduction}
        first == {b \in heard : \A h \in heard : b <= h}
    IN  /\ summary = IF Reduction \in Asked(calls) \ Parsed(calls) THEN first ELSE heard
        /\ \A i, j \in DOMAIN calls : i < j /\ calls[i].prompt = calls[j].prompt =>
              ~calls[i].parsed /\ j - i <= parse_retries

LEMMA SummaryCounts ==
    ASSUME NEW n \in Nat, NEW mapped, Puts(mapped, 1..n), NEW valid
    PROVE  LET made == SummaryOf(mapped, n, valid) IN Counts(made.calls, made.summary)
<1> DEFINE partials == {b \in 1..n : [prompt |-> b, parsed |-> TRUE] \in Range(mapped)}
           all == parse_with_retry(mapped, Reduction, valid)
<1>1. ASSUME NEW call \in Range(mapped)
      PROVE  call \in Call /\ call.prompt \in 1..n /\ call.prompt # Reduction
  BY ElementOfSeq, LenProperties DEF Puts, Range, Reduction
<1>2. Parsed(mapped) = partials
  <2>1. ASSUME NEW call \in Range(mapped), call.parsed PROVE call.prompt \in partials
    <3>1. call = [prompt |-> call.prompt, parsed |-> TRUE]
      BY <1>1, <2>1 DEF Call
    <3>2. QED BY <1>1, <3>1
  <2>2. ASSUME NEW b \in partials PROVE b \in Parsed(mapped)
    <3> DEFINE call == [prompt |-> b, parsed |-> TRUE]
    <3>1. call \in Range(mapped) /\ call.parsed /\ call.prompt = b
      OBVIOUS
    <3>2. QED BY <3>1 DEF Parsed
  <2>3. QED BY <2>1, <2>2 DEF Parsed
<1>3. Reduction \notin partials
  BY DEF Reduction
<1>4. CASE Cardinality(partials) <= 1
  <2>1. Reduction \notin Asked(mapped)
    BY <1>1 DEF Asked
  <2>2. SummaryOf(mapped, n, valid) = [calls |-> mapped, summary |-> partials]
    BY <1>4 DEF SummaryOf
  <2>3. partials = Parsed(mapped) \ {Reduction}
    BY <1>2, <1>3
  <2>4. \A i, j \in DOMAIN mapped : i < j /\ mapped[i].prompt = mapped[j].prompt =>
           ~mapped[i].parsed /\ j - i <= parse_retries
    BY DEF Puts
  <2>5. partials = IF Reduction \in Asked(mapped) \ Parsed(mapped)
                   THEN {b \in partials : \A h \in partials : b <= h} ELSE partials
    BY <2>1
  <2> HIDE DEF partials
  <2>6. Counts(mapped, partials)
    BY <2>3, <2>4, <2>5 DEF Counts
  <2>7. QED BY <2>2, <2>6
<1>5. CASE ~(Cardinality(partials) <= 1)
  <2>1. 1..n \in SUBSET Nat /\ Reduction \in Nat \ (1..n)
    BY DEF Reduction
  <2>2. /\ Puts(all, (1..n) \cup {Reduction})
        /\ Range(mapped) \subseteq Range(all)
        /\ \A call \in Range(all) : call.prompt # Reduction => call \in Range(mapped)
        /\ \E call \in Range(all) : call.prompt = Reduction
        /\ Last(all).parsed <=> [prompt |-> Reduction, parsed |-> TRUE] \in Range(all)
    BY <2>1, PutsNext
  <2>3. SummaryOf(mapped, n, valid) = [calls |-> all, summary |-> reduce(partials, all)]
    BY <1>5 DEF SummaryOf
  <2> HIDE DEF all
  <2>4. partials = Parsed(all) \ {Reduction}
    <3>1. Parsed(all) \ {Reduction} = Parsed(mapped)
      BY <1>1, <2>2 DEF Parsed
    <3>2. QED BY <1>2, <3>1
  <2>5. Reduction \in Asked(all)
    BY <2>2 DEF Asked
  <2>6. Reduction \in Parsed(all) <=> Last(all).parsed
    <3>1. ASSUME NEW call \in Range(all), call.parsed, call.prompt = Reduction
          PROVE  [prompt |-> Reduction, parsed |-> TRUE] \in Range(all)
      <4>1. call \in Call
        BY <2>2, ElementOfSeq, LenProperties DEF Puts, Range
      <4>2. call = [prompt |-> Reduction, parsed |-> TRUE]
        BY <3>1, <4>1 DEF Call
      <4>3. QED BY <4>2
    <3>2. ASSUME [prompt |-> Reduction, parsed |-> TRUE] \in Range(all)
          PROVE  Reduction \in Parsed(all)
      <4> DEFINE call == [prompt |-> Reduction, parsed |-> TRUE]
      <4>1. call \in Range(all) /\ call.parsed /\ call.prompt = Reduction
        BY <3>2
      <4> HIDE DEF call
      <4>2. QED BY <4>1 DEF Parsed
    <3>3. QED BY <2>2, <3>1, <3>2 DEF Parsed
  <2>7. {Min(partials)} = {b \in partials : \A h \in partials : b <= h}
    <3>1. partials \in SUBSET Nat /\ partials # {}
      BY <1>5, FS_EmptySet
    <3> HIDE DEF partials
    <3>2. PICK x \in partials : \A y \in partials : x <= y
      BY <3>1, SmallestMember
    <3>3. Min(partials) \in partials /\ \A y \in partials : Min(partials) <= y
      BY <3>2 DEF Min
    <3>4. ASSUME NEW b \in partials, \A h \in partials : b <= h PROVE b = Min(partials)
      <4>1. b <= Min(partials) /\ Min(partials) <= b /\ b \in Nat /\ Min(partials) \in Nat
        BY <3>1, <3>3, <3>4
      <4>2. QED BY <4>1
    <3>5. QED BY <3>3, <3>4
  <2> HIDE DEF partials
  <2>8. reduce(partials, all)
          = IF Reduction \in Asked(all) \ Parsed(all)
            THEN {b \in partials : \A h \in partials : b <= h} ELSE partials
    BY <2>5, <2>6, <2>7 DEF reduce
  <2>9. \A i, j \in DOMAIN all : i < j /\ all[i].prompt = all[j].prompt =>
           ~all[i].parsed /\ j - i <= parse_retries
    BY <2>2 DEF Puts
  <2>10. Counts(all, reduce(partials, all))
    BY <2>4, <2>8, <2>9 DEF Counts
  <2>11. QED BY <2>3, <2>10
<1>6. QED BY <1>4, <1>5

LEMMA SummarizeCounts ==
    ASSUME NEW length \in Nat, NEW valid
    PROVE  LET made == summarize(length, valid) IN Counts(made.calls, made.summary)
<1>1. CASE length = 0
  <2>1. summarize(length, valid) = [calls |-> <<>>, summary |-> {}]
    BY <1>1 DEF summarize, Refused
  <2>2. QED BY <2>1 DEF Counts, Asked, Parsed, Range
<1>2. CASE length # 0
  <2> DEFINE n == IF length <= block_chars THEN 1 ELSE Len(_split(length))
  <2>1. n \in Nat
    <3>1. Step \in Nat \ {0}
      BY SplitStep
    <3> DEFINE q == (length + Step - 1) \div Step
    <3>2. q \in Nat
      <4>1. length + Step - 1 \in Nat
        BY <3>1
      <4>2. QED BY <3>1, <4>1, Division
    <3>3. DOMAIN _split(length) = 1..q
      BY DEF _split
    <3> HIDE DEF q
    <3>4. Len(_split(length)) = q
      BY <3>2, <3>3
    <3>5. QED BY <3>2, <3>4
  <2>2. summarize(length, valid) = SummaryOf(Mapped(n, valid), n, valid)
    BY <1>2, Zenon DEF summarize, _summarize, SummaryOf, Mapped
  <2> HIDE DEF n
  <2>3. QED BY <2>1, <2>2, MappedPuts, SummaryCounts
<1>3. QED BY <1>1, <1>2

\* F3's summary rests on every block the model answered, on the first of them if it would
\* not reduce them, and no prompt is put again once it was answered, nor more often than
\* the retries allow: for a text of any length and any answers of the model
\* (summarizer.py:105, _llm_json.py:25).
THEOREM AnyAnswerCountsText == Spec => []AnyAnswerCounts
<1>1. OneRequest => AnyAnswerCounts
  <2> SUFFICES ASSUME OneRequest, answered, request.op = "F3" PROVE AnyAnswerCounts
    BY DEF AnyAnswerCounts, Answered
  <2>1. request.length \in Nat /\ answer = summarize(request.length, request.valid)
    BY AgentsAssumption DEF OneRequest
  <2>2. Counts(answer.calls, answer.summary)
    BY <2>1, SummarizeCounts
  <2>3. QED BY <2>2, Zenon DEF AnyAnswerCounts, Counts, Asked, Parsed
<1>2. QED BY <1>1, OneRequestCorrect, PTL

-----------------------------------------------------------------------------
(* POST /api/tasks.                                                         *)

Path == Nat \X (STRING \cup {"file"})

Row == [index : Nat, path : Path, type : {"audio", "pdf", "image", "text"}]

\* What is on disk: for some paths, which upload and how much of it.
Files == UNION {[paths -> [upload : Nat, bytes : Int]] : paths \in SUBSET Path}

\* What the handler works on.
Handling ==
    [code : {202, 400, 413, 500}, rows : SUBSET Row, submitted : BOOLEAN, disk : Files]

\* How much of an upload is written, and what its document is, is well defined.
LEMMA UploadTypes ==
    ASSUME NEW upload \in Upload, NEW index \in Nat
    PROVE  /\ _safe_destination(upload, index) \in Path
           /\ _safe_destination(upload, index)[1] = index
           /\ _detect_document_type(upload) \in {"audio", "pdf", "image", "text"}
           /\ _save_upload(upload.size) \in Int
           /\ upload.size <= MAX_UPLOAD_BYTES => _save_upload(upload.size) = upload.size
<1>1. upload.size \in Nat /\ upload.name \in STRING
  BY DEF Upload
<1>2. MAX_UPLOAD_BYTES \in Nat /\ MAX_UPLOAD_BYTES % UPLOAD_CHUNK_BYTES \in Int
  BY RestApiAssumption
<1>3. /\ _save_upload(upload.size) \in Int
      /\ upload.size <= MAX_UPLOAD_BYTES => _save_upload(upload.size) = upload.size
  BY <1>1, <1>2 DEF _save_upload
<1>4. _safe_destination(upload, index) \in Path /\ _safe_destination(upload, index)[1] = index
  <2> DEFINE name == IF upload.name = "" THEN "file" ELSE upload.name
  <2>1. name \in STRING \cup {"file"}
    BY <1>1
  <2>2. _safe_destination(upload, index) = <<index, name>>
    BY DEF _safe_destination
  <2> HIDE DEF name
  <2>3. <<index, name>> \in Path /\ <<index, name>>[1] = index
    BY <2>1 DEF Path
  <2>4. QED BY <2>2, <2>3
<1>5. _detect_document_type(upload) \in {"audio", "pdf", "image", "text"}
  BY DEF _detect_document_type
<1>6. QED BY <1>3, <1>4, <1>5

\* What comes of the next upload: nothing once the handling has failed; else there is a
\* file at its path, and a row if the file is whole.
Follows(next, task, upload, index, stop) ==
    LET path  == _safe_destination(upload, index)
        whole == upload.size <= MAX_UPLOAD_BYTES /\ stop.at # index
    IN  /\ next \in Handling
        /\ next.submitted = task.submitted
        /\ task.code # 202 => next = task
        /\ task.code = 202 =>
              /\ next.code = 202 <=> whole
              /\ next.code # 400
              /\ whole => next.rows = task.rows \cup
                              {[index |-> index, path |-> path,
                                type |-> _detect_document_type(upload)]}
              /\ whole => next.disk[path] = [upload |-> index, bytes |-> upload.size]
              /\ DOMAIN next.disk = DOMAIN task.disk \cup {path}
              /\ \A p \in DOMAIN task.disk \ {path} : next.disk[p] = task.disk[p]

LEMMA SaveNextDoes ==
    ASSUME NEW task \in Handling, NEW upload \in Upload, NEW index \in Nat,
           NEW stop \in [at : Nat, bytes : Nat]
    PROVE  Follows(SaveNext(task, upload, index, stop), task, upload, index, stop)
<1> DEFINE next == SaveNext(task, upload, index, stop)
           path == _safe_destination(upload, index)
           whole == upload.size <= MAX_UPLOAD_BYTES /\ stop.at # index
           bytes == IF stop.at = index THEN Min({stop.bytes, _save_upload(upload.size)})
                    ELSE _save_upload(upload.size)
           disk == [p \in DOMAIN task.disk \cup {path} |->
                       IF p = path THEN [upload |-> index, bytes |-> bytes] ELSE task.disk[p]]
           row == [index |-> index, path |-> path, type |-> _detect_document_type(upload)]
           code == IF whole THEN 202 ELSE IF stop.at = index THEN 500 ELSE 413
           rows == IF whole THEN task.rows \cup {row} ELSE task.rows
<1>1. path \in Path /\ row \in Row
  BY UploadTypes DEF Row
<1>2. bytes \in Int /\ (whole => bytes = upload.size)
  BY UploadTypes, OfTwo
<1>3. CASE task.code # 202
  <2>1. next = task
    BY <1>3 DEF SaveNext
  <2>2. QED BY <1>3, <2>1 DEF Follows
<1>4. CASE task.code = 202
  <2>1. next = [task EXCEPT !.disk = disk, !.code = code, !.rows = rows]
    BY <1>4 DEF SaveNext
  <2>2. disk \in Files
    <3>1. PICK paths \in SUBSET Path : task.disk \in [paths -> [upload : Nat, bytes : Int]]
      BY DEF Handling, Files
    <3> HIDE DEF path, bytes
    <3>2. disk \in [paths \cup {path} -> [upload : Nat, bytes : Int]]
      BY <1>1, <1>2, <3>1
    <3>3. paths \cup {path} \in SUBSET Path
      BY <1>1
    <3>4. QED BY <3>2, <3>3 DEF Files
  <2>3. /\ disk[path] = [upload |-> index, bytes |-> bytes]
        /\ DOMAIN disk = DOMAIN task.disk \cup {path}
        /\ \A p \in DOMAIN task.disk \ {path} : disk[p] = task.disk[p]
    OBVIOUS
  <2>4. code \in {202, 413, 500} /\ (code = 202 <=> whole)
    OBVIOUS
  <2>5. rows \in SUBSET Row /\ (whole => rows = task.rows \cup {row})
    BY <1>1 DEF Handling
  <2> HIDE DEF disk, code, rows
  <2>6. /\ next \in Handling
        /\ next.disk = disk /\ next.code = code /\ next.rows = rows
        /\ next.submitted = task.submitted
    <3>1. disk \in Files /\ rows \in SUBSET Row /\ code \in {202, 400, 413, 500}
      BY <2>2, <2>4, <2>5
    <3> HIDE DEF next
    <3>2. next = [code |-> code, rows |-> rows, submitted |-> task.submitted, disk |-> disk]
      BY <2>1 DEF Handling
    <3>3. task.submitted \in BOOLEAN
      BY DEF Handling
    <3>4. QED BY <3>1, <3>2, <3>3 DEF Handling
  <2> HIDE DEF next, path, bytes, whole, row
  <2>7. whole => next.disk[path] = [upload |-> index, bytes |-> upload.size]
    BY <1>2, <2>3, <2>6
  <2>8. /\ next.code = 202 <=> whole
        /\ next.code # 400
        /\ whole => next.rows = task.rows \cup {row}
    BY <2>4, <2>5, <2>6
  <2>9. /\ DOMAIN next.disk = DOMAIN task.disk \cup {path}
        /\ \A p \in DOMAIN task.disk \ {path} : next.disk[p] = task.disk[p]
    BY <2>3, <2>6
  <2>10. QED BY <1>4, <2>6, <2>7, <2>8, <2>9 DEF Follows, next, path, whole, row
<1>5. QED BY <1>3, <1>4

\* A row has the upload of its own place behind it, whole.
Backed(row, disk, uploads) ==
    /\ row.index \in DOMAIN uploads
    /\ row.path = _safe_destination(uploads[row.index], row.index)
    /\ row.path \in DOMAIN disk
    /\ disk[row.path] = [upload |-> row.index, bytes |-> uploads[row.index].size]
    /\ uploads[row.index].size <= MAX_UPLOAD_BYTES
    /\ row.type = _detect_document_type(uploads[row.index])

Indices(rows) == {row.index : row \in rows}

\* The state of the handling after `k` uploads.
SavedSoFar(task, uploads, k, rejected) ==
    /\ task \in Handling /\ ~task.submitted
    /\ task.code = 400 <=> rejected
    /\ rejected => task.rows = {} /\ DOMAIN task.disk = {}
    /\ task.code = 202 => /\ Indices(task.rows) = 1..k
                          /\ \A row \in task.rows : Backed(row, task.disk, uploads)

\* The next upload keeps that.
LEMMA SavedNext ==
    ASSUME NEW uploads \in Seq(Upload), NEW stop \in [at : Nat, bytes : Nat],
           NEW rejected \in BOOLEAN, NEW k \in Nat, k + 1 \in DOMAIN uploads,
           NEW task, SavedSoFar(task, uploads, k, rejected)
    PROVE  SavedSoFar(SaveNext(task, uploads[k + 1], k + 1, stop), uploads, k + 1, rejected)
<1> DEFINE upload == uploads[k + 1]
           index == k + 1
           next == SaveNext(task, upload, index, stop)
           path == _safe_destination(upload, index)
           row == [index |-> index, path |-> path, type |-> _detect_document_type(upload)]
           whole == upload.size <= MAX_UPLOAD_BYTES /\ stop.at # index
<1>1. upload \in Upload /\ index \in Nat /\ task \in Handling
  BY ElementOfSeq, LenProperties DEF SavedSoFar
<1>2. /\ next \in Handling
      /\ next.submitted = task.submitted
      /\ task.code # 202 => next = task
      /\ task.code = 202 =>
            /\ next.code = 202 <=> whole
            /\ next.code # 400
            /\ whole => next.rows = task.rows \cup {row}
            /\ whole => next.disk[path] = [upload |-> index, bytes |-> upload.size]
            /\ DOMAIN next.disk = DOMAIN task.disk \cup {path}
            /\ \A p \in DOMAIN task.disk \ {path} : next.disk[p] = task.disk[p]
  BY <1>1, SaveNextDoes DEF Follows
<1>3. path[1] = index
  BY <1>1, UploadTypes
<1> SUFFICES SavedSoFar(next, uploads, index, rejected)
  OBVIOUS
<1> HIDE DEF next
<1>4. CASE task.code # 202
  BY <1>2, <1>4 DEF SavedSoFar
<1>5. CASE task.code = 202 /\ ~whole
  BY <1>2, <1>5 DEF SavedSoFar
<1>6. CASE task.code = 202 /\ whole
  <2>1. next.rows = task.rows \cup {row} /\ row.index = index
    BY <1>2, <1>6
  <2>2. Indices(next.rows) = Indices(task.rows) \cup {index}
    BY <2>1 DEF Indices
  <2>3. Indices(next.rows) = 1..index
    <3>1. Indices(task.rows) = 1..k
      BY <1>6 DEF SavedSoFar
    <3>2. (1..k) \cup {k + 1} = 1..(k + 1)
      OBVIOUS
    <3>3. QED BY <2>2, <3>1, <3>2
  <2>4. ASSUME NEW r \in task.rows PROVE Backed(r, next.disk, uploads)
    <3>1. Backed(r, task.disk, uploads) /\ r.index \in 1..k
      BY <1>6 DEF SavedSoFar, Indices
    <3>2. r.index # index /\ r.index \in Nat /\ uploads[r.index] \in Upload
      BY <3>1, ElementOfSeq, LenProperties DEF Backed
    <3>3. r.path[1] = r.index
      BY <3>1, <3>2, UploadTypes DEF Backed
    <3>4. r.path # path
      BY <1>3, <3>2, <3>3
    <3>5. r.path \in DOMAIN next.disk /\ next.disk[r.path] = task.disk[r.path]
      BY <1>2, <1>6, <3>1, <3>4 DEF Backed
    <3>6. QED BY <3>1, <3>5 DEF Backed
  <2>5. Backed(row, next.disk, uploads)
    <3>1. /\ row.index = index /\ row.path = path
          /\ row.type = _detect_document_type(upload)
      OBVIOUS
    <3>2. path \in DOMAIN next.disk
          /\ next.disk[path] = [upload |-> index, bytes |-> upload.size]
      BY <1>2, <1>6
    <3> HIDE DEF row
    <3>3. QED BY <1>6, <3>1, <3>2 DEF Backed
  <2>6. \A r \in next.rows : Backed(r, next.disk, uploads)
    <3> HIDE DEF row
    <3>1. QED BY <2>1, <2>4, <2>5
  <2>7. next.code = 202 /\ ~next.submitted /\ next \in Handling /\ ~rejected
    BY <1>2, <1>6 DEF SavedSoFar
  <2>8. QED BY <2>3, <2>6, <2>7 DEF SavedSoFar
<1>7. QED BY <1>4, <1>5, <1>6

\* What has been saved when all uploads have been looked at.
Saved(new, uploads, stop) ==
    FoldLeft(LAMBDA task, i : SaveNext(task, uploads[i], i, stop), new, [i \in DOMAIN uploads |-> i])

\* The equation that this fold solves.
Saves(f, new, uploads, stop, order, D) ==
    f = [s \in SUBSET D |->
            IF s = {} THEN new
            ELSE SaveNext(f[s \ {Max(s)}], uploads[order[Max(s)]], order[Max(s)], stop)]

\* It has a solution.
LEMMA SavesExists ==
    ASSUME NEW uploads \in Seq(Upload), NEW stop \in [at : Nat, bytes : Nat],
           NEW new \in Handling, NEW order, \A i \in 1..Len(uploads) : order[i] = i
    PROVE  \E f : Saves(f, new, uploads, stop, order, 1..Len(uploads))
<1> DEFINE n == Len(uploads)
           step == [p \in Handling \X (1..n) |-> SaveNext(p[1], uploads[order[p[2]]], order[p[2]], stop)]
<1>0. n \in Nat /\ \A i \in 1..n : uploads[i] \in Upload
  BY ElementOfSeq, LenProperties
<1>1. step \in [Handling \X (1..n) -> Handling]
  <2>1. ASSUME NEW task \in Handling, NEW i \in 1..n
        PROVE  SaveNext(task, uploads[order[i]], order[i], stop) \in Handling
    <3>1. order[i] = i /\ i \in Nat /\ uploads[i] \in Upload
      BY <1>0
    <3>2. Follows(SaveNext(task, uploads[i], i, stop), task, uploads[i], i, stop)
      BY <3>1, SaveNextDoes
    <3>3. SaveNext(task, uploads[i], i, stop) \in Handling
      BY <3>2, Zenon DEF Follows
    <3>4. QED BY <3>1, <3>3
  <2>2. QED BY <2>1
<1>2. ASSUME NEW task \in Handling, NEW i \in 1..n
      PROVE  step[<<task, i>>] = SaveNext(task, uploads[order[i]], order[i], stop)
  OBVIOUS
<1> HIDE DEF step, n
<1>4. PICK f \in [SUBSET (1..n) -> Handling] : FoldsBy(f, new, n, step)
  BY <1>0, <1>1, FoldExists
<1>5. ASSUME NEW s \in SUBSET (1..n)
      PROVE  f[s] = IF s = {} THEN new
                    ELSE SaveNext(f[s \ {Max(s)}], uploads[order[Max(s)]], order[Max(s)], stop)
  <2>1. CASE s = {}
    BY <1>4, <2>1 DEF FoldsBy
  <2>2. CASE s # {}
    <3>1. Max(s) \in 1..n
      BY <1>0, <2>2, LastOfSome
    <3>2. f[s \ {Max(s)}] \in Handling
      OBVIOUS
    <3>3. f[s] = step[<<f[s \ {Max(s)}], Max(s)>>]
      BY <1>4, <2>2, Zenon DEF FoldsBy
    <3>4. QED BY <1>2, <2>2, <3>1, <3>2, <3>3, Zenon
  <2>3. QED BY <2>1, <2>2
<1>6. f = [s \in SUBSET (1..n) |-> f[s]]
  OBVIOUS
<1>7. Saves(f, new, uploads, stop, order, 1..n)
  BY <1>5, <1>6, Zenon DEF Saves
<1>8. QED BY <1>7 DEF n

\* The uploads are saved one after the other.
LEMMA AllSaved ==
    ASSUME NEW uploads \in Seq(Upload), NEW stop \in [at : Nat, bytes : Nat],
           NEW rejected \in BOOLEAN, NEW new, SavedSoFar(new, uploads, 0, rejected)
    PROVE  SavedSoFar(Saved(new, uploads, stop), uploads, Len(uploads), rejected)
<1> DEFINE n == Len(uploads)
           order == [i \in DOMAIN uploads |-> i]
           f == CHOOSE g : Saves(g, new, uploads, stop, order, 1..n)
           S == {k \in Nat : k <= n => SavedSoFar(f[1..k], uploads, k, rejected)}
<1>0. n \in Nat /\ DOMAIN uploads = 1..n /\ DOMAIN order = 1..n /\ \A i \in 1..n : order[i] = i
  BY LenProperties
<1>1. Saved(new, uploads, stop)
        = (CHOOSE g : Saves(g, new, uploads, stop, order, DOMAIN order))[DOMAIN order]
  BY Zenon DEF Saved, FoldLeft, MapThenFoldSet, Saves
<1> HIDE DEF order
<1>2. Saved(new, uploads, stop) = f[1..n]
  BY <1>0, <1>1, Zenon
<1>3. Saves(f, new, uploads, stop, order, 1..n)
  <2>1. new \in Handling
    BY DEF SavedSoFar
  <2>2. \E g : Saves(g, new, uploads, stop, order, 1..n)
    BY <1>0, <2>1, SavesExists
  <2>3. QED BY <2>2, Zenon
<1> HIDE DEF f
<1>4. \A s \in SUBSET (1..n) :
         f[s] = IF s = {} THEN new
                ELSE SaveNext(f[s \ {Max(s)}], uploads[order[Max(s)]], order[Max(s)], stop)
  BY <1>3, Zenon DEF Saves
<1> HIDE DEF n
<1>5. 0 \in S
  <2>1. 1..0 = {} /\ {} \in SUBSET (1..n)
    OBVIOUS
  <2>2. f[1..0] = new
    BY <1>4, <2>1
  <2>3. QED BY <2>2
<1>6. ASSUME NEW k \in Nat, k < n, k \in S PROVE k + 1 \in S
  <2>1. Max(1..(k + 1)) = k + 1 /\ 1..(k + 1) \ {k + 1} = 1..k /\ 1..(k + 1) # {}
    BY LastOfFirst
  <2>2. 1..(k + 1) \in SUBSET (1..n) /\ k + 1 \in 1..n
    BY <1>0, <1>6
  <2>3. f[1..(k + 1)] = SaveNext(f[1..k], uploads[k + 1], k + 1, stop)
    <3>1. order[k + 1] = k + 1
      BY <1>0, <2>2
    <3>2. QED BY <1>4, <2>1, <2>2, <3>1, Zenon
  <2>4. SavedSoFar(f[1..k], uploads, k, rejected)
    BY <1>0, <1>6
  <2>5. k + 1 \in DOMAIN uploads
    BY <1>0, <2>2
  <2>6. SavedSoFar(f[1..(k + 1)], uploads, k + 1, rejected)
    <3> DEFINE task == f[1..k]
    <3>1. SavedSoFar(task, uploads, k, rejected)
      BY <2>4
    <3> HIDE DEF task
    <3>2. SavedSoFar(SaveNext(task, uploads[k + 1], k + 1, stop), uploads, k + 1, rejected)
      BY <2>5, <3>1, SavedNext
    <3>3. QED BY <2>3, <3>2 DEF task
  <2>7. QED BY <2>6
<1>7. n \in S
  <2> HIDE DEF S
  <2>1. QED BY <1>0, <1>5, <1>6, InductiveUpTo
<1>8. n <= n
  BY <1>0
<1>9. QED BY <1>2, <1>7, <1>8 DEF n

\* AllDocumentsOrNoTask of the one handling.
Complete(task, uploads) ==
    /\ Indices(task.rows) \in {{}, DOMAIN uploads}
    /\ task.submitted => Indices(task.rows) # {}
    /\ task.code = 202 <=> task.submitted
    /\ task.code \in {400, 413} => Indices(task.rows) = {}
    /\ task.code = 400 => DOMAIN task.disk = {}
    /\ \A row \in task.rows : Backed(row, task.disk, uploads) /\ row.type # "text"

LEMMA CreateCompletes ==
    ASSUME NEW uploads \in Seq(Upload), NEW ops_valid, NEW stop \in [at : Nat, bytes : Nat]
    PROVE  Complete(create_task(uploads, ops_valid, stop), uploads)
<1> DEFINE rejected == \/ uploads = <<>> \/ ~ops_valid
                       \/ \E i \in DOMAIN uploads : _detect_document_type(uploads[i]) = "text"
           new == [code |-> IF rejected THEN 400 ELSE 202, disk |-> [path \in {} |-> path],
                   rows |-> {}, submitted |-> FALSE]
           n == Len(uploads)
           saved == Saved(new, uploads, stop)
           task == Committed(saved, stop, n + 1)
           done == create_task(uploads, ops_valid, stop)
<1>0. n \in Nat /\ DOMAIN uploads = 1..n
  BY LenProperties
<1>1. rejected \in BOOLEAN
  OBVIOUS
<1>2. ASSUME ~rejected
      PROVE  n >= 1 /\ \A i \in 1..n : _detect_document_type(uploads[i]) # "text"
  BY <1>0, <1>2, EmptySeq
<1>3. done = IF task.code # 202 THEN task
             ELSE [task EXCEPT !.submitted = stop.at # n + 2,
                               !.code = IF stop.at = n + 2 THEN 500 ELSE 202]
  BY Zenon DEF create_task, Saved
<1> SUFFICES Complete(done, uploads)
  OBVIOUS
<1> HIDE DEF rejected, done
<1>4. SavedSoFar(new, uploads, 0, rejected)
  <2> DEFINE none == [path \in {} |-> path]
             code == IF rejected THEN 400 ELSE 202
  <2>1. none \in [{} -> [upload : Nat, bytes : Int]] /\ {} \in SUBSET Path
    OBVIOUS
  <2>2. new \in Handling
    <3>1. none \in Files
      BY <2>1 DEF Files
    <3>2. new = [code |-> code, disk |-> none, rows |-> {}, submitted |-> FALSE]
      OBVIOUS
    <3>3. code \in {202, 400, 413, 500}
      OBVIOUS
    <3> HIDE DEF new, none, code
    <3>4. QED BY <3>1, <3>2, <3>3 DEF Handling
  <2>3. Indices({}) = 1..0
    BY DEF Indices
  <2>4. /\ ~new.submitted /\ new.rows = {} /\ DOMAIN new.disk = {}
        /\ new.code = 400 <=> rejected
    OBVIOUS
  <2> HIDE DEF new
  <2>5. QED BY <2>2, <2>3, <2>4 DEF SavedSoFar
<1> HIDE DEF new
<1>5. SavedSoFar(saved, uploads, n, rejected)
  BY <1>1, <1>4, AllSaved
<1> HIDE DEF saved
<1>6. CASE saved.code = 202 /\ stop.at # n + 1
  <2>1. task = saved
    BY <1>6 DEF Committed
  <2> DEFINE code == IF stop.at = n + 2 THEN 500 ELSE 202
  <2>2. done = [saved EXCEPT !.submitted = stop.at # n + 2, !.code = code]
    BY <1>3, <1>6, <2>1
  <2> DEFINE submitted == stop.at # n + 2
  <2>3. /\ done.code = code /\ done.submitted = submitted
        /\ done.rows = saved.rows /\ done.disk = saved.disk
    <3> HIDE DEF code, submitted
    <3>1. saved \in [code : {202, 400, 413, 500}, rows : SUBSET Row, submitted : BOOLEAN,
                     disk : Files]
      BY <1>5 DEF SavedSoFar, Handling
    <3>2. done = [saved EXCEPT !.submitted = submitted, !.code = code]
      BY <2>2 DEF code, submitted
    <3>3. done = [code |-> code, rows |-> saved.rows, submitted |-> submitted,
                  disk |-> saved.disk]
      BY <3>1, <3>2
    <3>4. QED BY <3>3
  <2>4. Indices(saved.rows) = 1..n /\ ~rejected
        /\ \A row \in saved.rows : Backed(row, saved.disk, uploads)
    BY <1>5, <1>6 DEF SavedSoFar
  <2>5. ASSUME NEW row \in saved.rows PROVE Backed(row, saved.disk, uploads) /\ row.type # "text"
    <3>1. Backed(row, saved.disk, uploads)
      BY <2>4
    <3>2. row.index \in 1..n /\ row.type = _detect_document_type(uploads[row.index])
      BY <1>0, <3>1 DEF Backed
    <3>3. QED BY <1>2, <2>4, <3>1, <3>2
  <2>6. 1..n # {}
    BY <1>0, <1>2, <2>4
  <2>7. Indices(done.rows) = DOMAIN uploads /\ Indices(done.rows) # {}
    BY <1>0, <2>3, <2>4, <2>6
  <2>8. \A row \in done.rows : Backed(row, done.disk, uploads) /\ row.type # "text"
    BY <2>3, <2>5
  <2>9. (done.code = 202 <=> done.submitted) /\ done.code \notin {400, 413}
    <3>1. CASE stop.at = n + 2
      <4>1. code = 500 /\ submitted = FALSE
        BY <3>1
      <4> HIDE DEF code, submitted
      <4>2. done.code = 500 /\ done.submitted = FALSE
        BY <2>3, <4>1
      <4>3. QED BY <4>2
    <3>2. CASE stop.at # n + 2
      <4>1. code = 202 /\ submitted = TRUE
        BY <3>2
      <4> HIDE DEF code, submitted
      <4>2. done.code = 202 /\ done.submitted = TRUE
        BY <2>3, <4>1
      <4>3. QED BY <4>2
    <3>3. QED BY <3>1, <3>2
  <2> HIDE DEF task, code, submitted
  <2>10. QED BY <2>7, <2>8, <2>9 DEF Complete
<1>7. CASE ~(saved.code = 202 /\ stop.at # n + 1)
  <2> DEFINE code == IF saved.code = 202 THEN 500 ELSE saved.code
  <2>1. task = [saved EXCEPT !.rows = {}, !.code = code]
    BY <1>7 DEF Committed
  <2>2. /\ task.code = code /\ task.rows = {} /\ ~task.submitted
        /\ task.disk = saved.disk
    <3> HIDE DEF code, task
    <3>1. /\ saved \in [code : {202, 400, 413, 500}, rows : SUBSET Row,
                        submitted : BOOLEAN, disk : Files]
          /\ ~saved.submitted
      BY <1>5 DEF SavedSoFar, Handling
    <3>2. task = [code |-> code, rows |-> {}, submitted |-> saved.submitted,
                  disk |-> saved.disk]
      BY <2>1, <3>1
    <3>3. QED BY <3>1, <3>2
  <2> HIDE DEF task
  <2>3. code \in {400, 413, 500} /\ (code = 400 => saved.code = 400)
    BY <1>5 DEF SavedSoFar, Handling
  <2>4. done = task
    BY <1>3, <2>2, <2>3
  <2>5. code = 400 => DOMAIN task.disk = {}
    BY <1>5, <2>2, <2>3 DEF SavedSoFar
  <2>6. Indices(task.rows) = {}
    BY <2>2 DEF Indices
  <2>7. Indices(done.rows) = {} /\ done.rows = {} /\ ~done.submitted
    BY <2>2, <2>4, <2>6
  <2>8. done.code # 202 /\ (done.code = 400 => DOMAIN done.disk = {})
    BY <2>2, <2>3, <2>4, <2>5
  <2> HIDE DEF code
  <2>9. QED BY <2>7, <2>8 DEF Complete
<1>8. QED BY <1>6, <1>7

\* A task exists with all its documents or not at all, each with its own upload behind
\* it, whole and within the limit; the client is told 202 just if it was submitted, and of
\* an error of its own only if nothing is left: for any uploads, and wherever the handling
\* is cut short (routes.py:75).
THEOREM DocumentsOrNoTask == Spec => []AllDocumentsOrNoTask
<1>1. OneRequest => AllDocumentsOrNoTask
  <2> SUFFICES ASSUME OneRequest, answered, request.op = "POST" PROVE AllDocumentsOrNoTask
    BY DEF AllDocumentsOrNoTask, Answered
  <2>1. /\ request.uploads \in Seq(Upload) /\ request.stop \in [at : Nat, bytes : Nat]
        /\ answer = create_task(request.uploads, request.ops_valid, request.stop)
    BY AgentsAssumption DEF OneRequest
  <2>2. Complete(answer, request.uploads)
    BY <2>1, CreateCompletes
  <2>3. \A row \in answer.rows :
           /\ answer.disk[row.path] = [upload |-> row.index, bytes |-> request.uploads[row.index].size]
           /\ request.uploads[row.index].size <= MAX_UPLOAD_BYTES
           /\ row.type # "text"
    <3>1. ASSUME NEW row \in answer.rows
          PROVE  Backed(row, answer.disk, request.uploads) /\ row.type # "text"
      BY <2>2 DEF Complete
    <3>2. QED BY <3>1 DEF Backed
  <2>4. QED BY <2>2, <2>3, Zenon DEF AllDocumentsOrNoTask, Complete, Indices
<1>2. QED BY <1>1, OneRequestCorrect, PTL

-----------------------------------------------------------------------------
(* F6: the citations.                                                       *)

\* Whether entry `i` comes before entry `j`: by score, then by title, then by place.
Higher(corpus, i, j) ==
    \/ corpus[i].score > corpus[j].score
    \/ corpus[i].score = corpus[j].score /\ corpus[i].title < corpus[j].title
    \/ corpus[i].score = corpus[j].score /\ corpus[i].title = corpus[j].title /\ i < j

\* A ranking lists the entries, each once, and none after one of a lower score.
Ranks(ranking, corpus, entries) ==
    /\ DOMAIN ranking = 1..Cardinality(entries)
    /\ ranking \in Seq(entries)
    /\ Range(ranking) = entries
    /\ \A i, j \in DOMAIN ranking : i < j => Higher(corpus, ranking[i], ranking[j])

LEMMA RankingRanks ==
    ASSUME NEW corpus \in Seq(Entry), NEW entries \in SUBSET (DOMAIN corpus)
    PROVE  /\ IsFiniteSet(entries) /\ Cardinality(entries) \in Nat
           /\ Ranks(Ranking(corpus, entries), corpus, entries)
<1> DEFINE R == {p \in entries \X entries : Higher(corpus, p[1], p[2])}
           n == Cardinality(entries)
           ranking == Ranking(corpus, entries)
<1>1. /\ Len(corpus) \in Nat /\ DOMAIN corpus = 1..Len(corpus)
      /\ \A i \in entries : i \in Int /\ corpus[i].score \in Int /\ corpus[i].title \in Int
  <2>1. Len(corpus) \in Nat /\ DOMAIN corpus = 1..Len(corpus)
    BY LenProperties
  <2>2. ASSUME NEW i \in entries
        PROVE  i \in Int /\ corpus[i].score \in Int /\ corpus[i].title \in Int
    <3>1. i \in 1..Len(corpus) /\ corpus[i] \in Entry
      BY <2>1, ElementOfSeq
    <3>2. QED BY <2>1, <3>1 DEF Entry
  <2>3. QED BY <2>1, <2>2
<1>2. IsFiniteSet(entries) /\ n \in Nat
  <2>1. IsFiniteSet(1..Len(corpus)) /\ entries \in SUBSET (1..Len(corpus))
    BY <1>1, FromOne
  <2>2. QED BY <2>1, FS_Subset, FS_CardinalityType
<1>3. \A i, j \in entries : <<i, j>> \in R <=> Higher(corpus, i, j)
  OBVIOUS
<1> HIDE DEF R
<1>4. PICK s \in SetToSeqs(entries) : Ascends(s, R)
  <2>1. \A i \in entries : <<i, i>> \notin R
    BY <1>1, <1>3 DEF Higher
  <2>2. \A i, j \in entries : i # j => <<i, j>> \in R \/ <<j, i>> \in R
    BY <1>1, <1>3 DEF Higher
  <2>3. ASSUME NEW i \in entries, NEW j \in entries, NEW k \in entries,
               <<i, j>> \in R, <<j, k>> \in R
        PROVE  <<i, k>> \in R
    <3>1. /\ corpus[i].score \in Int /\ corpus[j].score \in Int /\ corpus[k].score \in Int
          /\ corpus[i].title \in Int /\ corpus[j].title \in Int /\ corpus[k].title \in Int
          /\ i \in Int /\ j \in Int /\ k \in Int
      BY <1>1
    <3>2. Higher(corpus, i, j) /\ Higher(corpus, j, k)
      BY <1>3, <2>3
    <3>3. Higher(corpus, i, k)
      BY <3>1, <3>2 DEF Higher
    <3>4. QED BY <1>3, <3>3
  <2>4. QED BY <1>2, <2>1, <2>2, <2>3, OrderExists
<1> HIDE DEF n
<1>5. ranking \in SetToSeqs(entries)
      /\ \A i, j \in DOMAIN ranking : i < j => Higher(corpus, ranking[i], ranking[j])
  <2>1. s \in [1..n -> entries]
    BY <1>2, ListsOf DEF n
  <2>2. \A i, j \in DOMAIN s : i < j => Higher(corpus, s[i], s[j])
    BY <1>3, <1>4, <2>1 DEF Ascends
  <2>3. \E t \in SetToSeqs(entries) :
           \A i, j \in DOMAIN t : i < j => Higher(corpus, t[i], t[j])
    BY <2>2
  <2>4. ranking = CHOOSE t \in SetToSeqs(entries) :
                     \A i, j \in DOMAIN t : i < j => Higher(corpus, t[i], t[j])
    BY Zenon DEF Ranking, InOrder, Higher
  <2> HIDE DEF ranking
  <2>5. QED BY <2>3, <2>4, Zenon
<1> HIDE DEF ranking
<1>6. ranking \in [1..n -> entries] /\ Range(ranking) = entries
  BY <1>2, <1>5, ListsOf DEF n
<1>7. ranking \in Seq(entries) /\ DOMAIN ranking = 1..n
  BY <1>2, <1>6
<1>8. QED BY <1>2, <1>5, <1>6, <1>7 DEF Ranks, ranking, n

\* BestInRange of the one answer.
Best(cites, corpus, fit, asked) ==
    /\ Range(cites) \subseteq fit /\ IsInjective(cites)
    /\ Cardinality(Range(cites)) = Min({asked, Cardinality(fit)})
    /\ \A i \in Range(cites), j \in fit \ Range(cites) : corpus[i].score >= corpus[j].score
    /\ \A k \in 2..Len(cites) : corpus[cites[k - 1]].score >= corpus[cites[k]].score

LEMMA TopIsBest ==
    ASSUME NEW corpus \in Seq(Entry), NEW fit \in SUBSET (DOMAIN corpus), NEW asked \in Nat
    PROVE  Best(Top(Ranking(corpus, fit), asked), corpus, fit, asked)
<1> DEFINE ranking == Ranking(corpus, fit)
           n == Cardinality(fit)
           m == Min({asked, n})
           cites == Top(ranking, asked)
<1>1. /\ n \in Nat /\ Ranks(ranking, corpus, fit)
  BY RankingRanks
<1> HIDE DEF ranking, n
<1>2. /\ DOMAIN ranking = 1..n /\ ranking \in Seq(fit) /\ Range(ranking) = fit
      /\ \A i, j \in 1..n : i < j => Higher(corpus, ranking[i], ranking[j])
  BY <1>1 DEF Ranks, n
<1>3. Len(ranking) = n
  BY <1>1, <1>2, LenProperties
<1>4. m \in Nat /\ m <= n
  BY <1>1, OfTwo
<1>5. cites = [i \in 1..m |-> ranking[i]]
  <2>1. cites = SubSeq(ranking, 1, m)
    BY <1>3 DEF Top
  <2> HIDE DEF m
  <2>2. QED BY <1>1, <1>2, <1>3, <1>4, <2>1
<1> HIDE DEF m, cites
<1>6. \A i \in fit : corpus[i].score \in Int /\ corpus[i].title \in Int /\ i \in Int
  <2>1. Len(corpus) \in Nat /\ DOMAIN corpus = 1..Len(corpus)
    BY LenProperties
  <2>2. ASSUME NEW i \in fit
        PROVE  corpus[i].score \in Int /\ corpus[i].title \in Int /\ i \in Int
    <3>1. i \in 1..Len(corpus) /\ corpus[i] \in Entry
      BY <2>1, ElementOfSeq
    <3>2. QED BY <2>1, <3>1 DEF Entry
  <2>3. QED BY <2>2
<1>7. ASSUME NEW i \in 1..n, NEW j \in 1..n, i < j
      PROVE  ranking[i] # ranking[j]
             /\ corpus[ranking[i]].score >= corpus[ranking[j]].score
  <2>1. ranking[i] \in fit /\ ranking[j] \in fit
    BY <1>2 DEF Range
  <2>2. Higher(corpus, ranking[i], ranking[j])
    BY <1>2, <1>7
  <2>3. QED BY <1>6, <2>1, <2>2 DEF Higher
<1>8. \A i \in 1..m : i \in 1..n /\ cites[i] = ranking[i]
  BY <1>1, <1>4, <1>5
<1>9. \A i, j \in 1..m : i # j => cites[i] # cites[j]
  BY <1>4, <1>7, <1>8
<1>10. cites = [i \in 1..m |-> cites[i]] /\ DOMAIN cites = 1..m /\ Len(cites) = m
  BY <1>4, <1>5, LenProperties
<1>11. Cardinality(Range(cites)) = m
  BY <1>4, <1>9, <1>10, ListedOnce
<1>12. Range(cites) \subseteq fit
  BY <1>2, <1>8, <1>10 DEF Range
<1>13. IsInjective(cites)
  BY <1>9, <1>10 DEF IsInjective
<1>14. ASSUME NEW i \in Range(cites), NEW j \in fit \ Range(cites)
       PROVE  corpus[i].score >= corpus[j].score
  <2>1. PICK a \in 1..m : i = ranking[a] /\ a \in 1..n
    BY <1>8, <1>10 DEF Range
  <2>2. PICK b \in 1..n : j = ranking[b]
    BY <1>2 DEF Range
  <2>3. b \notin 1..m
    BY <1>8, <1>10, <2>2 DEF Range
  <2>4. a < b
    BY <1>1, <1>4, <2>1, <2>2, <2>3
  <2>5. QED BY <1>7, <2>1, <2>2, <2>4
<1>15. ASSUME NEW k \in 2..Len(cites)
       PROVE  corpus[cites[k - 1]].score >= corpus[cites[k]].score
  <2>1. k - 1 \in 1..m /\ k \in 1..m /\ k - 1 < k
    BY <1>4, <1>10
  <2>2. QED BY <1>7, <1>8, <2>1
<1>16. QED
  BY <1>11, <1>12, <1>13, <1>14, <1>15 DEF Best, m, n, cites, ranking

\* Whatever the corpus and the request, the citations are the best of the entries the
\* year filter lets through, best first, and as many as were asked for or as there are
\* (recommender.py: the filter comes before the cut).
THEOREM BestCitations == Spec => []BestInRange
<1>1. OneRequest => BestInRange
  <2> SUFFICES ASSUME OneRequest, answered, request.op = "F6", ~answer.refused
               PROVE  BestInRange
    BY DEF BestInRange, Answered
  <2> DEFINE corpus == request.corpus
             first == request.content.year_min
             last == request.content.year_max
             fit == {i \in DOMAIN corpus : corpus[i].year # NoYear =>
                       first <= corpus[i].year /\ (last = NoYear \/ corpus[i].year <= last)}
             passing == {i \in DOMAIN corpus : _year_ok(corpus[i].year, first, last)}
             asked == IF request.content.n > 0 THEN request.content.n ELSE DEFAULT_N
  <2>1. /\ corpus \in Seq(Entry) /\ first \in Nat /\ last \in Nat
        /\ request.content.n \in Int
        /\ answer = recommend(corpus, request.query_dim, request.content)
    BY AgentsAssumption DEF OneRequest
  <2>2. asked \in Nat
    BY <2>1, RecommenderAssumption
  <2>3. answer.citations = citations(corpus, asked, first, last)
    BY <2>1 DEF recommend
  <2>4. passing = fit
    <3>1. ASSUME NEW i \in DOMAIN corpus
          PROVE  _year_ok(corpus[i].year, first, last)
                 <=> (corpus[i].year # NoYear =>
                        first <= corpus[i].year /\ (last = NoYear \/ corpus[i].year <= last))
      <4> HIDE DEF corpus, first, last
      <4>1. corpus[i].year \in Nat
        <5>1. corpus[i] \in Entry
          BY <2>1, ElementOfSeq, LenProperties
        <5>2. QED BY <5>1 DEF Entry
      <4>2. QED BY <2>1, <4>1 DEF _year_ok, NoYear
    <3>2. QED BY <3>1
  <2>5. fit \in SUBSET (DOMAIN corpus)
    OBVIOUS
  <2>6. answer.citations = Top(Ranking(corpus, passing), asked)
    BY <2>3, Zenon DEF citations
  <2> HIDE DEF passing
  <2>7. Best(answer.citations, corpus, fit, asked)
    <3> HIDE DEF corpus, fit, asked
    <3>1. QED BY <2>1, <2>2, <2>4, <2>5, <2>6, TopIsBest
  <2>8. QED BY <2>7, Zenon DEF BestInRange, Best
<1>2. QED BY <1>1, OneRequestCorrect, PTL

-----------------------------------------------------------------------------
(* F4: the quiz.                                                            *)

\* Numbers in their order: each has as many before it as are smaller.
NumbersRanked(order, S) ==
    /\ order \in [1..Cardinality(S) -> S] /\ Range(order) = S
    /\ \A p \in DOMAIN order : Cardinality({j \in S : j < order[p]}) = p - 1

LEMMA NumbersInOrder ==
    ASSUME NEW S \in SUBSET Int, IsFiniteSet(S)
    PROVE  Cardinality(S) \in Nat /\ NumbersRanked(InOrder(S, <), S)
<1> DEFINE R == {p \in S \X S : p[1] < p[2]}
           n == Cardinality(S)
           order == InOrder(S, <)
<1>1. n \in Nat
  BY FS_CardinalityType
<1>2. \A i, j \in S : <<i, j>> \in R <=> i < j
  OBVIOUS
<1>3. \A i \in S : i \in Int
  OBVIOUS
<1> HIDE DEF R
<1>4. PICK s \in SetToSeqs(S) : Ascends(s, R)
  <2>1. \A i \in S : <<i, i>> \notin R
    BY <1>2, <1>3
  <2>2. \A i, j \in S : i # j => <<i, j>> \in R \/ <<j, i>> \in R
    BY <1>2, <1>3
  <2>3. \A i, j, k \in S : <<i, j>> \in R /\ <<j, k>> \in R => <<i, k>> \in R
    BY <1>2, <1>3
  <2>4. QED BY <2>1, <2>2, <2>3, OrderExists
<1>5. order \in SetToSeqs(S) /\ \A i, j \in DOMAIN order : i < j => order[i] < order[j]
  <2>1. s \in [1..n -> S]
    BY <1>1, ListsOf
  <2>2. \A i, j \in DOMAIN s : i < j => s[i] < s[j]
    BY <1>2, <1>4, <2>1 DEF Ascends
  <2>3. order = CHOOSE t \in SetToSeqs(S) : \A i, j \in DOMAIN t : i < j => t[i] < t[j]
    BY Zenon DEF InOrder
  <2> HIDE DEF order
  <2>4. QED BY <2>2, <2>3, Zenon
<1> HIDE DEF order
<1>6. order \in [1..n -> S] /\ Range(order) = S
  BY <1>1, <1>5, ListsOf
<1>7. ASSUME NEW p \in 1..n PROVE Cardinality({j \in S : j < order[p]}) = p - 1
  <2> HIDE DEF n
  <2> DEFINE t == [i \in 1..(p - 1) |-> order[i]]
  <2>1. /\ p - 1 \in Nat /\ \A i \in 1..(p - 1) : i \in 1..n /\ i < p
        /\ \A i \in 1..n : order[i] \in Int
    <3>1. p \in Nat /\ 1 <= p /\ p <= n
      BY <1>1
    <3>2. ASSUME NEW i \in 1..n PROVE order[i] \in Int
      <4>1. order[i] \in S
        BY <1>6
      <4>2. QED BY <1>3, <4>1
    <3>3. QED BY <1>1, <3>1, <3>2
  <2>2. \A i, j \in 1..(p - 1) : i # j => t[i] # t[j]
    <3>1. \A i, j \in 1..(p - 1) : i < j => order[i] < order[j] /\ order[i] # order[j]
      BY <1>5, <1>6, <2>1
    <3>2. QED BY <2>1, <3>1
  <2>3. t = [i \in 1..(p - 1) |-> t[i]]
    OBVIOUS
  <2>4. Range(t) = {j \in S : j < order[p]}
    <3>1. ASSUME NEW i \in 1..(p - 1) PROVE t[i] \in S /\ t[i] < order[p]
      BY <1>5, <1>6, <2>1
    <3>2. ASSUME NEW j \in S, j < order[p] PROVE \E i \in 1..(p - 1) : t[i] = j
      <4>1. PICK i \in 1..n : order[i] = j
        BY <1>6 DEF Range
      <4>2. i # p /\ ~(p < i)
        BY <1>3, <1>5, <1>6, <2>1, <3>2, <4>1
      <4>3. i \in 1..(p - 1)
        BY <1>1, <4>2
      <4>4. QED BY <4>1, <4>3
    <3>3. DOMAIN t = 1..(p - 1)
      OBVIOUS
    <3> HIDE DEF t
    <3>4. QED BY <3>1, <3>2, <3>3 DEF Range
  <2> HIDE DEF t
  <2>5. Cardinality(Range(t)) = p - 1
    BY <2>1, <2>2, <2>3, ListedOnce
  <2>6. QED BY <2>4, <2>5
<1>8. QED BY <1>1, <1>6, <1>7 DEF NumbersRanked, order

ChoiceLists == Seq(STRING \X STRING)

\* The first choice with the text of another has no earlier one like it.
LEMMA FirstOfItsText ==
    ASSUME NEW old \in ChoiceLists, NEW i \in DOMAIN old
    PROVE  /\ FirstAlike(old, i) \in 1..i
           /\ Key(old[FirstAlike(old, i)]) = Key(old[i])
           /\ \A k \in 1..(FirstAlike(old, i) - 1) : Key(old[k]) # Key(old[i])
<1> DEFINE S == {j \in 1..i : Key(old[j]) = Key(old[i])}
<1>1. i \in Nat /\ i \in 1..i
  BY LenProperties DEF ChoiceLists
<1>2. PICK j \in S : \A k \in S : j <= k
  <2>1. S \in SUBSET Nat /\ i \in S
    BY <1>1
  <2> HIDE DEF S
  <2>2. QED BY <2>1, SmallestMember
<1>3. /\ j \in 1..i /\ Key(old[j]) = Key(old[i])
      /\ \A k \in 1..(j - 1) : Key(old[k]) # Key(old[i])
  <2>1. j \in 1..i /\ Key(old[j]) = Key(old[i])
    BY <1>2
  <2>2. ASSUME NEW k \in 1..(j - 1), Key(old[k]) = Key(old[i]) PROVE FALSE
    <3>1. k \in S
      BY <1>1, <2>1, <2>2
    <3>2. QED BY <1>1, <1>2, <2>1, <3>1
  <2>3. QED BY <2>1, <2>2
<1>4. QED BY <1>3, Zenon DEF FirstAlike

\* What is kept of the choices: a first one for each text, and never two of a text.
LEMMA KeptChoices ==
    ASSUME NEW old \in ChoiceLists
    PROVE  /\ Kept(old) \in SUBSET Int /\ Kept(old) \subseteq DOMAIN old /\ IsFiniteSet(Kept(old))
           /\ \A i \in DOMAIN old : FirstAlike(old, i) \in Kept(old)
                                    /\ Key(old[FirstAlike(old, i)]) = Key(old[i])
           /\ \A i, j \in Kept(old) : Key(old[i]) = Key(old[j]) => i = j
<1>1. Len(old) \in Nat /\ DOMAIN old = 1..Len(old)
  BY LenProperties DEF ChoiceLists
<1>2. Kept(old) \subseteq 1..Len(old) /\ Kept(old) \in SUBSET Int
  BY <1>1 DEF Kept
<1>3. IsFiniteSet(Kept(old))
  BY <1>1, <1>2, FromOne, FS_Subset
<1>4. ASSUME NEW i \in DOMAIN old, NEW j \in DOMAIN old, Key(old[i]) = Key(old[j])
      PROVE  FirstAlike(old, i) <= FirstAlike(old, j)
  <2> DEFINE f == FirstAlike(old, i)
             g == FirstAlike(old, j)
  <2>1. /\ f \in 1..i /\ g \in 1..j /\ Key(old[g]) = Key(old[j])
        /\ \A k \in 1..(f - 1) : Key(old[k]) # Key(old[i])
    BY FirstOfItsText
  <2> HIDE DEF f, g
  <2>2. g \notin 1..(f - 1)
    BY <1>4, <2>1
  <2>3. f <= g
    BY <1>1, <2>1, <2>2
  <2>4. QED BY <2>3 DEF f, g
<1>5. ASSUME NEW i \in DOMAIN old, NEW j \in DOMAIN old, Key(old[i]) = Key(old[j])
      PROVE  FirstAlike(old, i) = FirstAlike(old, j)
  <2>1. FirstAlike(old, i) \in 1..i /\ FirstAlike(old, j) \in 1..j
    BY FirstOfItsText
  <2>2. FirstAlike(old, i) <= FirstAlike(old, j) /\ FirstAlike(old, j) <= FirstAlike(old, i)
    BY <1>4, <1>5
  <2>3. QED BY <2>1, <2>2
<1>6. ASSUME NEW i \in DOMAIN old
      PROVE  FirstAlike(old, i) \in Kept(old) /\ Key(old[FirstAlike(old, i)]) = Key(old[i])
  <2> DEFINE f == FirstAlike(old, i)
  <2>1. f \in 1..i /\ Key(old[f]) = Key(old[i])
    BY FirstOfItsText
  <2> HIDE DEF f
  <2>2. f \in DOMAIN old
    BY <1>1, <2>1
  <2>3. FirstAlike(old, f) = FirstAlike(old, i)
    BY <1>5, <2>1, <2>2
  <2>4. FirstAlike(old, f) = f
    BY <2>3 DEF f
  <2>5. f \in Kept(old)
    BY <2>2, <2>4 DEF Kept
  <2>6. QED BY <2>1, <2>5 DEF f
<1>7. ASSUME NEW i \in Kept(old), NEW j \in Kept(old), Key(old[i]) = Key(old[j])
      PROVE  i = j
  BY <1>5, <1>7 DEF Kept
<1>8. QED BY <1>1, <1>2, <1>3, <1>6, <1>7

\* MarksAsMeant of the one question.
AsMeant(passed, raw) ==
    /\ Texts(passed) = Texts(raw) /\ Cardinality(Texts(passed)) = Len(passed.choices)
    /\ Marked(passed) = Marked(raw) /\ Marked(raw) # {}

LEMMA DedupMeansTheSame ==
    ASSUME NEW raw \in QuizQuestion,
           raw.type # "open_answer", is_well_formed(_dedup_choices(raw))
    PROVE  AsMeant(_dedup_choices(raw), raw)
<1> DEFINE passed == _dedup_choices(raw)
           old == raw.choices
           kept == Kept(old)
           order == InOrder(kept, <)
           n == Cardinality(kept)
           new == [p \in DOMAIN order |-> old[order[p]]]
           answers == {remap(old, i + 1) : i \in {a \in raw.answers : a + 1 \in DOMAIN old}}
<1>1. /\ raw = [id |-> raw.id, type |-> raw.type, choices |-> raw.choices,
                answers |-> raw.answers, stem |-> raw.stem, grounded |-> raw.grounded]
      /\ old \in ChoiceLists /\ raw.answers \in SUBSET Int
  BY DEF QuizQuestion, ChoiceLists
<1>2. old # <<>>
  <2>1. CASE old = <<>>
    <3>1. passed = raw
      BY <2>1 DEF _dedup_choices
    <3>2. Len(old) >= 2
      BY <3>1 DEF is_well_formed
    <3>3. QED BY <2>1, <3>2
  <2>2. QED BY <2>1
<1>3. passed = [raw EXCEPT !.choices = new, !.answers = answers]
  BY <1>2, Zenon DEF _dedup_choices
<1>4. passed.choices = new /\ passed.answers = answers /\ passed.type = raw.type
  <2> HIDE DEF passed, new, answers
  <2>1. QED BY <1>1, <1>3
<1>5. answers # {}
  BY <1>4 DEF is_well_formed
<1>6. /\ kept \in SUBSET Int /\ kept \subseteq DOMAIN old /\ IsFiniteSet(kept)
      /\ \A i \in DOMAIN old : FirstAlike(old, i) \in kept
                               /\ Key(old[FirstAlike(old, i)]) = Key(old[i])
      /\ \A i, j \in kept : Key(old[i]) = Key(old[j]) => i = j
  BY <1>1, KeptChoices
<1>7. n \in Nat /\ NumbersRanked(order, kept)
  BY <1>6, NumbersInOrder
<1> HIDE DEF order, n, passed
<1>8. /\ DOMAIN order = 1..n /\ \A p \in 1..n : order[p] \in kept
      /\ \A i \in kept : \E p \in 1..n : order[p] = i
      /\ \A p \in 1..n : Cardinality({j \in kept : j < order[p]}) = p - 1
  BY <1>7 DEF NumbersRanked, Range, n
<1>9. /\ DOMAIN new = 1..n /\ \A p \in 1..n : new[p] = old[order[p]]
  BY <1>8
<1>10. ASSUME NEW p \in 1..n, NEW q \in 1..n, p # q PROVE Key(new[p]) # Key(new[q])
  <2>1. ASSUME order[p] = order[q] PROVE FALSE
    <3>1. Cardinality({j \in kept : j < order[p]}) = p - 1
      BY <1>8
    <3>2. Cardinality({j \in kept : j < order[p]}) = q - 1
      BY <1>8, <2>1
    <3> HIDE DEF kept
    <3>3. p - 1 = q - 1
      BY <3>1, <3>2, Zenon
    <3>4. QED BY <1>7, <1>10, <3>3
  <2>2. QED BY <1>6, <1>8, <1>9, <2>1
<1>11. new \in Seq(STRING \X STRING) /\ Len(new) = n
  <2>1. ASSUME NEW p \in 1..n PROVE new[p] \in STRING \X STRING
    <3>1. order[p] \in DOMAIN old
      BY <1>6, <1>8
    <3>2. QED BY <1>1, <1>9, <3>1, ElementOfSeq, LenProperties DEF ChoiceLists
  <2>2. new = [p \in 1..n |-> new[p]]
    BY <1>8
  <2> HIDE DEF new
  <2>3. new \in [1..n -> STRING \X STRING]
    BY <2>1, <2>2
  <2>4. QED BY <1>7, <2>3, LenProperties
\* The place of a kept choice.
<1>12. ASSUME NEW i \in DOMAIN old
       PROVE  /\ remap(old, i) + 1 \in 1..n
              /\ Key(new[remap(old, i) + 1]) = Key(old[i])
  <2>1. FirstAlike(old, i) \in kept /\ Key(old[FirstAlike(old, i)]) = Key(old[i])
    BY <1>6
  <2>2. PICK p \in 1..n : order[p] = FirstAlike(old, i)
    BY <1>8, <2>1
  <2>3. remap(old, i) = p - 1
    BY <1>8, <2>2, Zenon DEF remap
  <2>4. remap(old, i) + 1 = p
    BY <1>7, <2>3
  <2>5. QED BY <1>9, <2>1, <2>2, <2>4
<1> HIDE DEF new, answers
<1>13. /\ Texts(passed) = {Key(new[p]) : p \in 1..n}
       /\ Texts(raw) = {Key(old[i]) : i \in DOMAIN old}
  BY <1>4, <1>9 DEF Texts, Range
<1>14. Texts(passed) = Texts(raw)
  <2>1. ASSUME NEW p \in 1..n PROVE \E i \in DOMAIN old : Key(new[p]) = Key(old[i])
    BY <1>6, <1>8, <1>9
  <2>2. ASSUME NEW i \in DOMAIN old PROVE \E p \in 1..n : Key(new[p]) = Key(old[i])
    BY <1>12
  <2> HIDE DEF old
  <2>3. QED BY <1>13, <2>1, <2>2
<1>15. Cardinality(Texts(passed)) = Len(passed.choices)
  <2> DEFINE texts == [p \in 1..n |-> Key(new[p])]
  <2>1. \A p, q \in 1..n : p # q => texts[p] # texts[q]
    BY <1>10
  <2>2. texts = [p \in 1..n |-> texts[p]]
    OBVIOUS
  <2>3. Range(texts) = Texts(passed)
    BY <1>13 DEF Range
  <2> HIDE DEF texts
  <2>4. Cardinality(Range(texts)) = n
    BY <1>7, <2>1, <2>2, ListedOnce
  <2>5. QED BY <1>4, <1>11, <2>3, <2>4
<1>16. Marked(passed) = Marked(raw)
  <2>1. Marked(passed) = {Key(new[a + 1]) : a \in {b \in answers : b + 1 \in 1..n}}
    BY <1>4, <1>9, Zenon DEF Marked
  <2>2. Marked(raw) = {Key(old[a + 1]) : a \in {b \in raw.answers : b + 1 \in DOMAIN old}}
    BY Zenon DEF Marked
  <2>3. ASSUME NEW b \in answers, b + 1 \in 1..n
        PROVE  \E a \in raw.answers : a + 1 \in DOMAIN old /\ Key(old[a + 1]) = Key(new[b + 1])
    <3>1. PICK a \in raw.answers : a + 1 \in DOMAIN old /\ b = remap(old, a + 1)
      BY DEF answers
    <3>2. Key(new[b + 1]) = Key(old[a + 1])
      BY <1>12, <3>1
    <3>3. QED BY <3>1, <3>2
  <2>4. ASSUME NEW a \in raw.answers, a + 1 \in DOMAIN old
        PROVE  \E b \in answers : b + 1 \in 1..n /\ Key(new[b + 1]) = Key(old[a + 1])
    <3>1. remap(old, a + 1) \in answers
      BY <2>4 DEF answers
    <3>2. QED BY <1>12, <2>4, <3>1
  <2> HIDE DEF old
  <2>5. QED BY <2>1, <2>2, <2>3, <2>4
<1>17. Marked(raw) # {}
  <2>1. \E a \in raw.answers : a + 1 \in DOMAIN old
    BY <1>5 DEF answers
  <2>2. QED BY <2>1 DEF Marked
<1>18. QED BY <1>14, <1>15, <1>16, <1>17 DEF AsMeant, passed

\* Whatever a model makes up, a question let pass offers each of its texts once, and marks
\* the texts that were marked (test_generator.py: _dedup_choices).
THEOREM MarkedAsMeant == Spec => []MarksAsMeant
<1>1. OneRequest => MarksAsMeant
  <2> SUFFICES ASSUME OneRequest, answered, request.op = "F4",
                      NEW passed \in answer, passed.type # "open_answer"
               PROVE  AsMeant(passed, request.questions[passed.id])
    BY Zenon DEF MarksAsMeant, Answered, AsMeant
  <2>1. /\ request.questions \in Seq(QuizQuestion)
        /\ \A i \in DOMAIN request.questions : request.questions[i].id = i
        /\ answer = generate_test(request.questions)
    BY AgentsAssumption DEF OneRequest
  <2>2. PICK i \in DOMAIN request.questions : passed = _dedup_choices(request.questions[i])
    BY <2>1, Zenon DEF generate_test
  <2>3. is_well_formed(passed)
    BY <2>1, Zenon DEF generate_test
  <2> DEFINE raw == request.questions[i]
  <2>4. raw \in QuizQuestion /\ raw.id = i
    BY <2>1, ElementOfSeq, LenProperties
  <2>5. passed.id = raw.id /\ passed.type = raw.type
    <3> HIDE DEF raw
    <3>1. raw = [id |-> raw.id, type |-> raw.type, choices |-> raw.choices,
                 answers |-> raw.answers, stem |-> raw.stem, grounded |-> raw.grounded]
      BY <2>4 DEF QuizQuestion
    <3>2. passed = _dedup_choices(raw)
      BY <2>2 DEF raw
    <3>3. \/ passed = raw
          \/ \E c, a : passed = [raw EXCEPT !.choices = c, !.answers = a]
      BY <3>2, Zenon DEF _dedup_choices
    <3>4. QED BY <3>1, <3>3
  <2>6. AsMeant(passed, raw)
    <3> HIDE DEF raw
    <3>1. passed = _dedup_choices(raw)
      BY <2>2 DEF raw
    <3>2. QED BY <2>3, <2>4, <2>5, <3>1, DedupMeansTheSame
  <2>7. QED BY <2>4, <2>5, <2>6
<1>2. QED BY <1>1, OneRequestCorrect, PTL

-----------------------------------------------------------------------------
(* F5: the order of lemmas, and the representative of a group.              *)

\* Lexicographic order, by the letters up to the first that differs.
LEMMA SmallerIs ==
    ASSUME NEW a \in Seq(Nat), NEW b \in Seq(Nat)
    PROVE  Smaller(a, b) <=>
              \E n \in 0..Len(a) : /\ n < Len(b) /\ \A i \in 1..n : a[i] = b[i]
                                   /\ n = Len(a) \/ a[n + 1] < b[n + 1]
<1>1. Len(a) \in Nat /\ Len(b) \in Nat
  BY LenProperties
<1>2. ASSUME NEW n \in 0..Len(a), n < Len(b)
      PROVE  SubSeq(a, 1, n) = SubSeq(b, 1, n) <=> \A i \in 1..n : a[i] = b[i]
  <2>1. /\ SubSeq(a, 1, n) = [i \in 1..n |-> a[i]]
        /\ SubSeq(b, 1, n) = [i \in 1..n |-> b[i]]
    BY <1>1, <1>2
  <2>2. ASSUME [i \in 1..n |-> a[i]] = [i \in 1..n |-> b[i]], NEW j \in 1..n
        PROVE  a[j] = b[j]
    <3>1. [i \in 1..n |-> a[i]][j] = [i \in 1..n |-> b[i]][j]
      BY <2>2, Zenon
    <3>2. QED BY <3>1
  <2>3. QED BY <2>1, <2>2
<1>3. QED BY <1>2 DEF Smaller

LEMMA SmallerIrreflexive == \A a \in Seq(Nat) : ~Smaller(a, a)
<1> SUFFICES ASSUME NEW a \in Seq(Nat) PROVE ~Smaller(a, a)
  OBVIOUS
<1>1. Len(a) \in Nat /\ \A i \in 1..Len(a) : a[i] \in Nat
  BY LenProperties, ElementOfSeq
<1>2. QED BY <1>1, SmallerIs

LEMMA SmallerTransitive ==
    ASSUME NEW a \in Seq(Nat), NEW b \in Seq(Nat), NEW c \in Seq(Nat),
           Smaller(a, b), Smaller(b, c)
    PROVE  Smaller(a, c)
<1>1. /\ Len(a) \in Nat /\ Len(b) \in Nat /\ Len(c) \in Nat
      /\ \A i \in 1..Len(a) : a[i] \in Nat
      /\ \A i \in 1..Len(b) : b[i] \in Nat
      /\ \A i \in 1..Len(c) : c[i] \in Nat
  BY LenProperties, ElementOfSeq
<1>2. PICK n \in 0..Len(a) : /\ n < Len(b) /\ \A i \in 1..n : a[i] = b[i]
                             /\ n = Len(a) \/ a[n + 1] < b[n + 1]
  BY SmallerIs
<1>3. PICK m \in 0..Len(b) : /\ m < Len(c) /\ \A i \in 1..m : b[i] = c[i]
                             /\ m = Len(b) \/ b[m + 1] < c[m + 1]
  BY SmallerIs
<1>4. n \in Nat /\ m \in Nat
  BY <1>1
<1>5. CASE n < m
  <2>1. n < Len(c) /\ \A i \in 1..n : a[i] = c[i]
    BY <1>1, <1>2, <1>3, <1>4, <1>5
  <2>2. n = Len(a) \/ a[n + 1] < c[n + 1]
    BY <1>1, <1>2, <1>3, <1>4, <1>5
  <2>3. QED BY <2>1, <2>2, SmallerIs
<1>6. CASE n = m
  <2>1. n < Len(c) /\ \A i \in 1..n : a[i] = c[i]
    BY <1>1, <1>2, <1>3, <1>4, <1>6
  <2>2. n = Len(a) \/ a[n + 1] < c[n + 1]
    <3>1. CASE n # Len(a)
      <4>1. n + 1 \in 1..Len(a) /\ n + 1 \in 1..Len(b) /\ n + 1 \in 1..Len(c)
        BY <1>1, <1>2, <1>3, <1>6, <3>1
      <4>2. a[n + 1] < b[n + 1] /\ b[n + 1] < c[n + 1]
        BY <1>1, <1>2, <1>3, <1>4, <1>6, <3>1
      <4>3. a[n + 1] \in Nat /\ b[n + 1] \in Nat /\ c[n + 1] \in Nat
        BY <1>1, <4>1
      <4>4. a[n + 1] < c[n + 1]
        BY <4>2, <4>3
      <4>5. QED BY <4>4
    <3>2. QED BY <3>1
  <2>3. QED BY <2>1, <2>2, SmallerIs
<1>7. CASE m < n
  <2>1. m \in 0..Len(a) /\ \A i \in 1..m : a[i] = c[i]
    <3>1. m \in 0..Len(a)
      BY <1>1, <1>2, <1>4, <1>7
    <3>2. \A i \in 1..m : i \in 1..n
      BY <1>4, <1>7
    <3>3. QED BY <1>2, <1>3, <3>1, <3>2
  <2>2. a[m + 1] < c[m + 1]
    <3>1. m + 1 \in 1..n /\ m # Len(b)
      BY <1>1, <1>2, <1>4, <1>7
    <3>2. QED BY <1>2, <1>3, <3>1
  <2>3. QED BY <1>3, <2>1, <2>2, SmallerIs
<1>8. QED BY <1>4, <1>5, <1>6, <1>7

LEMMA SmallerTotal ==
    ASSUME NEW a \in Seq(Nat), NEW b \in Seq(Nat), a # b
    PROVE  Smaller(a, b) \/ Smaller(b, a)
<1> DEFINE D == {i \in Nat \ {0} : i > Len(a) \/ i > Len(b) \/ a[i] # b[i]}
<1>1. /\ Len(a) \in Nat /\ Len(b) \in Nat
      /\ \A i \in 1..Len(a) : a[i] \in Nat
      /\ \A i \in 1..Len(b) : b[i] \in Nat
      /\ a = [i \in 1..Len(a) |-> a[i]] /\ b = [i \in 1..Len(b) |-> b[i]]
  BY LenProperties, ElementOfSeq
<1>2. PICK p \in D : \A i \in D : p <= i
  <2>1. D \in SUBSET Nat /\ Len(a) + 1 \in D
    BY <1>1
  <2> HIDE DEF D
  <2>2. QED BY <2>1, SmallestMember
<1>3. PICK n \in Nat : n + 1 = p
  BY <1>2
<1>4. ASSUME NEW i \in 1..n PROVE i <= Len(a) /\ i <= Len(b) /\ a[i] = b[i]
  <2>1. i \in Nat \ {0} /\ i \notin D
    BY <1>2, <1>3
  <2>2. QED BY <1>1, <2>1
<1>5. n <= Len(a) /\ n <= Len(b)
  <2>1. n = 0 \/ n \in 1..n
    BY <1>3
  <2>2. QED BY <1>1, <1>4, <2>1
<1> HIDE DEF D
<1>l. Len(a) \in Nat /\ Len(b) \in Nat
  BY LenProperties
<1>6. CASE n = Len(a)
  <2>1. n # Len(b)
    <3> SUFFICES ASSUME n = Len(b) PROVE FALSE
      OBVIOUS
    <3>1. [i \in 1..n |-> a[i]] = [i \in 1..n |-> b[i]]
      BY <1>4
    <3>2. QED BY <1>1, <1>6, <3>1, Zenon
  <2>2. n \in 0..Len(a) /\ n < Len(b)
    BY <1>5, <1>6, <1>l, <2>1
  <2>3. QED BY <1>4, <1>6, <2>2, SmallerIs
<1>7. CASE n = Len(b) /\ n # Len(a)
  <2>1. n \in 0..Len(b) /\ n < Len(a)
    BY <1>5, <1>7, <1>l
  <2>2. QED BY <1>4, <1>7, <2>1, SmallerIs
<1>8. CASE n # Len(a) /\ n # Len(b)
  <2>1. n \in 0..Len(a) /\ n \in 0..Len(b) /\ n < Len(a) /\ n < Len(b)
    BY <1>1, <1>5, <1>8
  <2>2. a[n + 1] # b[n + 1]
    BY <1>1, <1>2, <1>3, <2>1 DEF D
  <2>3. a[n + 1] < b[n + 1] \/ b[n + 1] < a[n + 1]
    BY <1>1, <2>1, <2>2
  <2>4. QED BY <1>4, <2>1, <2>3, SmallerIs
<1>9. QED BY <1>6, <1>7, <1>8

\* Whether `lemma` stands for a group rather than `m`.
Beats(candidates, lemma, m) ==
    \/ frequency(candidates, m) < frequency(candidates, lemma)
    \/ frequency(candidates, m) = frequency(candidates, lemma) /\ Smaller(lemma, m)

\* The lemmas found, and where, are finitely many.
LEMMA LemmasFound ==
    ASSUME NEW candidates \in Seq(Candidate)
    PROVE  /\ Len(candidates) \in Nat /\ DOMAIN candidates = 1..Len(candidates)
           /\ IsFiniteSet(DOMAIN candidates)
           /\ Cardinality(DOMAIN candidates) = Len(candidates)
           /\ \A i \in DOMAIN candidates : /\ candidates[i].lemma \in Lemmas(candidates)
                                           /\ candidates[i] \in Candidate
           /\ Lemmas(candidates) \subseteq Seq(Nat) /\ IsFiniteSet(Lemmas(candidates))
           /\ \A lemma : /\ Found(candidates, lemma) \subseteq DOMAIN candidates
                         /\ frequency(candidates, lemma) \in Nat
<1> DEFINE n == Len(candidates)
           lemma == [i \in 1..n |-> candidates[i].lemma]
<1>1. n \in Nat /\ DOMAIN candidates = 1..n /\ \A i \in 1..n : candidates[i] \in Candidate
  BY LenProperties, ElementOfSeq
<1>2. IsFiniteSet(1..n) /\ Cardinality(1..n) = n
  BY <1>1, FromOne
<1>3. Lemmas(candidates) \subseteq Seq(Nat)
  BY <1>1 DEF Lemmas, Candidate
<1>4. lemma \in Surjection(1..n, Lemmas(candidates))
  <2>1. /\ \A i \in 1..n : candidates[i].lemma \in Lemmas(candidates)
        /\ \A l \in Lemmas(candidates) : \E i \in 1..n : candidates[i].lemma = l
    BY <1>1 DEF Lemmas
  <2> HIDE DEF n
  <2>2. lemma \in [1..n -> Lemmas(candidates)]
        /\ \A l \in Lemmas(candidates) : \E i \in 1..n : lemma[i] = l
    BY <2>1
  <2> HIDE DEF lemma
  <2>3. QED BY <2>2 DEF Surjection
<1>5. IsFiniteSet(Lemmas(candidates))
  BY <1>2, <1>4, FS_Surjection
<1>6. ASSUME NEW l
      PROVE  Found(candidates, l) \subseteq DOMAIN candidates /\ frequency(candidates, l) \in Nat
  <2>1. Found(candidates, l) \subseteq 1..n
    BY <1>1 DEF Found
  <2>2. IsFiniteSet(Found(candidates, l))
    BY <1>2, <2>1, FS_Subset
  <2>3. QED BY <1>1, <2>1, <2>2, FS_CardinalityType DEF frequency
<1>7. QED BY <1>1, <1>2, <1>3, <1>5, <1>6 DEF Lemmas

\* A group has a representative, one of its own.
LEMMA RepresentativeOfGroup ==
    ASSUME NEW candidates \in Seq(Candidate), NEW members \in SUBSET Lemmas(candidates),
           members # {}
    PROVE  representative(candidates, members) \in members
<1> DEFINE R == {p \in members \X members : Beats(candidates, p[1], p[2])}
           n == Cardinality(members)
<1>1. members \subseteq Seq(Nat) /\ IsFiniteSet(members)
      /\ \A l \in members : frequency(candidates, l) \in Nat
  BY LemmasFound, FS_Subset
<1>2. \A l, m \in members : <<l, m>> \in R <=> Beats(candidates, l, m)
  OBVIOUS
<1>3. n \in Nat
  BY <1>1, FS_CardinalityType
<1> HIDE DEF R
<1>4. PICK s \in SetToSeqs(members) : Ascends(s, R)
  <2>1. \A l \in members : <<l, l>> \notin R
    BY <1>1, <1>2, SmallerIrreflexive DEF Beats
  <2>2. ASSUME NEW l \in members, NEW m \in members, l # m
        PROVE  <<l, m>> \in R \/ <<m, l>> \in R
    <3>1. l \in Seq(Nat) /\ m \in Seq(Nat)
      BY <1>1
    <3>2. Smaller(l, m) \/ Smaller(m, l)
      BY <2>2, <3>1, SmallerTotal
    <3>3. frequency(candidates, l) \in Nat /\ frequency(candidates, m) \in Nat
      BY <1>1
    <3>4. QED BY <1>2, <3>2, <3>3 DEF Beats
  <2>3. ASSUME NEW k \in members, NEW l \in members, NEW m \in members,
               <<k, l>> \in R, <<l, m>> \in R
        PROVE  <<k, m>> \in R
    <3>1. k \in Seq(Nat) /\ l \in Seq(Nat) /\ m \in Seq(Nat)
      BY <1>1
    <3>2. Smaller(k, l) /\ Smaller(l, m) => Smaller(k, m)
      BY <3>1, SmallerTransitive
    <3>3. /\ frequency(candidates, k) \in Nat /\ frequency(candidates, l) \in Nat
          /\ frequency(candidates, m) \in Nat
      BY <1>1
    <3>4. Beats(candidates, k, l) /\ Beats(candidates, l, m)
      BY <1>2, <2>3
    <3>5. Beats(candidates, k, m)
      BY <3>2, <3>3, <3>4 DEF Beats
    <3>6. QED BY <1>2, <3>5
  <2>4. QED BY <1>1, <2>1, <2>2, <2>3, OrderExists
<1>5. s \in [1..n -> members] /\ Range(s) = members
  BY <1>1, <1>3, ListsOf
<1> HIDE DEF n
<1>6. n # 0
  BY <1>5 DEF Range
<1>7. \A m \in members \ {s[1]} : Beats(candidates, s[1], m)
  <2>1. 1 \in 1..n
    BY <1>3, <1>6
  <2>2. ASSUME NEW m \in members, m # s[1] PROVE <<s[1], m>> \in R
    <3>1. PICK i \in 1..n : s[i] = m
      BY <1>5 DEF Range
    <3>2. 1 < i
      BY <1>3, <2>2, <3>1
    <3>3. QED BY <1>4, <1>5, <2>1, <3>1, <3>2 DEF Ascends
  <2>3. QED BY <1>2, <1>5, <2>1, <2>2
<1>8. s[1] \in members
  BY <1>3, <1>5, <1>6
<1>9. \E l \in members : \A m \in members \ {l} :
         \/ frequency(candidates, m) < frequency(candidates, l)
         \/ frequency(candidates, m) = frequency(candidates, l) /\ Smaller(l, m)
  BY <1>7, <1>8 DEF Beats
<1>10. QED BY <1>9, Zenon DEF representative

-----------------------------------------------------------------------------
(* F5: the groups.                                                          *)

\* Near-duplication goes both ways.
LEMMA NearBothWays ==
    ASSUME NEW a \in Seq(Nat), NEW b \in Seq(Nat)
    PROVE  /\ _are_near_duplicate_lemmas(a, a)
           /\ _are_near_duplicate_lemmas(a, b) => _are_near_duplicate_lemmas(b, a)
<1>1. _are_near_duplicate_lemmas(a, a)
  BY DEF _are_near_duplicate_lemmas
<1>2. ASSUME _are_near_duplicate_lemmas(a, b) PROVE _are_near_duplicate_lemmas(b, a)
  <2>1. Len(a) \in Nat /\ Len(b) \in Nat
    BY LenProperties
  <2>2. CASE a = b
    BY <1>1, <2>2
  <2>3. CASE Len(a) = Len(b) /\ _rule1_same_length(a, b)
    BY <2>3 DEF _rule1_same_length, _are_near_duplicate_lemmas
  <2>4. CASE Len(a) # Len(b) /\ _rule2_prefix_relationship(a, b)
    <3>1. CASE Len(a) < Len(b)
      <4>1. ~(Len(b) < Len(a))
        BY <2>1, <3>1
      <4>2. _rule2_prefix_relationship(b, a)
        BY <2>4, <3>1, <4>1, Zenon DEF _rule2_prefix_relationship
      <4>3. QED BY <2>4, <4>2 DEF _are_near_duplicate_lemmas
    <3>2. CASE Len(b) < Len(a)
      <4>1. ~(Len(a) < Len(b))
        BY <2>1, <3>2
      <4>2. _rule2_prefix_relationship(b, a)
        BY <2>4, <3>2, <4>1, Zenon DEF _rule2_prefix_relationship
      <4>3. QED BY <2>4, <4>2 DEF _are_near_duplicate_lemmas
    <3>3. QED BY <2>1, <2>4, <3>1, <3>2
  <2>5. QED BY <1>2, <2>2, <2>3, <2>4 DEF _are_near_duplicate_lemmas
<1>3. QED BY <1>1, <1>2

\* The keys of some lemmas.
Keys(candidates) ==
    UNION {[D -> Lemmas(candidates)] : D \in SUBSET Lemmas(candidates)}

\* Claim of group_key.
Claimed(candidates, keys, c) ==
    LET new == {b \in Lemmas(candidates) : _are_near_duplicate_lemmas(c.lemma, b)}
    IN  IF c.lemma \in DOMAIN keys THEN keys
        ELSE [b \in DOMAIN keys \cup new |-> IF b \in DOMAIN keys THEN keys[b] ELSE c.lemma]

NearIsTransitive(candidates) ==
    \A a, b, c \in Lemmas(candidates) :
       _are_near_duplicate_lemmas(a, b) /\ _are_near_duplicate_lemmas(b, c)
       => _are_near_duplicate_lemmas(a, c)

\* The lemmas of the first `k` candidates have a key, and near-duplicates have the same
\* if they have one.
KeyedSoFar(keys, candidates, k) ==
    /\ keys \in Keys(candidates)
    /\ \A i \in 1..k : candidates[i].lemma \in DOMAIN keys
    /\ NearIsTransitive(candidates) =>
          \A a, b \in Lemmas(candidates) :
             _are_near_duplicate_lemmas(a, b) /\ a \in DOMAIN keys =>
                b \in DOMAIN keys /\ keys[a] = keys[b]

LEMMA KeysAre ==
    ASSUME NEW candidates, NEW keys
    PROVE  keys \in Keys(candidates) <=>
              /\ DOMAIN keys \subseteq Lemmas(candidates)
              /\ keys \in [DOMAIN keys -> Lemmas(candidates)]
BY DEF Keys

LEMMA ClaimKeeps ==
    ASSUME NEW candidates \in Seq(Candidate), NEW k \in Nat, k + 1 \in DOMAIN candidates,
           NEW keys, KeyedSoFar(keys, candidates, k)
    PROVE  KeyedSoFar(Claimed(candidates, keys, candidates[k + 1]), candidates, k + 1)
<1> DEFINE L == Lemmas(candidates)
           lemma == candidates[k + 1].lemma
           new == {b \in L : _are_near_duplicate_lemmas(lemma, b)}
           next == Claimed(candidates, keys, candidates[k + 1])
<1>1. lemma \in L /\ L \subseteq Seq(Nat)
  BY LemmasFound
<1>2. /\ keys \in Keys(candidates) /\ DOMAIN keys \subseteq L /\ keys \in [DOMAIN keys -> L]
      /\ \A i \in 1..k : candidates[i].lemma \in DOMAIN keys
  BY KeysAre DEF KeyedSoFar
<1>3. 1..(k + 1) = 1..k \cup {k + 1}
  OBVIOUS
<1>4. CASE lemma \in DOMAIN keys
  <2>1. next = keys
    BY <1>4 DEF Claimed
  <2>2. \A i \in 1..(k + 1) : candidates[i].lemma \in DOMAIN keys
    BY <1>2, <1>3, <1>4
  <2> HIDE DEF next
  <2>3. KeyedSoFar(next, candidates, k + 1)
    BY <2>1, <2>2, Zenon DEF KeyedSoFar
  <2>4. QED BY <2>3 DEF next
<1>5. CASE lemma \notin DOMAIN keys
  <2>1. next = [b \in DOMAIN keys \cup new |-> IF b \in DOMAIN keys THEN keys[b] ELSE lemma]
    BY <1>5, Zenon DEF Claimed
  <2>2. lemma \in new
    BY <1>1, NearBothWays
  <2>n. new \subseteq L /\ \A b \in L : b \in new <=> _are_near_duplicate_lemmas(lemma, b)
    OBVIOUS
  <2> HIDE DEF next, new, L
  <2>3. /\ DOMAIN next = DOMAIN keys \cup new
        /\ \A b \in DOMAIN keys : next[b] = keys[b]
        /\ \A b \in new \ DOMAIN keys : next[b] = lemma
    BY <2>1
  <2>4. next \in Keys(candidates)
    <3>1. DOMAIN next \subseteq L /\ \A b \in DOMAIN next : next[b] \in L
      BY <1>1, <1>2, <2>3, <2>n
    <3>2. next = [b \in DOMAIN next |-> next[b]]
      BY <2>1
    <3>3. QED BY <3>1, <3>2, KeysAre DEF L
  <2>5. \A i \in 1..(k + 1) : candidates[i].lemma \in DOMAIN next
    BY <1>2, <1>3, <2>2, <2>3 DEF lemma
  <2>6. ASSUME NearIsTransitive(candidates), NEW a \in L, NEW b \in L,
               _are_near_duplicate_lemmas(a, b), a \in DOMAIN next
        PROVE  b \in DOMAIN next /\ next[a] = next[b]
    <3>0. _are_near_duplicate_lemmas(b, a)
      BY <1>1, <2>6, NearBothWays
    <3>1. \A x, y \in L : _are_near_duplicate_lemmas(x, y) /\ x \in DOMAIN keys =>
                y \in DOMAIN keys /\ keys[x] = keys[y]
      BY <2>6 DEF KeyedSoFar, L
    <3>2. CASE a \in DOMAIN keys
      BY <2>3, <2>6, <3>1, <3>2
    <3>3. CASE a \notin DOMAIN keys
      <4>1. a \in new /\ b \notin DOMAIN keys
        BY <2>3, <2>6, <3>0, <3>1, <3>3
      <4>2. _are_near_duplicate_lemmas(lemma, b)
        BY <1>1, <2>6, <2>n, <4>1 DEF NearIsTransitive, L
      <4>3. QED BY <2>3, <2>n, <3>3, <4>1, <4>2
    <3>4. QED BY <3>2, <3>3
  <2>7. KeyedSoFar(next, candidates, k + 1)
    BY <2>4, <2>5, <2>6 DEF KeyedSoFar, L
  <2>8. QED BY <2>7 DEF next
<1>6. QED BY <1>4, <1>5

\* The equation that the fold of group_key solves.
Claims(f, candidates, D) ==
    f = [s \in SUBSET D |->
            IF s = {} THEN [lemma \in {} |-> lemma]
            ELSE Claimed(candidates, f[s \ {Max(s)}], candidates[Max(s)])]

\* It has a solution.
LEMMA ClaimsExists ==
    ASSUME NEW candidates \in Seq(Candidate)
    PROVE  \E f : Claims(f, candidates, 1..Len(candidates))
<1> DEFINE n == Len(candidates)
           Acc == Keys(candidates)
           step == [p \in Acc \X (1..n) |-> Claimed(candidates, p[1], candidates[p[2]])]
           none == [lemma \in {} |-> lemma]
<1>0. n \in Nat /\ \A i \in 1..n : candidates[i].lemma \in Lemmas(candidates)
  BY LemmasFound
<1>1. ASSUME NEW keys \in Acc, NEW i \in 1..n
      PROVE  Claimed(candidates, keys, candidates[i]) \in Acc
  <2> DEFINE next == Claimed(candidates, keys, candidates[i])
             new == {b \in Lemmas(candidates) : _are_near_duplicate_lemmas(candidates[i].lemma, b)}
  <2>1. DOMAIN keys \subseteq Lemmas(candidates) /\ keys \in [DOMAIN keys -> Lemmas(candidates)]
    BY KeysAre
  <2>2. CASE candidates[i].lemma \in DOMAIN keys
    BY <2>2 DEF Claimed
  <2>3. CASE candidates[i].lemma \notin DOMAIN keys
    <3>1. next = [b \in DOMAIN keys \cup new |->
                     IF b \in DOMAIN keys THEN keys[b] ELSE candidates[i].lemma]
      BY <2>3, Zenon DEF Claimed
    <3>2. new \subseteq Lemmas(candidates)
      OBVIOUS
    <3> HIDE DEF next, new
    <3>3. /\ DOMAIN next = DOMAIN keys \cup new /\ next = [b \in DOMAIN next |-> next[b]]
          /\ \A b \in DOMAIN next : next[b] \in Lemmas(candidates)
      BY <1>0, <2>1, <3>1, <3>2
    <3>4. next \in Keys(candidates)
      BY <2>1, <3>2, <3>3, KeysAre
    <3>5. QED BY <3>4 DEF next
  <2>4. QED BY <2>2, <2>3
<1>2. none \in Acc
  BY KeysAre
<1> HIDE DEF n, Acc, none
<1>3. step \in [Acc \X (1..n) -> Acc] /\ \A keys \in Acc, i \in 1..n :
         step[<<keys, i>>] = Claimed(candidates, keys, candidates[i])
  BY <1>1
<1> HIDE DEF step
<1>4. PICK f \in [SUBSET (1..n) -> Acc] : FoldsBy(f, none, n, step)
  BY <1>0, <1>2, <1>3, FoldExists
<1>5. ASSUME NEW s \in SUBSET (1..n)
      PROVE  f[s] = IF s = {} THEN none
                    ELSE Claimed(candidates, f[s \ {Max(s)}], candidates[Max(s)])
  <2>1. CASE s = {}
    BY <1>4, <2>1 DEF FoldsBy
  <2>2. CASE s # {}
    <3>1. Max(s) \in 1..n
      BY <1>0, <2>2, LastOfSome
    <3>2. f[s \ {Max(s)}] \in Acc
      OBVIOUS
    <3>3. f[s] = step[<<f[s \ {Max(s)}], Max(s)>>]
      BY <1>4, <2>2, Zenon DEF FoldsBy
    <3>4. QED BY <1>3, <2>2, <3>1, <3>2, <3>3, Zenon
  <2>3. QED BY <2>1, <2>2
<1>6. f = [s \in SUBSET (1..n) |-> f[s]]
  OBVIOUS
<1>7. Claims(f, candidates, 1..n)
  BY <1>5, <1>6, Zenon DEF Claims, none
<1>8. QED BY <1>7 DEF n

\* In the end every lemma has a key.
LEMMA AllKeyed ==
    ASSUME NEW candidates \in Seq(Candidate)
    PROVE  KeyedSoFar(group_key(candidates), candidates, Len(candidates))
<1> DEFINE n == Len(candidates)
           none == [lemma \in {} |-> lemma]
           f == CHOOSE g : Claims(g, candidates, 1..n)
           S == {k \in Nat : k <= n => KeyedSoFar(f[1..k], candidates, k)}
<1>0. n \in Nat /\ DOMAIN candidates = 1..n
  BY LenProperties
<1>1. group_key(candidates) = (CHOOSE g : Claims(g, candidates, DOMAIN candidates))[DOMAIN candidates]
  BY Zenon DEF group_key, FoldLeft, MapThenFoldSet, Claims, Claimed
<1>2. group_key(candidates) = f[1..n]
  BY <1>0, <1>1, Zenon
<1>3. Claims(f, candidates, 1..n)
  <2>1. \E g : Claims(g, candidates, 1..n)
    BY ClaimsExists
  <2>2. QED BY <2>1, Zenon
<1> HIDE DEF f
<1>4. \A s \in SUBSET (1..n) :
         f[s] = IF s = {} THEN none ELSE Claimed(candidates, f[s \ {Max(s)}], candidates[Max(s)])
  BY <1>3, Zenon DEF Claims
<1>n. none \in Keys(candidates) /\ DOMAIN none = {}
  BY KeysAre
<1> HIDE DEF n, none
<1>5. 0 \in S
  <2>1. 1..0 = {} /\ {} \in SUBSET (1..n)
    OBVIOUS
  <2>2. f[1..0] = none
    BY <1>4, <2>1
  <2>3. KeyedSoFar(none, candidates, 0)
    BY <1>n DEF KeyedSoFar
  <2>4. QED BY <2>2, <2>3
<1>6. ASSUME NEW k \in Nat, k < n, k \in S PROVE k + 1 \in S
  <2>1. Max(1..(k + 1)) = k + 1 /\ 1..(k + 1) \ {k + 1} = 1..k /\ 1..(k + 1) # {}
    BY LastOfFirst
  <2>2. 1..(k + 1) \in SUBSET (1..n) /\ k + 1 \in 1..n
    BY <1>0, <1>6
  <2>3. f[1..(k + 1)] = Claimed(candidates, f[1..k], candidates[k + 1])
    BY <1>4, <2>1, <2>2, Zenon
  <2>4. KeyedSoFar(f[1..k], candidates, k)
    BY <1>0, <1>6
  <2>5. KeyedSoFar(f[1..(k + 1)], candidates, k + 1)
    <3> DEFINE keys == f[1..k]
    <3>1. KeyedSoFar(keys, candidates, k) /\ k + 1 \in DOMAIN candidates
      BY <1>0, <2>2, <2>4
    <3> HIDE DEF keys
    <3>2. KeyedSoFar(Claimed(candidates, keys, candidates[k + 1]), candidates, k + 1)
      BY <3>1, ClaimKeeps
    <3>3. QED BY <2>3, <3>2 DEF keys
  <2>6. QED BY <2>5
<1>7. n \in S
  <2> HIDE DEF S
  <2>1. QED BY <1>0, <1>5, <1>6, InductiveUpTo
<1>8. n <= n
  BY <1>0
<1>9. QED BY <1>2, <1>7, <1>8 DEF n

\* The lemmas of one key, and where they were found.
Group(candidates, key) ==
    {m \in DOMAIN group_key(candidates) : group_key(candidates)[m] = key}

Seen(candidates, key) == UNION {Found(candidates, m) : m \in Group(candidates, key)}

\* The groups divide the lemmas, and where near-duplication is transitive hold all the
\* near-duplicates of their members.
LEMMA GroupsDivide ==
    ASSUME NEW candidates \in Seq(Candidate)
    PROVE  /\ DOMAIN group_key(candidates) = Lemmas(candidates)
           /\ Range(group_key(candidates)) \subseteq Lemmas(candidates)
           /\ IsFiniteSet(Range(group_key(candidates)))
           /\ \A key \in Range(group_key(candidates)) :
                 Group(candidates, key) \subseteq Lemmas(candidates) /\ Group(candidates, key) # {}
           /\ NearIsTransitive(candidates) =>
                 \A a, b \in Lemmas(candidates) :
                    _are_near_duplicate_lemmas(a, b) => group_key(candidates)[a] = group_key(candidates)[b]
<1> DEFINE keys == group_key(candidates)
           L == Lemmas(candidates)
<1>1. KeyedSoFar(keys, candidates, Len(candidates))
  BY AllKeyed
<1>2. DOMAIN candidates = 1..Len(candidates) /\ IsFiniteSet(L)
  BY LemmasFound
<1> HIDE DEF keys
<1>3. DOMAIN keys \subseteq L /\ keys \in [DOMAIN keys -> L]
  BY <1>1, KeysAre DEF KeyedSoFar
<1>4. DOMAIN keys = L
  BY <1>1, <1>2, <1>3 DEF KeyedSoFar, Lemmas
<1>5. Range(keys) \subseteq L
  BY <1>3 DEF Range
<1>6. IsFiniteSet(Range(keys))
  BY <1>2, <1>5, FS_Subset
<1>7. \A key \in Range(keys) : {m \in DOMAIN keys : keys[m] = key} \subseteq L
                               /\ {m \in DOMAIN keys : keys[m] = key} # {}
  BY <1>4 DEF Range
<1>8. NearIsTransitive(candidates) => \A a, b \in L :
         _are_near_duplicate_lemmas(a, b) => keys[a] = keys[b]
  BY <1>1, <1>4 DEF KeyedSoFar
<1>9. QED BY <1>4, <1>5, <1>6, <1>7, <1>8 DEF keys, Group

\* What a term says: its lemma is of its group, its key is that lemma's, and it counts
\* all that was found of the group.
LEMMA TermSays ==
    ASSUME NEW candidates \in Seq(Candidate), NEW term \in _merge_near_duplicates(candidates)
    PROVE  LET key == group_key(candidates)[term.lemma] IN
           /\ term.lemma \in Lemmas(candidates)
           /\ key \in Range(group_key(candidates))
           /\ term = merged_term(candidates, Group(candidates, key))
           /\ term.frequency = Cardinality(Seen(candidates, key))
           /\ term.chunks = {candidates[i].chunk : i \in Seen(candidates, key)}
           /\ term.source = candidates[Min(Found(candidates, term.lemma))].chunk
<1>1. PICK key \in Range(group_key(candidates)) : term = merged_term(candidates, Group(candidates, key))
  BY DEF _merge_near_duplicates, Group
<1> DEFINE members == Group(candidates, key)
<1>2. members \in SUBSET Lemmas(candidates) /\ members # {}
  BY GroupsDivide
<1>3. /\ term.lemma = representative(candidates, members)
      /\ term.frequency = Cardinality(Seen(candidates, key))
      /\ term.chunks = {candidates[i].chunk : i \in Seen(candidates, key)}
      /\ term.source = candidates[Min(Found(candidates, term.lemma))].chunk
  BY <1>1, Zenon DEF merged_term, Seen
<1> HIDE DEF members
<1>4. term.lemma \in members
  BY <1>2, <1>3, RepresentativeOfGroup
<1>5. group_key(candidates)[term.lemma] = key
  BY <1>4 DEF members, Group
<1>6. QED BY <1>1, <1>2, <1>3, <1>4, <1>5

\* TermsAreDistinct and TermsAccountForAll of one answer.
Distinct(candidates, terms) ==
    LET Near(a, b) == _are_near_duplicate_lemmas(a, b) \/ _are_near_duplicate_lemmas(b, a)
        lemmas     == Lemmas(candidates)
    IN  (\A a, b, c \in lemmas : Near(a, b) /\ Near(b, c) => Near(a, c))
        => \A t, u \in terms : Near(t.lemma, u.lemma) => t = u

LEMMA DistinctTerms ==
    ASSUME NEW candidates \in Seq(Candidate), NEW terms \in SUBSET _merge_near_duplicates(candidates)
    PROVE  Distinct(candidates, terms)
<1>1. Lemmas(candidates) \subseteq Seq(Nat)
  BY LemmasFound
<1>2. \A a, b \in Lemmas(candidates) :
         _are_near_duplicate_lemmas(a, b) <=> _are_near_duplicate_lemmas(b, a)
  BY <1>1, NearBothWays
<1>3. ASSUME NearIsTransitive(candidates), NEW t \in terms, NEW u \in terms,
             _are_near_duplicate_lemmas(t.lemma, u.lemma) \/ _are_near_duplicate_lemmas(u.lemma, t.lemma)
      PROVE  t = u
  <2>1. t.lemma \in Lemmas(candidates) /\ u.lemma \in Lemmas(candidates)
    BY TermSays
  <2>2. group_key(candidates)[t.lemma] = group_key(candidates)[u.lemma]
    BY <1>2, <1>3, <2>1, GroupsDivide
  <2>3. /\ t = merged_term(candidates, Group(candidates, group_key(candidates)[t.lemma]))
        /\ u = merged_term(candidates, Group(candidates, group_key(candidates)[u.lemma]))
    BY TermSays
  <2>4. QED BY <2>2, <2>3
<1>4. (\A a, b, c \in Lemmas(candidates) :
          /\ _are_near_duplicate_lemmas(a, b) \/ _are_near_duplicate_lemmas(b, a)
          /\ _are_near_duplicate_lemmas(b, c) \/ _are_near_duplicate_lemmas(c, b)
          => _are_near_duplicate_lemmas(a, c) \/ _are_near_duplicate_lemmas(c, a))
      => NearIsTransitive(candidates)
  BY <1>2 DEF NearIsTransitive
<1>5. QED BY <1>3, <1>4 DEF Distinct

Accounted(candidates, top_n, terms) ==
    LET counted == MapThenSumSet(LAMBDA term : term.frequency, terms)
        chunks  == UNION {term.chunks : term \in terms}
        inAll   == {c.chunk : c \in Range(candidates)}
    IN  /\ counted <= Len(candidates) /\ chunks \subseteq inAll
        /\ Cardinality(terms) < top_n => counted = Len(candidates) /\ chunks = inAll
        /\ \A term \in terms : [lemma |-> term.lemma, chunk |-> term.source] \in Range(candidates)

\* The terms' occurrences: each a place of a candidate, no place with two terms, and all
\* the places with all the terms.
LEMMA OccurrencesDivide ==
    ASSUME NEW candidates \in Seq(Candidate)
    PROVE  /\ IsFiniteSet(_merge_near_duplicates(candidates))
           /\ \A t \in _merge_near_duplicates(candidates) :
                 Seen(candidates, group_key(candidates)[t.lemma]) \subseteq DOMAIN candidates
           /\ \A t, u \in _merge_near_duplicates(candidates) : t # u =>
                 Seen(candidates, group_key(candidates)[t.lemma])
                    \cap Seen(candidates, group_key(candidates)[u.lemma]) = {}
           /\ UNION {Seen(candidates, group_key(candidates)[t.lemma]) :
                       t \in _merge_near_duplicates(candidates)} = DOMAIN candidates
<1> DEFINE keys == group_key(candidates)
           K == Range(keys)
           terms == _merge_near_duplicates(candidates)
           termOf == [key \in K |-> merged_term(candidates, Group(candidates, key))]
<1>1. \A i \in DOMAIN candidates : candidates[i].lemma \in DOMAIN keys /\ keys[candidates[i].lemma] \in K
  BY LemmasFound, GroupsDivide DEF Range
<1>2. \A key : \A i : i \in Seen(candidates, key) <=>
         i \in DOMAIN candidates /\ candidates[i].lemma \in DOMAIN keys /\ keys[candidates[i].lemma] = key
  BY DEF Seen, Found, Group
<1>3. terms = {termOf[key] : key \in K}
  <2>1. terms = {merged_term(candidates, members) :
                    members \in {Group(candidates, key) : key \in K}}
    BY Zenon DEF _merge_near_duplicates, Group
  <2> HIDE DEF terms, keys, K
  <2>2. \A key \in K : termOf[key] = merged_term(candidates, Group(candidates, key))
    OBVIOUS
  <2> HIDE DEF termOf
  <2>3. QED BY <2>1, <2>2
<1>4. IsFiniteSet(terms)
  <2>1. IsFiniteSet(K)
    BY GroupsDivide
  <2> HIDE DEF K, terms
  <2>2. termOf \in Surjection(K, terms)
    BY <1>3 DEF Surjection
  <2>3. QED BY <2>1, <2>2, FS_Surjection
<1>5. \A t \in terms : /\ keys[t.lemma] \in K
                       /\ t = merged_term(candidates, Group(candidates, keys[t.lemma]))
  BY TermSays
<1>6. ASSUME NEW t \in terms, NEW u \in terms, t # u PROVE keys[t.lemma] # keys[u.lemma]
  BY <1>5, <1>6
<1>7. ASSUME NEW i \in DOMAIN candidates
      PROVE  \E t \in terms : i \in Seen(candidates, keys[t.lemma])
  <2> DEFINE key == keys[candidates[i].lemma]
             members == Group(candidates, key)
             t == merged_term(candidates, members)
  <2>1. key \in K
    BY <1>1
  <2>2. t \in terms
    BY <2>1 DEF _merge_near_duplicates, Group
  <2>3. t.lemma \in members
    <3>1. members \in SUBSET Lemmas(candidates) /\ members # {}
      BY <2>1, GroupsDivide
    <3> HIDE DEF members
    <3>2. t.lemma = representative(candidates, members)
      BY Zenon DEF merged_term
    <3>3. QED BY <3>1, <3>2, RepresentativeOfGroup
  <2>4. keys[t.lemma] = key
    BY <2>3 DEF Group
  <2>5. i \in Seen(candidates, key)
    BY <1>1, <1>2
  <2> HIDE DEF t, key, terms
  <2>6. QED BY <2>2, <2>4, <2>5
<1> HIDE DEF keys, terms
<1>8. \A t \in terms : Seen(candidates, keys[t.lemma]) \subseteq DOMAIN candidates
  BY <1>2
<1>9. \A t, u \in terms : t # u =>
         Seen(candidates, keys[t.lemma]) \cap Seen(candidates, keys[u.lemma]) = {}
  BY <1>2, <1>6
<1>10. UNION {Seen(candidates, keys[t.lemma]) : t \in terms} = DOMAIN candidates
  BY <1>7, <1>8
<1>11. QED BY <1>4, <1>8, <1>9, <1>10 DEF keys, terms

LEMMA TermsAccount ==
    ASSUME NEW candidates \in Seq(Candidate), NEW top_n \in Nat,
           NEW terms \in _extract_terms(candidates, top_n)
    PROVE  /\ terms \subseteq _merge_near_duplicates(candidates)
           /\ Accounted(candidates, top_n, terms)
<1> DEFINE all == _merge_near_duplicates(candidates)
           D == DOMAIN candidates
           part == [t \in terms |-> Seen(candidates, group_key(candidates)[t.lemma])]
           places == UNION {part[t] : t \in terms}
           counted == MapThenSumSet(LAMBDA term : term.frequency, terms)
<1>1. terms \subseteq all /\ Cardinality(terms) = Min({top_n, Cardinality(all)})
  BY Zenon DEF _extract_terms, kSubset
<1>2. IsFiniteSet(all) /\ IsFiniteSet(terms) /\ Cardinality(all) \in Nat
  BY <1>1, OccurrencesDivide, FS_Subset, FS_CardinalityType
<1>3. Cardinality(terms) < top_n => terms = all
  <2> HIDE DEF all
  <2>1. Min({top_n, Cardinality(all)}) \in {top_n, Cardinality(all)}
    <3>1. \E x \in {top_n, Cardinality(all)} : \A y \in {top_n, Cardinality(all)} : x <= y
      BY <1>2
    <3>2. QED BY <3>1 DEF Min
  <2>2. Cardinality(terms) < top_n => Cardinality(terms) = Cardinality(all)
    BY <1>1, <2>1
  <2>3. QED BY <1>1, <1>2, <2>2, FS_Subset
<1>4. /\ IsFiniteSet(D) /\ Cardinality(D) = Len(candidates) /\ Len(candidates) \in Nat
      /\ D = 1..Len(candidates) /\ \A i \in D : candidates[i] \in Candidate
  BY LemmasFound
<1>5. /\ \A t \in terms : part[t] \in SUBSET D
      /\ \A t, u \in terms : t # u => part[t] \cap part[u] = {}
      /\ terms = all => places = D
  BY <1>1, OccurrencesDivide
<1>6. \A t \in terms : /\ t.frequency = Cardinality(part[t])
                       /\ t.chunks = {candidates[i].chunk : i \in part[t]}
                       /\ t.lemma \in Lemmas(candidates)
                       /\ t.source = candidates[Min(Found(candidates, t.lemma))].chunk
  BY <1>1, TermSays
<1>7. part \in [terms -> SUBSET D]
  BY <1>5
<1> HIDE DEF part, all, D
<1>8. places \subseteq D
  BY <1>5
<1>9. counted = Cardinality(places)
  <2>1. PICK f : Sums(f, terms) /\ \A g : Sums(g, terms) => g[terms] = Cardinality(places)
    BY <1>2, <1>4, <1>5, <1>6, <1>7, SumOfParts
  <2>2. counted = (CHOOSE g : Sums(g, terms))[terms]
    BY Zenon DEF MapThenSumSet, MapThenFoldSet, Sums
  <2> HIDE DEF counted, places
  <2>3. QED BY <2>1, <2>2, Zenon
<1>10. counted <= Len(candidates) /\ (terms = all => counted = Len(candidates))
  <2> HIDE DEF counted, places
  <2>1. Cardinality(places) <= Cardinality(D)
    BY <1>4, <1>8, FS_Subset
  <2>2. QED BY <1>4, <1>5, <1>9, <2>1
<1> HIDE DEF counted
<1>11. UNION {term.chunks : term \in terms} = {candidates[i].chunk : i \in places}
  BY <1>6
<1>12. {c.chunk : c \in Range(candidates)} = {candidates[i].chunk : i \in D}
  BY DEF Range, D
<1>13. ASSUME NEW term \in terms
       PROVE  [lemma |-> term.lemma, chunk |-> term.source] \in Range(candidates)
  <2> DEFINE F == Found(candidates, term.lemma)
  <2>1. F \in SUBSET Nat /\ F # {} /\ F \subseteq D
    <3>1. F \subseteq D
      BY DEF Found, D
    <3>2. F # {}
      BY <1>6 DEF Found, Lemmas
    <3> HIDE DEF F
    <3>3. QED BY <1>4, <3>1, <3>2
  <2>2. Min(F) \in F
    <3> HIDE DEF F
    <3>1. \E n \in F : \A m \in F : n <= m
      BY <2>1, SmallestMember
    <3>2. QED BY <3>1 DEF Min
  <2>3. PICK i \in D : i = Min(F) /\ candidates[i].lemma = term.lemma
    BY <2>1, <2>2 DEF Found
  <2>4. candidates[i] \in Candidate /\ term.source = candidates[i].chunk
    BY <1>4, <1>6, <2>3
  <2> HIDE DEF F
  <2>5. candidates[i] = [lemma |-> term.lemma, chunk |-> term.source]
    BY <2>3, <2>4 DEF Candidate
  <2>6. candidates[i] \in Range(candidates)
    BY <2>3 DEF Range, D
  <2>7. QED BY <2>5, <2>6
<1>14. /\ UNION {term.chunks : term \in terms} \subseteq {c.chunk : c \in Range(candidates)}
       /\ terms = all => UNION {term.chunks : term \in terms} = {c.chunk : c \in Range(candidates)}
  <2> HIDE DEF places
  <2>1. QED BY <1>5, <1>8, <1>11, <1>12
<1>15. Accounted(candidates, top_n, terms)
  BY <1>3, <1>10, <1>13, <1>14, Zenon DEF Accounted, counted
<1>16. QED BY <1>1, <1>15 DEF all

\* F5: where near-duplication is transitive no two terms of an answer are near-duplicates
\* of one another, for any candidates and however many terms are asked for.
THEOREM TermsNotAlike == Spec => []TermsAreDistinct
<1>1. OneRequest => TermsAreDistinct
  <2> SUFFICES ASSUME OneRequest, answered, request.op = "F5" PROVE TermsAreDistinct
    BY DEF TermsAreDistinct, Answered
  <2>1. /\ request.candidates \in Seq(Candidate) /\ request.top_n \in Nat
        /\ answer \in _extract_terms(request.candidates, request.top_n)
    BY AgentsAssumption DEF OneRequest
  <2>2. answer \in SUBSET _merge_near_duplicates(request.candidates)
    BY <2>1, TermsAccount
  <2>3. Distinct(request.candidates, answer)
    BY <2>1, <2>2, DistinctTerms
  <2>4. QED BY <2>3, Zenon DEF TermsAreDistinct, Distinct
<1>2. QED BY <1>1, OneRequestCorrect, PTL

\* F5: merging near-duplicates loses no occurrence of a candidate and counts none twice,
\* for any candidates and endings, near-duplication transitive or not.
THEOREM TermsLoseNothing == Spec => []TermsAccountForAll
<1>1. OneRequest => TermsAccountForAll
  <2> SUFFICES ASSUME OneRequest, answered, request.op = "F5" PROVE TermsAccountForAll
    BY DEF TermsAccountForAll, Answered
  <2>1. /\ request.candidates \in Seq(Candidate) /\ request.top_n \in Nat
        /\ answer \in _extract_terms(request.candidates, request.top_n)
    BY AgentsAssumption DEF OneRequest
  <2>2. Accounted(request.candidates, request.top_n, answer)
    BY <2>1, TermsAccount
  <2>3. QED BY <2>2, Zenon DEF TermsAccountForAll, Accounted
<1>2. QED BY <1>1, OneRequestCorrect, PTL

-----------------------------------------------------------------------------
(* F1 and F2: the chunks.                                                   *)

\* The length of the segments of a chunk, joined with blanks; -1 of none.
Joined(segments, chunk) == FoldLeft(LAMBDA sum, i : sum + segments[i] + 1, -1, chunk)

\* The equation that this fold solves.
Joins(f, segments, chunk, D) ==
    f = [s \in SUBSET D |->
            IF s = {} THEN -1 ELSE f[s \ {Max(s)}] + segments[chunk[Max(s)]] + 1]

\* It is a sum, one segment after another.
LEMMA JoinedSums ==
    ASSUME NEW segments \in Seq(Nat), NEW chunk \in Seq(DOMAIN segments)
    PROVE  \E j \in [0..Len(chunk) -> Int] :
              /\ j[0] = -1 /\ j[Len(chunk)] = Joined(segments, chunk)
              /\ \A k \in Nat : k + 1 \in 1..Len(chunk) =>
                    j[k + 1] = j[k] + segments[chunk[k + 1]] + 1
<1> DEFINE n == Len(chunk)
           step == [p \in Int \X (1..n) |-> p[1] + segments[chunk[p[2]]] + 1]
           f == CHOOSE g : Joins(g, segments, chunk, 1..n)
           j == [k \in 0..n |-> f[1..k]]
<1>1. n \in Nat /\ DOMAIN chunk = 1..n /\ \A i \in 1..n : segments[chunk[i]] \in Nat
  <2>1. n \in Nat /\ DOMAIN chunk = 1..n /\ \A i \in 1..n : chunk[i] \in DOMAIN segments
    BY LenProperties, ElementOfSeq
  <2>2. \A i \in DOMAIN segments : segments[i] \in Nat
    BY LenProperties, ElementOfSeq
  <2>3. QED BY <2>1, <2>2
<1>2. Joined(segments, chunk) = (CHOOSE g : Joins(g, segments, chunk, DOMAIN chunk))[DOMAIN chunk]
  BY Zenon DEF Joined, FoldLeft, MapThenFoldSet, Joins
<1>3. Joined(segments, chunk) = f[1..n]
  BY <1>1, <1>2, Zenon
<1> HIDE DEF n, j, step
<1>4. \E g \in [SUBSET (1..n) -> Int] : Joins(g, segments, chunk, 1..n)
  <2>0. ASSUME NEW sum \in Int, NEW i \in 1..n PROVE sum + segments[chunk[i]] + 1 \in Int
    <3>1. segments[chunk[i]] \in Nat
      BY <1>1
    <3>2. QED BY <3>1
  <2>1. step \in [Int \X (1..n) -> Int] /\ \A sum \in Int, i \in 1..n :
           step[<<sum, i>>] = sum + segments[chunk[i]] + 1
    BY <2>0 DEF step
  <2>2. -1 \in Int
    OBVIOUS
  <2>3. PICK g \in [SUBSET (1..n) -> Int] : FoldsBy(g, -1, n, step)
    BY <1>1, <2>1, <2>2, FoldExists
  <2>4. ASSUME NEW s \in SUBSET (1..n)
        PROVE  g[s] = IF s = {} THEN -1 ELSE g[s \ {Max(s)}] + segments[chunk[Max(s)]] + 1
    <3>1. CASE s = {}
      BY <2>3, <3>1 DEF FoldsBy
    <3>2. CASE s # {}
      <4>1. Max(s) \in 1..n
        BY <1>1, <3>2, LastOfSome
      <4>2. g[s \ {Max(s)}] \in Int
        OBVIOUS
      <4>3. g[s] = step[<<g[s \ {Max(s)}], Max(s)>>]
        BY <2>3, <3>2, Zenon DEF FoldsBy
      <4>4. QED BY <2>1, <3>2, <4>1, <4>2, <4>3, Zenon
    <3>3. QED BY <3>1, <3>2
  <2>5. g = [s \in SUBSET (1..n) |-> g[s]]
    OBVIOUS
  <2>6. Joins(g, segments, chunk, 1..n)
    BY <2>4, <2>5, Zenon DEF Joins
  <2>7. QED BY <2>6
<1>5. Joins(f, segments, chunk, 1..n)
  BY <1>4, Zenon
<1> HIDE DEF f
<1>6. \A s \in SUBSET (1..n) :
         f[s] = IF s = {} THEN -1 ELSE f[s \ {Max(s)}] + segments[chunk[Max(s)]] + 1
  BY <1>5, Zenon DEF Joins
<1>7. f[1..0] = -1
  <2>1. 1..0 = {} /\ {} \in SUBSET (1..n)
    OBVIOUS
  <2>2. QED BY <1>6, <2>1
<1>8. ASSUME NEW k \in Nat, k + 1 \in 1..n
      PROVE  f[1..(k + 1)] = f[1..k] + segments[chunk[k + 1]] + 1
  <2>1. Max(1..(k + 1)) = k + 1 /\ 1..(k + 1) \ {k + 1} = 1..k /\ 1..(k + 1) # {}
    BY LastOfFirst
  <2>2. 1..(k + 1) \in SUBSET (1..n)
    BY <1>1, <1>8
  <2>3. QED BY <1>6, <2>1, <2>2, Zenon
<1>9. \A k \in 0..n : f[1..k] \in Int
  <2> DEFINE S == {k \in Nat : k <= n => f[1..k] \in Int}
  <2>1. 0 \in S
    BY <1>7
  <2>2. ASSUME NEW k \in S PROVE k + 1 \in S
    <3>1. ASSUME k + 1 <= n PROVE f[1..(k + 1)] \in Int
      <4>1. k \in Nat /\ k + 1 \in 1..n /\ f[1..k] \in Int
        BY <1>1, <3>1
      <4>2. f[1..(k + 1)] = f[1..k] + segments[chunk[k + 1]] + 1 /\ segments[chunk[k + 1]] \in Nat
        BY <1>1, <1>8, <4>1
      <4> HIDE DEF S
      <4>3. QED BY <4>1, <4>2
    <3>2. QED BY <3>1
  <2>3. S = Nat
    <3>1. S \in SUBSET Nat
      OBVIOUS
    <3> HIDE DEF S
    <3>2. QED BY <2>1, <2>2, <3>1, InductiveSet
  <2>4. ASSUME NEW k \in 0..n PROVE f[1..k] \in Int
    <3>1. k \in S /\ k <= n
      <4> HIDE DEF S
      <4>1. QED BY <1>1, <2>3
    <3>2. QED BY <3>1
  <2>5. QED BY <2>4
<1>10. /\ j \in [0..n -> Int] /\ j[0] = -1 /\ j[n] = Joined(segments, chunk)
       /\ \A k \in Nat : k + 1 \in 1..n => j[k + 1] = j[k] + segments[chunk[k + 1]] + 1
  <2>1. 0 \in 0..n /\ n \in 0..n /\ \A k \in Nat : k + 1 \in 1..n => k \in 0..n /\ k + 1 \in 0..n
    BY <1>1
  <2>2. \A k \in 0..n : j[k] = f[1..k]
    BY DEF j
  <2>3. j \in [0..n -> Int]
    BY <1>9 DEF j
  <2>4. QED BY <1>3, <1>7, <1>8, <2>1, <2>2, <2>3
<1>11. QED BY <1>10 DEF n

\* One segment more.
LEMMA JoinedAppend ==
    ASSUME NEW segments \in Seq(Nat), NEW chunk \in Seq(DOMAIN segments), NEW i \in DOMAIN segments
    PROVE  /\ Joined(segments, chunk) \in Int
           /\ Joined(segments, Append(chunk, i)) = Joined(segments, chunk) + segments[i] + 1
<1> DEFINE n == Len(chunk)
           more == Append(chunk, i)
<1>1. n \in Nat /\ more \in Seq(DOMAIN segments) /\ Len(more) = n + 1 /\ more[n + 1] = i
      /\ \A k \in 1..n : more[k] = chunk[k]
  BY LenProperties, AppendProperties
<1>2. PICK j \in [0..n -> Int] :
         /\ j[0] = -1 /\ j[n] = Joined(segments, chunk)
         /\ \A k \in Nat : k + 1 \in 1..n => j[k + 1] = j[k] + segments[chunk[k + 1]] + 1
  BY JoinedSums
<1> HIDE DEF more, n
<1>3. PICK h :
         /\ h[0] = -1 /\ h[n + 1] = Joined(segments, more)
         /\ \A k \in Nat : k + 1 \in 1..(n + 1) => h[k + 1] = h[k] + segments[more[k + 1]] + 1
  <2>1. more \in Seq(DOMAIN segments) /\ Len(more) = n + 1
    BY <1>1
  <2>2. PICK h \in [0..Len(more) -> Int] :
           /\ h[0] = -1 /\ h[Len(more)] = Joined(segments, more)
           /\ \A k \in Nat : k + 1 \in 1..Len(more) => h[k + 1] = h[k] + segments[more[k + 1]] + 1
    BY <2>1, JoinedSums
  <2>3. QED BY <2>1, <2>2
<1> DEFINE S == {k \in Nat : k <= n => h[k] = j[k]}
<1>4. 0 \in S
  BY <1>2, <1>3
<1>5. ASSUME NEW k \in S PROVE k + 1 \in S
  <2>1. ASSUME k + 1 <= n PROVE h[k + 1] = j[k + 1]
    <3>1. k \in Nat /\ k + 1 \in 1..n /\ k + 1 \in 1..(n + 1) /\ h[k] = j[k]
      BY <1>1, <2>1
    <3> HIDE DEF S
    <3>2. /\ h[k + 1] = h[k] + segments[more[k + 1]] + 1
          /\ j[k + 1] = j[k] + segments[chunk[k + 1]] + 1
      BY <1>2, <1>3, <3>1
    <3>3. QED BY <1>1, <3>1, <3>2
  <2>2. QED BY <2>1
<1>6. S = Nat
  <2>1. S \in SUBSET Nat
    OBVIOUS
  <2> HIDE DEF S
  <2>2. QED BY <1>4, <1>5, <2>1, InductiveSet
<1>7. h[n] = j[n]
  <2>1. n \in S /\ n <= n
    <3> HIDE DEF S
    <3>1. QED BY <1>1, <1>6
  <2>2. QED BY <2>1
<1> HIDE DEF S
<1>8. h[n + 1] = h[n] + segments[i] + 1
  <2>1. n + 1 \in 1..(n + 1)
    BY <1>1
  <2>2. QED BY <1>1, <1>3, <2>1
<1>9. j[n] \in Int
  <2>1. n \in 0..n
    BY <1>1
  <2>2. QED BY <2>1
<1>10. QED BY <1>2, <1>3, <1>7, <1>8, <1>9 DEF more

\* Segments, each before those that follow it: those of `S`, in their order.
Ascending(order, S) ==
    /\ order \in Seq(S) /\ Range(order) = S
    /\ \A i, j \in DOMAIN order : i < j => order[i] < order[j]

\* There is one such order.
LEMMA AscendingIsInOrder ==
    ASSUME NEW S \in SUBSET Int, IsFiniteSet(S), NEW order, Ascending(order, S)
    PROVE  order = InOrder(S, <)
<1> DEFINE R == {p \in S \X S : p[1] < p[2]}
           n == Cardinality(S)
           t == InOrder(S, <)
<1>1. n \in Nat /\ t \in [1..n -> S] /\ Range(t) = S /\ t \in SetToSeqs(S)
      /\ \A i, j \in DOMAIN t : i < j => t[i] < t[j]
  <2>1. n \in Nat
    BY FS_CardinalityType
  <2>2. \A i \in S : i \in Int
    OBVIOUS
  <2>3. PICK s \in SetToSeqs(S) : Ascends(s, R)
    <3>1. \A i, j \in S : <<i, j>> \in R <=> i < j
      OBVIOUS
    <3> HIDE DEF R
    <3>2. \A i \in S : <<i, i>> \notin R
      BY <2>2, <3>1
    <3>3. \A i, j \in S : i # j => <<i, j>> \in R \/ <<j, i>> \in R
      BY <2>2, <3>1
    <3>4. \A i, j, k \in S : <<i, j>> \in R /\ <<j, k>> \in R => <<i, k>> \in R
      BY <2>2, <3>1
    <3>5. QED BY <3>2, <3>3, <3>4, OrderExists
  <2>4. \A i, j \in DOMAIN s : i < j => s[i] < s[j]
    BY <2>3 DEF Ascends
  <2>5. t = CHOOSE q \in SetToSeqs(S) : \A i, j \in DOMAIN q : i < j => q[i] < q[j]
    BY Zenon DEF InOrder
  <2> HIDE DEF t
  <2>6. t \in SetToSeqs(S) /\ \A i, j \in DOMAIN t : i < j => t[i] < t[j]
    BY <2>4, <2>5, Zenon
  <2>7. t \in [1..n -> S] /\ Range(t) = S
    BY <2>1, <2>6, ListsOf
  <2>8. QED BY <2>1, <2>6, <2>7
<1> HIDE DEF t
<1>2. Len(order) \in Nat /\ order \in [1..Len(order) -> S] /\ DOMAIN order = 1..Len(order)
  BY LenProperties DEF Ascending
<1>3. \A i, j \in S : <<i, j>> \in R <=> i < j
  OBVIOUS
<1>4. Asymmetric(R)
  <2>1. \A i, j \in S : ~(i < j /\ j < i)
    OBVIOUS
  <2>2. QED BY <2>1 DEF Asymmetric
<1> HIDE DEF R
<1>5. Ascends(order, R) /\ Ascends(t, R)
  <2>1. \A i, j \in DOMAIN order : i < j => <<order[i], order[j]>> \in R
    BY <1>2, <1>3 DEF Ascending
  <2>2. \A i, j \in DOMAIN t : i < j => <<t[i], t[j]>> \in R
    BY <1>1, <1>3
  <2>3. QED BY <2>1, <2>2 DEF Ascends
<1>6. Len(order) = n
  <2>1. \A i, j \in 1..Len(order) : i # j => order[i] # order[j]
    BY <1>2, <1>4, <1>5, AscendingIsInjective
  <2>2. order = [i \in 1..Len(order) |-> order[i]]
    BY <1>2
  <2>3. Cardinality(Range(order)) = Len(order)
    BY <1>2, <2>1, <2>2, ListedOnce
  <2>4. QED BY <2>3 DEF Ascending
<1>7. /\ DOMAIN order = 1..n /\ DOMAIN t = 1..n
      /\ order = [i \in 1..n |-> order[i]] /\ t = [i \in 1..n |-> t[i]]
      /\ Range(order) = Range(t)
  BY <1>1, <1>2, <1>6 DEF Ascending
<1>8. order = t
  <2> HIDE DEF n
  <2>1. QED BY <1>1, <1>4, <1>5, <1>7, SortedOnce
<1>9. QED BY <1>8 DEF t

\* Behind it may come a number above all of them.
LEMMA AscendingAppend ==
    ASSUME NEW S \in SUBSET Int, NEW order, Ascending(order, S),
           NEW i \in Int, \A j \in S : j < i
    PROVE  Ascending(Append(order, i), S \cup {i})
<1> DEFINE n == Len(order)
           more == Append(order, i)
<1>1. n \in Nat /\ DOMAIN order = 1..n /\ \A k \in 1..n : order[k] \in S
  BY LenProperties, ElementOfSeq DEF Ascending
<1>2. order \in Seq(S \cup {i})
  BY SeqMonotonic DEF Ascending
<1>3. /\ more \in Seq(S \cup {i}) /\ Len(more) = n + 1 /\ DOMAIN more = 1..(n + 1)
      /\ more[n + 1] = i /\ \A k \in 1..n : more[k] = order[k]
  BY <1>2, AppendProperties, LenProperties
<1> HIDE DEF more, n
<1>4. 1..(n + 1) = 1..n \cup {n + 1}
  BY <1>1
<1>5. Range(more) = S \cup {i}
  <2>1. Range(order) = S /\ Range(order) = {order[k] : k \in 1..n}
    BY <1>1 DEF Ascending, Range
  <2>2. Range(more) = {more[k] : k \in 1..(n + 1)}
    BY <1>3 DEF Range
  <2>3. QED BY <1>3, <1>4, <2>1, <2>2
<1>6. ASSUME NEW k \in 1..(n + 1), NEW l \in 1..(n + 1), k < l PROVE more[k] < more[l]
  <2>1. k \in 1..n
    BY <1>1, <1>6
  <2>2. CASE l = n + 1
    BY <1>1, <1>3, <2>1, <2>2
  <2>3. CASE l \in 1..n
    BY <1>1, <1>3, <1>6, <2>1, <2>3 DEF Ascending
  <2>4. QED BY <1>4, <2>2, <2>3
<1>7. QED BY <1>3, <1>5, <1>6 DEF Ascending, more

\* Of the chunks of some segments none is empty, or longer than the target with more than
\* one segment, or could have had the next segment too.
Fit(segments, chunks) ==
    /\ \A c \in DOMAIN chunks :
          /\ chunks[c] # <<>>
          /\ Joined(segments, chunks[c]) <= target_chars \/ Len(chunks[c]) = 1
    /\ \A c \in DOMAIN chunks \ {1} :
          Joined(segments, Append(chunks[c - 1], chunks[c][1])) > target_chars

LEMMA FitAppend ==
    ASSUME NEW segments, NEW T, NEW chunks \in Seq(T), NEW last \in T
    PROVE  Fit(segments, Append(chunks, last)) <=>
              /\ Fit(segments, chunks)
              /\ last # <<>>
              /\ Joined(segments, last) <= target_chars \/ Len(last) = 1
              /\ chunks # <<>> =>
                    Joined(segments, Append(chunks[Len(chunks)], last[1])) > target_chars
<1> DEFINE n == Len(chunks)
           more == Append(chunks, last)
           Good(chunk) == chunk # <<>> /\ (Joined(segments, chunk) <= target_chars \/ Len(chunk) = 1)
           Tight(chunk, next) == Joined(segments, Append(chunk, next[1])) > target_chars
<1>1. n \in Nat /\ DOMAIN chunks = 1..n
  BY LenProperties
<1>2. /\ more \in Seq(T) /\ DOMAIN more = 1..(n + 1)
      /\ more[n + 1] = last /\ \A k \in 1..n : more[k] = chunks[k]
  BY AppendProperties, LenProperties
<1>3. chunks # <<>> <=> n # 0
  BY EmptySeq
<1>4. /\ Fit(segments, chunks) <=> /\ \A c \in 1..n : Good(chunks[c])
                                   /\ \A c \in 1..n \ {1} : Tight(chunks[c - 1], chunks[c])
      /\ Fit(segments, more) <=> /\ \A c \in 1..(n + 1) : Good(more[c])
                                 /\ \A c \in 1..(n + 1) \ {1} : Tight(more[c - 1], more[c])
  BY <1>1, <1>2, Zenon DEF Fit
<1> HIDE DEF n, more, Good, Tight
<1>5. 1..(n + 1) = 1..n \cup {n + 1} /\ \A c \in 1..n \ {1} : c - 1 \in 1..n
  BY <1>1
<1>6. (\A c \in 1..(n + 1) : Good(more[c])) <=> (\A c \in 1..n : Good(chunks[c])) /\ Good(last)
  BY <1>2, <1>5
<1>7. (\A c \in 1..(n + 1) \ {1} : Tight(more[c - 1], more[c])) <=>
         /\ \A c \in 1..n \ {1} : Tight(chunks[c - 1], chunks[c])
         /\ n # 0 => Tight(chunks[n], last)
  <2>1. \A c \in 1..n \ {1} : Tight(more[c - 1], more[c]) <=> Tight(chunks[c - 1], chunks[c])
    BY <1>2, <1>5
  <2>2. n # 0 => /\ n + 1 # 1 /\ (n + 1) - 1 = n /\ n \in 1..n
                 /\ (Tight(more[n], more[n + 1]) <=> Tight(chunks[n], last))
    BY <1>1, <1>2
  <2>3. n = 0 => n + 1 = 1 /\ 1..(n + 1) \ {1} = {} /\ 1..n = {}
    BY <1>1
  <2>4. n # 0 => 1..(n + 1) \ {1} = (1..n \ {1}) \cup {n + 1}
    BY <1>5, <2>2
  <2>5. CASE n = 0
    BY <2>3, <2>5
  <2>6. CASE n # 0
    BY <2>1, <2>2, <2>4, <2>6
  <2>7. QED BY <2>5, <2>6
<1>8. QED BY <1>3, <1>4, <1>6, <1>7 DEF Good, Tight, more, n

\* Take of segments_to_chunks.
Taken(lengths, s, i) ==
    LET full == s.buffer # <<>> /\ s.buffer_len + lengths[i] > target_chars
    IN  IF lengths[i] = 0 THEN s
        ELSE AddSegment(IF full THEN flush(s) ELSE s, i, lengths[i])

ReadState(lengths) ==
    [chunks : Seq(Seq(DOMAIN lengths)), buffer : Seq(DOMAIN lengths), buffer_len : Int]

NonBlanks(lengths, k) == {i \in 1..k : lengths[i] > 0}

\* What the first `k` segments have become.
ReadSoFar(s, lengths, k) ==
    /\ s \in ReadState(lengths)
    /\ s.buffer_len = Joined(lengths, s.buffer) + 1
    /\ s.buffer = <<>> => s.chunks = <<>>
    /\ Ascending(FlattenSeq(s.chunks) \o s.buffer, NonBlanks(lengths, k))
    /\ Fit(lengths, flush(s).chunks)

\* The buffer is flushed as it is.
LEMMA FlushDoes ==
    ASSUME NEW lengths, NEW s \in ReadState(lengths)
    PROVE  /\ s.chunks \in Seq(Seq(DOMAIN lengths)) /\ s.buffer \in Seq(DOMAIN lengths)
           /\ s.buffer_len \in Int
           /\ s.buffer = <<>> => flush(s).chunks = s.chunks
           /\ s.buffer # <<>> =>
                 /\ flush(s).chunks = Append(s.chunks, s.buffer)
                 /\ flush(s) = [chunks |-> Append(s.chunks, s.buffer),
                                buffer |-> <<>>, buffer_len |-> 0]
<1>1. s.chunks \in Seq(Seq(DOMAIN lengths)) /\ s.buffer \in Seq(DOMAIN lengths) /\ s.buffer_len \in Int
  BY DEF ReadState
<1>2. s.buffer = <<>> => flush(s) = s
  BY DEF flush
<1>3. s.buffer # <<>> => flush(s) = [chunks |-> Append(s.chunks, s.buffer),
                                     buffer |-> <<>>, buffer_len |-> 0]
  BY DEF flush, NothingRead
<1>4. QED BY <1>1, <1>2, <1>3

LEMMA AddDoes ==
    ASSUME NEW lengths, NEW s \in ReadState(lengths), NEW i \in DOMAIN lengths, NEW length \in Nat
    PROVE  AddSegment(s, i, length) = [chunks |-> s.chunks, buffer |-> Append(s.buffer, i),
                                       buffer_len |-> s.buffer_len + length + 1]
<1> DEFINE D == DOMAIN lengths
           buffer == Append(s.buffer, i)
           total == s.buffer_len + length + 1
           next == AddSegment(s, i, length)
<1>1. s \in [chunks : Seq(Seq(D)), buffer : Seq(D), buffer_len : Int]
  BY DEF ReadState
<1>2. buffer \in Seq(D) /\ total \in Int
  BY <1>1, AppendProperties
<1>3. next = [s EXCEPT !.buffer = buffer, !.buffer_len = total]
  BY Zenon DEF AddSegment
<1> HIDE DEF D, buffer, total, next
<1>4. /\ next \in [chunks : Seq(Seq(D)), buffer : Seq(D), buffer_len : Int]
      /\ next.chunks = s.chunks /\ next.buffer = buffer /\ next.buffer_len = total
  BY <1>1, <1>2, <1>3
<1>5. next = [chunks |-> next.chunks, buffer |-> next.buffer, buffer_len |-> next.buffer_len]
  BY <1>4
<1>6. QED BY <1>4, <1>5 DEF next, buffer, total

LEMMA TakenDoes ==
    ASSUME NEW lengths \in Seq(Nat), NEW k \in Nat, k + 1 \in DOMAIN lengths,
           NEW s, ReadSoFar(s, lengths, k)
    PROVE  ReadSoFar(Taken(lengths, s, k + 1), lengths, k + 1)
<1> DEFINE i == k + 1
           D == DOMAIN lengths
           next == Taken(lengths, s, i)
           full == s.buffer # <<>> /\ s.buffer_len + lengths[i] > target_chars
           more == Append(s.chunks, s.buffer)
<1>0. lengths[i] \in Nat /\ target_chars \in Int
  <2>1. k + 1 \in 1..Len(lengths)
    BY LenProperties
  <2>2. QED BY <2>1, ElementOfSeq, ChunkingAssumption
<1>1. /\ s \in ReadState(lengths)
      /\ s.buffer_len = Joined(lengths, s.buffer) + 1
      /\ s.buffer = <<>> => s.chunks = <<>>
      /\ Ascending(FlattenSeq(s.chunks) \o s.buffer, NonBlanks(lengths, k))
      /\ Fit(lengths, flush(s).chunks)
  BY Zenon DEF ReadSoFar
<1>l. s.buffer_len = Joined(lengths, s.buffer) + 1
  BY <1>1
<1>f. /\ s.buffer = <<>> => flush(s).chunks = s.chunks
      /\ s.buffer # <<>> =>
            flush(s).chunks = more /\ flush(s) = [chunks |-> more, buffer |-> <<>>, buffer_len |-> 0]
  BY <1>1, FlushDoes
<1>2. s.chunks \in Seq(Seq(D)) /\ s.buffer \in Seq(D) /\ s.buffer_len \in Int
  BY <1>1, FlushDoes
<1>3. CASE lengths[i] = 0
  <2>1. next = s
    BY <1>3, Zenon DEF Taken
  <2>2. NonBlanks(lengths, i) = NonBlanks(lengths, k)
    <3>1. 1..(k + 1) = 1..k \cup {k + 1}
      OBVIOUS
    <3>2. QED BY <1>3, <3>1 DEF NonBlanks
  <2>3. ReadSoFar(next, lengths, i)
    <3> HIDE DEF next, i
    <3>1. QED BY <1>1, <2>1, <2>2, Zenon DEF ReadSoFar
  <2>4. QED BY <2>3
<1>4. CASE lengths[i] > 0
  <2>0. i \in D /\ i \in Int /\ lengths[i] # 0
    BY <1>0, <1>4
  <2>1. NonBlanks(lengths, i) = NonBlanks(lengths, k) \cup {i} /\ NonBlanks(lengths, k) \in SUBSET Int
        /\ \A j \in NonBlanks(lengths, k) : j < i
    <3>1. 1..(k + 1) = 1..k \cup {k + 1} /\ \A j \in 1..k : j < k + 1
      OBVIOUS
    <3>2. QED BY <1>4, <3>1 DEF NonBlanks
  <2> HIDE DEF i, D, next, more
  <2> DEFINE all == FlattenSeq(s.chunks) \o s.buffer
  <2>2. Ascending(Append(all, i), NonBlanks(lengths, i))
    BY <1>1, <2>0, <2>1, AscendingAppend
  <2>3. /\ FlattenSeq(s.chunks) \in Seq(D) /\ FlattenSeq(more) = all /\ all \in Seq(D)
        /\ more \in Seq(Seq(D)) /\ FlattenSeq(<<>>) = <<>>
    BY <1>2, FlattenSeqMembers, FlattenSeqAppend, ConcatProperties, AppendProperties DEF more
  <2>4. /\ <<>> \in Seq(D) /\ <<i>> \in Seq(D) /\ Append(<<>>, i) = <<i>>
        /\ <<i>> # <<>> /\ Len(<<i>>) = 1 /\ <<i>>[1] = i
    BY <2>0
  <2>5. /\ Joined(lengths, s.buffer) \in Int
        /\ Joined(lengths, Append(s.buffer, i)) = s.buffer_len + lengths[i]
        /\ Joined(lengths, <<i>>) = lengths[i]
    <3>1. Joined(lengths, <<>>) = -1
      <4>1. \E j \in [0..Len(<<>>) -> Int] : j[0] = -1 /\ j[Len(<<>>)] = Joined(lengths, <<>>)
        BY <2>4, JoinedSums DEF D
      <4>2. Len(<<>>) = 0
        OBVIOUS
      <4>3. QED BY <4>1, <4>2
    <3>2. Joined(lengths, Append(<<>>, i)) = Joined(lengths, <<>>) + lengths[i] + 1
      BY <2>0, <2>4, JoinedAppend DEF D
    <3>3. /\ Joined(lengths, s.buffer) \in Int
          /\ Joined(lengths, Append(s.buffer, i)) = Joined(lengths, s.buffer) + lengths[i] + 1
      BY <1>2, <2>0, JoinedAppend DEF D
    <3>4. Joined(lengths, <<i>>) = Joined(lengths, <<>>) + lengths[i] + 1
      BY <2>4, <3>2
    <3>5. Joined(lengths, <<i>>) = lengths[i]
      BY <1>0, <3>1, <3>4
    <3>6. Joined(lengths, Append(s.buffer, i)) = s.buffer_len + lengths[i]
      BY <1>0, <1>l, <3>3
    <3>7. QED BY <3>3, <3>5, <3>6
  <2>6. Append(s.buffer, i) \in Seq(D) /\ Append(s.buffer, i) # <<>>
    BY <1>2, <2>0, AppendProperties
  <2>7. CASE full
    <3>1. next = [chunks |-> more, buffer |-> <<i>>, buffer_len |-> lengths[i] + 1]
      <4>1. next = AddSegment(flush(s), i, lengths[i])
        BY <2>0, <2>7, Zenon DEF Taken, next
      <4>2. flush(s) \in ReadState(lengths)
        <5>1. flush(s) = [chunks |-> more, buffer |-> <<>>, buffer_len |-> 0]
          BY <1>f, <2>7
        <5>2. more \in Seq(Seq(D)) /\ <<>> \in Seq(D) /\ 0 \in Int
          BY <2>3, <2>4
        <5> DEFINE flushed == flush(s)
        <5> HIDE DEF flushed, D
        <5>3. flushed \in [chunks : Seq(Seq(D)), buffer : Seq(D), buffer_len : Int]
          BY <5>1, <5>2 DEF flushed
        <5>4. QED BY <5>3 DEF ReadState, D, flushed
      <4>3. 0 + lengths[i] + 1 = lengths[i] + 1
        BY <1>0
      <4> DEFINE flushed == flush(s)
      <4>4. flushed = [chunks |-> more, buffer |-> <<>>, buffer_len |-> 0]
        BY <1>f, <2>7
      <4> HIDE DEF flushed
      <4>5. AddSegment(flushed, i, lengths[i]) =
               [chunks |-> flushed.chunks, buffer |-> Append(flushed.buffer, i),
                buffer_len |-> flushed.buffer_len + lengths[i] + 1]
        BY <1>0, <2>0, <4>2, AddDoes DEF D, flushed
      <4>6. flushed.chunks = more /\ flushed.buffer = <<>> /\ flushed.buffer_len = 0
        BY <4>4
      <4>7. QED BY <2>4, <4>1, <4>3, <4>5, <4>6, Zenon DEF flushed
    <3>2. next \in ReadState(lengths)
      BY <1>0, <2>3, <2>4, <3>1 DEF ReadState, D
    <3>3. FlattenSeq(next.chunks) \o next.buffer = Append(all, i)
      <4>1. Append(all, i) = all \o <<i>>
        BY <2>0, <2>3, AppendIsConcat
      <4>2. next.chunks = more /\ next.buffer = <<i>>
        BY <3>1
      <4> HIDE DEF all
      <4>3. QED BY <2>3, <4>1, <4>2
    <3>4. Fit(lengths, more)
      BY <1>1, <1>f, <2>7
    <3>5. Joined(lengths, Append(s.buffer, i)) > target_chars
      BY <2>5, <2>7
    <3>6. more[Len(more)] = s.buffer
      BY <1>2, AppendProperties DEF more
    <3>7. Fit(lengths, Append(more, <<i>>))
      BY <2>3, <2>4, <3>4, <3>5, <3>6, FitAppend
    <3>8. flush(next).chunks = Append(more, <<i>>)
      BY <2>4, <3>1, <3>2, FlushDoes
    <3>9. next.buffer_len = Joined(lengths, next.buffer) + 1 /\ next.buffer # <<>>
      BY <2>4, <2>5, <3>1
    <3>10. ReadSoFar(next, lengths, i)
      BY <2>2, <3>2, <3>3, <3>7, <3>8, <3>9 DEF ReadSoFar
    <3>11. QED BY <3>10 DEF next, i
  <2>8. CASE ~full
    <3> DEFINE buffer == Append(s.buffer, i)
    <3>1. next = [chunks |-> s.chunks, buffer |-> buffer, buffer_len |-> s.buffer_len + lengths[i] + 1]
      <4>1. next = AddSegment(s, i, lengths[i])
        BY <2>0, <2>8, Zenon DEF Taken, next
      <4>2. QED BY <1>0, <1>1, <2>0, <4>1, AddDoes DEF buffer, D
    <3> HIDE DEF buffer
    <3>2. next \in ReadState(lengths)
      BY <1>0, <1>2, <2>6, <3>1 DEF ReadState, D, buffer
    <3>3. FlattenSeq(next.chunks) \o next.buffer = Append(all, i)
      <4>1. FlattenSeq(s.chunks) \o buffer = Append(all, i)
        <5>1. \A p, q \in Seq(D) : \A x \in D : p \o Append(q, x) = Append(p \o q, x)
          BY AppendToJoined
        <5>2. FlattenSeq(s.chunks) \in Seq(D) /\ s.buffer \in Seq(D) /\ i \in D
          BY <1>2, <2>0, <2>3
        <5>3. QED BY <5>1, <5>2, Zenon DEF buffer
      <4>3. next.chunks = s.chunks /\ next.buffer = buffer
        BY <3>1
      <4>4. QED BY <4>1, <4>3
    <3>4. next.buffer_len = Joined(lengths, next.buffer) + 1 /\ next.buffer = buffer /\ buffer # <<>>
      <4>1. next.buffer_len = s.buffer_len + lengths[i] + 1 /\ next.buffer = buffer
        BY <3>1
      <4>2. Joined(lengths, buffer) = s.buffer_len + lengths[i] /\ buffer # <<>>
        BY <2>5, <2>6 DEF buffer
      <4>3. QED BY <4>1, <4>2
    <3>5. flush(next).chunks = Append(s.chunks, buffer)
      BY <3>1, <3>2, <3>4, FlushDoes
    <3>6. Fit(lengths, Append(s.chunks, buffer))
      <4>1. CASE s.buffer = <<>>
        <5>1. s.chunks = <<>> /\ buffer = <<i>> /\ Fit(lengths, s.chunks)
          BY <1>1, <1>f, <2>4, <4>1 DEF buffer
        <5>2. QED BY <1>2, <2>4, <5>1, FitAppend
      <4>2. CASE s.buffer # <<>>
        <5>1. /\ Fit(lengths, s.chunks)
              /\ s.chunks # <<>> =>
                    Joined(lengths, Append(s.chunks[Len(s.chunks)], s.buffer[1])) > target_chars
          <6>1. Fit(lengths, more)
            BY <1>1, <1>f, <4>2
          <6>2. QED BY <1>2, <6>1, FitAppend DEF more
        <5>2. Joined(lengths, buffer) <= target_chars
          <6>1. Joined(lengths, buffer) = s.buffer_len + lengths[i]
            BY <2>5 DEF buffer
          <6>2. QED BY <1>0, <1>2, <2>8, <4>2, <6>1
        <5>3. buffer[1] = s.buffer[1]
          <6>1. 1 \in 1..Len(s.buffer)
            BY <1>2, <4>2, EmptySeq
          <6>2. QED BY <1>2, <2>0, <6>1, AppendProperties DEF buffer
        <5>4. buffer \in Seq(D) /\ buffer # <<>>
          BY <2>6 DEF buffer
        <5>5. QED BY <1>2, <5>1, <5>2, <5>3, <5>4, FitAppend
      <4>3. QED BY <4>1, <4>2
    <3>7. ReadSoFar(next, lengths, i)
      BY <2>2, <3>2, <3>3, <3>4, <3>5, <3>6 DEF ReadSoFar
    <3>8. QED BY <3>7 DEF next, i
  <2>9. QED BY <2>7, <2>8
<1>5. QED BY <1>0, <1>3, <1>4
\* A state of the reading leads to another.
LEMMA TakenKeeps ==
    ASSUME NEW lengths \in Seq(Nat), NEW i \in DOMAIN lengths, NEW s \in ReadState(lengths)
    PROVE  Taken(lengths, s, i) \in ReadState(lengths)
<1> DEFINE D == DOMAIN lengths
           length == lengths[i]
           full == s.buffer # <<>> /\ s.buffer_len + lengths[i] > target_chars
           before == IF full THEN flush(s) ELSE s
           next == AddSegment(before, i, length)
<1>1. length \in Nat
  BY LenProperties, ElementOfSeq
<1>2. /\ s.chunks \in Seq(Seq(D)) /\ s.buffer \in Seq(D) /\ s.buffer_len \in Int
      /\ s.buffer # <<>> => flush(s) = [chunks |-> Append(s.chunks, s.buffer),
                                        buffer |-> <<>>, buffer_len |-> 0]
  BY FlushDoes
<1>3. /\ \A a \in Seq(Seq(D)), b \in Seq(D), n \in Int :
            [chunks |-> a, buffer |-> b, buffer_len |-> n] \in ReadState(lengths)
      /\ Append(s.chunks, s.buffer) \in Seq(Seq(D)) /\ <<>> \in Seq(D) /\ 0 \in Int
  BY <1>2, AppendProperties DEF ReadState
<1>4. before \in ReadState(lengths)
  <2>1. full => flush(s) \in ReadState(lengths)
    BY <1>2, <1>3
  <2>2. QED BY <2>1
<1>5. next \in ReadState(lengths)
  <2> HIDE DEF before, length
  <2>1. next = [chunks |-> before.chunks, buffer |-> Append(before.buffer, i),
                buffer_len |-> before.buffer_len + length + 1]
    BY <1>1, <1>4, AddDoes
  <2>2. before.chunks \in Seq(Seq(D)) /\ before.buffer \in Seq(D) /\ before.buffer_len \in Int
    BY <1>4, FlushDoes
  <2>3. Append(before.buffer, i) \in Seq(D) /\ before.buffer_len + length + 1 \in Int
    BY <1>1, <2>2, AppendProperties
  <2> HIDE DEF next
  <2>4. QED BY <1>3, <2>1, <2>2, <2>3
<1>6. CASE lengths[i] = 0
  BY <1>6, Zenon DEF Taken
<1>7. CASE lengths[i] # 0
  BY <1>5, <1>7, Zenon DEF Taken
<1>8. QED BY <1>6, <1>7

\* What has been read when all segments have been taken.
SegmentsRead(lengths) ==
    FoldLeft(LAMBDA s, i : Taken(lengths, s, i), NothingRead, [i \in DOMAIN lengths |-> i])

\* The equation that this fold solves.
Takes(f, lengths, order, D) ==
    f = [t \in SUBSET D |->
            IF t = {} THEN NothingRead ELSE Taken(lengths, f[t \ {Max(t)}], order[Max(t)])]

\* It has a solution.
LEMMA TakesExists ==
    ASSUME NEW lengths \in Seq(Nat), NEW order, \A i \in 1..Len(lengths) : order[i] = i
    PROVE  \E f : Takes(f, lengths, order, 1..Len(lengths))
<1> DEFINE n == Len(lengths)
           step == [p \in ReadState(lengths) \X (1..n) |-> Taken(lengths, p[1], order[p[2]])]
<1>0. n \in Nat /\ DOMAIN lengths = 1..n
  BY LenProperties
<1>1. step \in [ReadState(lengths) \X (1..n) -> ReadState(lengths)]
  <2>1. ASSUME NEW s \in ReadState(lengths), NEW i \in 1..n
        PROVE  Taken(lengths, s, order[i]) \in ReadState(lengths)
    <3>1. order[i] = i /\ i \in DOMAIN lengths
      BY <1>0
    <3>2. QED BY <3>1, TakenKeeps
  <2>2. QED BY <2>1
<1>2. ASSUME NEW s \in ReadState(lengths), NEW i \in 1..n
      PROVE  step[<<s, i>>] = Taken(lengths, s, order[i])
  OBVIOUS
<1>3. NothingRead \in ReadState(lengths)
  BY DEF NothingRead, ReadState
<1> HIDE DEF step, n
<1>4. PICK f \in [SUBSET (1..n) -> ReadState(lengths)] : FoldsBy(f, NothingRead, n, step)
  BY <1>0, <1>1, <1>3, FoldExists
<1>5. ASSUME NEW t \in SUBSET (1..n)
      PROVE  f[t] = IF t = {} THEN NothingRead
                    ELSE Taken(lengths, f[t \ {Max(t)}], order[Max(t)])
  <2>1. CASE t = {}
    BY <1>4, <2>1 DEF FoldsBy
  <2>2. CASE t # {}
    <3>1. Max(t) \in 1..n
      BY <1>0, <2>2, LastOfSome
    <3>2. f[t \ {Max(t)}] \in ReadState(lengths)
      OBVIOUS
    <3>3. f[t] = step[<<f[t \ {Max(t)}], Max(t)>>]
      BY <1>4, <2>2, Zenon DEF FoldsBy
    <3>4. QED BY <1>2, <2>2, <3>1, <3>2, <3>3, Zenon
  <2>3. QED BY <2>1, <2>2
<1>6. f = [t \in SUBSET (1..n) |-> f[t]]
  OBVIOUS
<1>7. Takes(f, lengths, order, 1..n)
  BY <1>5, <1>6, Zenon DEF Takes
<1>8. QED BY <1>7 DEF n

\* Of no segments nothing has been read.
LEMMA NothingTaken ==
    ASSUME NEW lengths \in Seq(Nat)
    PROVE  ReadSoFar(NothingRead, lengths, 0)
<1> DEFINE D == DOMAIN lengths
<1>1. NothingRead.chunks = <<>> /\ NothingRead.buffer = <<>> /\ NothingRead.buffer_len = 0
  BY DEF NothingRead
<1>2. <<>> \in Seq(D) /\ <<>> \in Seq(Seq(D)) /\ <<>> \o <<>> = <<>> /\ <<>> \in Seq({})
      /\ DOMAIN <<>> = {} /\ Len(<<>>) = 0
  OBVIOUS
<1>3. NothingRead \in ReadState(lengths)
  BY DEF NothingRead, ReadState
<1>4. Joined(lengths, <<>>) = -1
  <2>1. \E j \in [0..Len(<<>>) -> Int] : j[0] = -1 /\ j[Len(<<>>)] = Joined(lengths, <<>>)
    BY <1>2, JoinedSums
  <2>2. QED BY <1>2, <2>1
<1>5. FlattenSeq(<<>>) = <<>>
  BY <1>2, FlattenSeqAppend
<1>6. Ascending(<<>>, {})
  BY <1>2 DEF Ascending, Range
<1>7. NonBlanks(lengths, 0) = {}
  BY DEF NonBlanks
<1>8. flush(NothingRead).chunks = <<>>
  BY <1>1 DEF flush
<1>9. Fit(lengths, <<>>)
  BY <1>2 DEF Fit
<1>10. Ascending(FlattenSeq(NothingRead.chunks) \o NothingRead.buffer, NonBlanks(lengths, 0))
  BY <1>1, <1>2, <1>5, <1>6, <1>7
<1>11. NothingRead.buffer_len = Joined(lengths, NothingRead.buffer) + 1
  BY <1>1, <1>4
<1>12. QED BY <1>1, <1>3, <1>8, <1>9, <1>10, <1>11, Zenon DEF ReadSoFar

\* The segments are taken one after the other.
LEMMA AllTaken ==
    ASSUME NEW lengths \in Seq(Nat)
    PROVE  ReadSoFar(SegmentsRead(lengths), lengths, Len(lengths))
<1> DEFINE n == Len(lengths)
           order == [i \in DOMAIN lengths |-> i]
           f == CHOOSE g : Takes(g, lengths, order, 1..n)
           S == {k \in Nat : k <= n => ReadSoFar(f[1..k], lengths, k)}
<1>0. n \in Nat /\ DOMAIN lengths = 1..n /\ DOMAIN order = 1..n /\ \A i \in 1..n : order[i] = i
  BY LenProperties
<1>1. SegmentsRead(lengths) = (CHOOSE g : Takes(g, lengths, order, DOMAIN order))[DOMAIN order]
  BY Zenon DEF SegmentsRead, FoldLeft, MapThenFoldSet, Takes
<1> HIDE DEF order
<1>2. SegmentsRead(lengths) = f[1..n]
  BY <1>0, <1>1, Zenon
<1>3. Takes(f, lengths, order, 1..n)
  <2>1. \E g : Takes(g, lengths, order, 1..n)
    BY <1>0, TakesExists
  <2>2. QED BY <2>1, Zenon
<1> HIDE DEF f
<1>4. \A t \in SUBSET (1..n) :
         f[t] = IF t = {} THEN NothingRead ELSE Taken(lengths, f[t \ {Max(t)}], order[Max(t)])
  BY <1>3, Zenon DEF Takes
<1> HIDE DEF n
<1>5. 0 \in S
  <2>1. 1..0 = {} /\ {} \in SUBSET (1..n)
    OBVIOUS
  <2>2. f[1..0] = NothingRead
    BY <1>4, <2>1
  <2>3. ReadSoFar(NothingRead, lengths, 0)
    BY NothingTaken
  <2>4. QED BY <2>2, <2>3
<1>6. ASSUME NEW k \in Nat, k < n, k \in S PROVE k + 1 \in S
  <2>1. Max(1..(k + 1)) = k + 1 /\ 1..(k + 1) \ {k + 1} = 1..k /\ 1..(k + 1) # {}
    BY LastOfFirst
  <2>2. 1..(k + 1) \in SUBSET (1..n) /\ k + 1 \in 1..n /\ k + 1 \in DOMAIN lengths
    BY <1>0, <1>6
  <2>3. f[1..(k + 1)] = Taken(lengths, f[1..k], k + 1)
    <3>1. order[k + 1] = k + 1
      BY <1>0, <2>2
    <3>2. QED BY <1>4, <2>1, <2>2, <3>1, Zenon
  <2>4. ReadSoFar(f[1..k], lengths, k)
    BY <1>0, <1>6
  <2>5. ReadSoFar(f[1..(k + 1)], lengths, k + 1)
    <3> DEFINE s == f[1..k]
    <3>1. ReadSoFar(s, lengths, k)
      BY <2>4
    <3> HIDE DEF s
    <3>2. ReadSoFar(Taken(lengths, s, k + 1), lengths, k + 1)
      BY <2>2, <3>1, TakenDoes
    <3>3. QED BY <2>3, <3>2 DEF s
  <2>6. QED BY <2>5
<1>7. n \in S
  <2> HIDE DEF S
  <2>1. QED BY <1>0, <1>5, <1>6, InductiveUpTo
<1>8. n <= n
  BY <1>0
<1>9. QED BY <1>2, <1>7, <1>8 DEF n

\* All of them, each once and in order, in chunks that fit.
LEMMA SegmentsFit ==
    ASSUME NEW lengths \in Seq(Nat)
    PROVE  /\ FlattenSeq(segments_to_chunks(lengths)) = InOrder({i \in DOMAIN lengths : lengths[i] > 0}, <)
           /\ Fit(lengths, segments_to_chunks(lengths))
<1> DEFINE last == SegmentsRead(lengths)
           D == DOMAIN lengths
           S == {i \in DOMAIN lengths : lengths[i] > 0}
<1>0. Len(lengths) \in Nat /\ D = 1..Len(lengths)
  BY LenProperties
<1>1. segments_to_chunks(lengths) = flush(last).chunks
  BY Zenon DEF segments_to_chunks, SegmentsRead, Taken
<1>2. ReadSoFar(last, lengths, Len(lengths))
  BY AllTaken
<1> HIDE DEF last
<1>3. /\ last \in ReadState(lengths)
      /\ Ascending(FlattenSeq(last.chunks) \o last.buffer, NonBlanks(lengths, Len(lengths)))
      /\ Fit(lengths, flush(last).chunks)
  BY <1>2, Zenon DEF ReadSoFar
<1>4. /\ last.chunks \in Seq(Seq(D)) /\ last.buffer \in Seq(D)
      /\ last.buffer = <<>> => flush(last).chunks = last.chunks
      /\ last.buffer # <<>> => flush(last).chunks = Append(last.chunks, last.buffer)
  BY <1>3, FlushDoes
<1>5. FlattenSeq(flush(last).chunks) = FlattenSeq(last.chunks) \o last.buffer
  <2>1. /\ FlattenSeq(last.chunks) \in Seq(D)
        /\ FlattenSeq(Append(last.chunks, last.buffer)) = FlattenSeq(last.chunks) \o last.buffer
    BY <1>4, FlattenSeqMembers, FlattenSeqAppend
  <2>2. CASE last.buffer = <<>>
    <3> DEFINE flat == FlattenSeq(last.chunks)
    <3>1. flat \o <<>> = flat
      BY <2>1, ConcatEmptySeq
    <3> HIDE DEF flat
    <3>2. QED BY <1>4, <2>2, <3>1 DEF flat
  <2>3. CASE last.buffer # <<>>
    BY <1>4, <2>1, <2>3
  <2>4. QED BY <2>2, <2>3
<1>6. NonBlanks(lengths, Len(lengths)) = S
  BY <1>0 DEF NonBlanks
<1>7. S \in SUBSET Int /\ IsFiniteSet(S)
  <2>1. S \in SUBSET (1..Len(lengths)) /\ IsFiniteSet(1..Len(lengths))
    BY <1>0, FS_Interval
  <2>2. QED BY <1>0, <2>1, FS_Subset
<1>8. Ascending(FlattenSeq(last.chunks) \o last.buffer, S)
  BY <1>3, <1>6
<1> HIDE DEF S
<1>9. FlattenSeq(last.chunks) \o last.buffer = InOrder(S, <)
  BY <1>7, <1>8, AscendingIsInOrder
<1>10. QED BY <1>1, <1>3, <1>5, <1>9 DEF S
\* F2 has a chunk for each page that is not blank.
LEMMA PagesFit ==
    ASSUME NEW pages \in Seq(Page)
    PROVE  FlattenSeq(pages_to_chunks(pages))
              = InOrder({p \in DOMAIN pages : page_text(pages[p]) > 0}, <)
<1> DEFINE S == {p \in DOMAIN pages : page_text(pages[p]) > 0}
           read == InOrder(S, <)
<1>1. S \in SUBSET Int /\ IsFiniteSet(S)
  <2>1. Len(pages) \in Nat /\ DOMAIN pages = 1..Len(pages)
    BY LenProperties
  <2>2. S \in SUBSET (1..Len(pages)) /\ IsFiniteSet(1..Len(pages))
    BY <2>1, FS_Interval
  <2>3. QED BY <2>1, <2>2, FS_Subset
<1>2. pages_to_chunks(pages) = [c \in DOMAIN read |-> <<read[c]>>]
  BY Zenon DEF pages_to_chunks
<1> HIDE DEF S
<1>3. Cardinality(S) \in Nat /\ read \in [1..Cardinality(S) -> S]
  BY <1>1, NumbersInOrder DEF NumbersRanked
<1> HIDE DEF read
<1>4. read \in Seq(S)
  BY <1>3, SeqDef
<1>5. FlattenSeq([c \in DOMAIN read |-> <<read[c]>>]) = read
  BY <1>4, FlattenSingles
<1>6. QED BY <1>2, <1>5 DEF read, S

\* However long the segments and whatever the pages, F1 and F2 chunk them whole and in
\* order, and no chunk of speech is above the target or could be made longer
\* (segments_to_chunks in whisper_transcriber.py, pages_to_chunks in pymupdf_ocr.py).
THEOREM ChunksAlwaysFit == Spec => []ChunksFit
<1>1. OneRequest => ChunksFit
  <2> SUFFICES ASSUME OneRequest PROVE ChunksFit
    OBVIOUS
  <2>1. CASE Answered("F1")
    <3> DEFINE lengths == request.segments
    <3>1. request.op = "F1" /\ lengths \in Seq(Nat) /\ answer = segments_to_chunks(lengths)
      BY <2>1, AgentsAssumption DEF OneRequest, Answered
    <3> HIDE DEF lengths
    <3>2. /\ FlattenSeq(answer) = InOrder({i \in DOMAIN lengths : lengths[i] > 0}, <)
          /\ Fit(lengths, answer)
      BY <3>1, SegmentsFit
    <3>3. ~Answered("F2")
      BY <3>1 DEF Answered
    <3>4. QED BY <3>2, <3>3, Zenon DEF ChunksFit, Fit, Joined, lengths
  <2>2. CASE Answered("F2")
    <3> DEFINE pages == request.pages
               texts == [p \in DOMAIN request.pages |-> page_text(request.pages[p])]
    <3>1. request.op = "F2" /\ pages \in Seq(Page) /\ answer = pages_to_chunks(pages)
      BY <2>2, AgentsAssumption DEF OneRequest, Answered
    <3>2. {i \in DOMAIN texts : texts[i] > 0} = {p \in DOMAIN pages : page_text(pages[p]) > 0}
      OBVIOUS
    <3>3. FlattenSeq(answer) = InOrder({p \in DOMAIN pages : page_text(pages[p]) > 0}, <)
      BY <3>1, PagesFit
    <3>4. FlattenSeq(answer) = InOrder({i \in DOMAIN texts : texts[i] > 0}, <)
      BY <3>2, <3>3, Zenon
    <3>5. ~Answered("F1")
      BY <3>1 DEF Answered
    <3>6. QED BY <3>4, <3>5, Zenon DEF ChunksFit
  <2>3. QED BY <2>1, <2>2, Zenon DEF ChunksFit
<1>2. QED BY <1>1, OneRequestCorrect, PTL

-----------------------------------------------------------------------------
(* F5's adapter.                                                            *)

Models == {RuModel, EnModel}

Own(language) == IF language = "en" THEN EnModel ELSE RuModel

Ner == [pipelines : [Language -> Models \cup {"none"}], by_model : Seq(Models)]

\* An adapter that loaded each model once and only such as were installed, and took the
\* other language's only where its own was `missed`.
Sound(ner, seen, missed) ==
    /\ ner \in Ner
    /\ IsInjective(ner.by_model) /\ Range(ner.by_model) \subseteq seen
    /\ \A l \in Language : ner.pipelines[l] # "none" =>
          /\ ner.pipelines[l] \in Range(ner.by_model)
          /\ ner.pipelines[l] = Own(l) \/ Own(l) \in missed

\* What has been loaded for a language stays.
Keeps(ner, later) ==
    \A l \in Language : ner.pipelines[l] # "none" => later.pipelines[l] = ner.pipelines[l]

LEMMA LoadDoes ==
    ASSUME NEW ner, NEW l \in Language, NEW installed
    PROVE  LET model == _load_model(ner, l, installed)
               usable == Range(ner.by_model) \cup installed
           IN  /\ model \in Models \cup {"none"}
               /\ model # "none" => model \in usable /\ (model = Own(l) \/ Own(l) \notin usable)
               /\ model = "none" => usable \cap Models = {}
<1> DEFINE other == IF l = "en" THEN RuModel ELSE EnModel
           usable == Range(ner.by_model) \cup installed
           model == _load_model(ner, l, installed)
<1>1. Models = {Own(l), other} /\ "none" \notin Models
  BY SpacyNerAssumption DEF Models, Own
<1>2. model = CASE Own(l) \in usable                         -> Own(l)
                [] Own(l) \notin usable /\ other \in usable -> other
                [] OTHER                                     -> "none"
  BY Zenon DEF _load_model, Own
<1> HIDE DEF model, usable, other
<1>3. CASE Own(l) \in usable
  <2>1. model = Own(l)
    BY <1>2, <1>3
  <2>2. QED BY <1>1, <1>3, <2>1 DEF model, usable
<1>4. CASE Own(l) \notin usable /\ other \in usable
  <2>1. model = other
    BY <1>2, <1>4
  <2>2. QED BY <1>1, <1>4, <2>1 DEF model, usable
<1>5. CASE Own(l) \notin usable /\ other \notin usable
  <2>1. model = "none"
    BY <1>2, <1>5
  <2>2. QED BY <1>1, <1>5, <2>1 DEF model, usable
<1>6. QED BY <1>3, <1>4, <1>5

\* Once a pipeline is loaded.
LEMMA EnsureDoes ==
    ASSUME NEW seen, NEW missed, NEW ner, Sound(ner, seen, missed), NEW l \in Language,
           NEW installed \in SUBSET seen, \A m \in Models : m \notin installed => m \in missed
    PROVE  LET next == _ensure_nlp(ner, l, installed)
           IN  /\ Sound(next, seen, missed) /\ Keeps(ner, next)
               /\ next.pipelines[l] = "none" => installed \cap Models = {}
<1> DEFINE model == _load_model(ner, l, installed)
           usable == Range(ner.by_model) \cup installed
           next == _ensure_nlp(ner, l, installed)
           pipelines == [ner.pipelines EXCEPT ![l] = model]
           by_model == IF model \in Range(ner.by_model) \cup {"none"} THEN ner.by_model
                       ELSE Append(ner.by_model, model)
<1>1. /\ model \in Models \cup {"none"}
      /\ model # "none" => model \in usable /\ (model = Own(l) \/ Own(l) \notin usable)
      /\ model = "none" => usable \cap Models = {}
  BY LoadDoes
<1>2. /\ ner.pipelines \in [Language -> Models \cup {"none"}] /\ ner.by_model \in Seq(Models)
      /\ IsInjective(ner.by_model) /\ Range(ner.by_model) \subseteq seen
      /\ \A k \in Language : ner.pipelines[k] # "none" =>
            /\ ner.pipelines[k] \in Range(ner.by_model)
            /\ ner.pipelines[k] = Own(k) \/ Own(k) \in missed
  BY DEF Sound, Ner
<1>3. CASE ner.pipelines[l] # "none"
  <2>1. next = ner
    BY <1>3, Zenon DEF _ensure_nlp
  <2>2. QED BY <1>3, <2>1 DEF Keeps
<1>4. CASE ner.pipelines[l] = "none"
  <2>1. next = [pipelines |-> pipelines, by_model |-> by_model]
    BY <1>4, Zenon DEF _ensure_nlp
  <2> HIDE DEF model, next
  <2>2. /\ pipelines \in [Language -> Models \cup {"none"}] /\ pipelines[l] = model
        /\ \A k \in Language \ {l} : pipelines[k] = ner.pipelines[k]
    BY <1>1, <1>2
  <2>3. /\ by_model \in Seq(Models) /\ IsInjective(by_model)
        /\ Range(by_model) = Range(ner.by_model) \cup (IF model = "none" THEN {} ELSE {model})
    <3>1. CASE model \in Range(ner.by_model) \cup {"none"}
      BY <1>2, <3>1
    <3>2. CASE model \notin Range(ner.by_model) \cup {"none"}
      <4> DEFINE n == Len(ner.by_model)
                 more == Append(ner.by_model, model)
      <4>1. /\ n \in Nat /\ DOMAIN ner.by_model = 1..n
            /\ more \in Seq(Models) /\ DOMAIN more = 1..(n + 1)
            /\ more[n + 1] = model /\ \A k \in 1..n : more[k] = ner.by_model[k]
        BY <1>1, <1>2, <3>2, LenProperties, AppendProperties
      <4>2. by_model = more
        BY <3>2
      <4> HIDE DEF more, n
      <4>3. 1..(n + 1) = 1..n \cup {n + 1}
        BY <4>1
      <4>4. Range(ner.by_model) = {ner.by_model[k] : k \in 1..n} /\ Range(more) = {more[k] : k \in 1..(n + 1)}
        BY <4>1 DEF Range
      <4>5. Range(more) = Range(ner.by_model) \cup {model}
        BY <4>1, <4>3, <4>4
      <4>6. IsInjective(more)
        <5> SUFFICES ASSUME NEW i \in 1..(n + 1), NEW j \in 1..(n + 1), more[i] = more[j]
                     PROVE  i = j
          BY <4>1 DEF IsInjective
        <5>1. \A k \in 1..n : more[k] # model
          BY <3>2, <4>1, <4>4
        <5>2. CASE i \in 1..n /\ j \in 1..n
          BY <1>2, <4>1, <5>2 DEF IsInjective
        <5>3. CASE ~(i \in 1..n /\ j \in 1..n)
          BY <4>1, <4>3, <5>1, <5>3
        <5>4. QED BY <5>2, <5>3
      <4>7. QED BY <3>2, <4>1, <4>2, <4>5, <4>6
    <3>3. QED BY <3>1, <3>2
  <2> HIDE DEF pipelines, by_model
  <2>4. model # "none" => model \in seen /\ (model = Own(l) \/ Own(l) \in missed)
    <3>1. Own(l) \in Models
      BY DEF Own, Models
    <3>2. QED BY <1>1, <1>2, <3>1
  <2>5. next \in Ner /\ next.pipelines = pipelines /\ next.by_model = by_model
    BY <2>1, <2>2, <2>3 DEF Ner
  <2>6. ASSUME NEW k \in Language, pipelines[k] # "none"
        PROVE  /\ pipelines[k] \in Range(by_model)
               /\ pipelines[k] = Own(k) \/ Own(k) \in missed
    <3>1. CASE k = l
      BY <2>2, <2>3, <2>4, <2>6, <3>1
    <3>2. CASE k # l
      BY <1>2, <2>2, <2>3, <2>6, <3>2
    <3>3. QED BY <3>1, <3>2
  <2>7. Range(by_model) \subseteq seen
    BY <1>2, <2>3, <2>4
  <2>8. Sound(next, seen, missed)
    BY <2>3, <2>5, <2>6, <2>7 DEF Sound
  <2>9. Keeps(ner, next)
    BY <1>4, <2>2, <2>5 DEF Keeps
  <2>10. next.pipelines[l] = "none" => installed \cap Models = {}
    BY <1>1, <2>2, <2>5
  <2>11. QED BY <2>8, <2>9, <2>10 DEF next
<1>5. QED BY <1>3, <1>4

\* What one text got.
Charged == [text : Nat, model : Models]

\* What the texts of a language got from a model.
PipedAs(docs, texts, l, model) ==
    /\ docs \in Seq(Charged)
    /\ \A k \in DOMAIN docs :
          /\ docs[k].text \in DOMAIN texts /\ _select_language(texts[docs[k].text]) = l
          /\ docs[k].model = model
    /\ \A i \in DOMAIN texts :
          _select_language(texts[i]) = l => \E k \in DOMAIN docs : docs[k].text = i

\* The texts of a language go through its pipeline.
LEMMA PipedDoes ==
    ASSUME NEW ner \in Ner, NEW texts, NEW n \in Nat, DOMAIN texts = 1..n,
           NEW l \in Language, ner.pipelines[l] # "none"
    PROVE  PipedAs(Piped(ner, texts, l), texts, l, ner.pipelines[l])
<1> DEFINE S == {i \in DOMAIN texts : _select_language(texts[i]) = l}
           indices == InOrder(S, <)
           model == ner.pipelines[l]
           docs == Piped(ner, texts, l)
<1>1. S \in SUBSET Int /\ IsFiniteSet(S) /\ S \in SUBSET Nat
  <2>1. S \in SUBSET (1..n) /\ IsFiniteSet(1..n)
    BY FS_Interval
  <2>2. QED BY <2>1, FS_Subset
<1>2. docs = [k \in DOMAIN indices |-> [text |-> indices[k], model |-> model]]
  BY Zenon DEF Piped
<1>3. \A i \in S : i \in DOMAIN texts /\ _select_language(texts[i]) = l
  OBVIOUS
<1>4. \A i \in DOMAIN texts : _select_language(texts[i]) = l => i \in S
  OBVIOUS
<1>5. model \in Models
  BY DEF Ner
<1> DEFINE m == Cardinality(S)
<1> HIDE DEF S, docs, model
<1>6. m \in Nat /\ indices \in [1..m -> S] /\ Range(indices) = S
  BY <1>1, NumbersInOrder DEF NumbersRanked
<1> HIDE DEF indices, m
<1>7. /\ DOMAIN docs = 1..m
      /\ \A k \in 1..m : docs[k] = [text |-> indices[k], model |-> model] /\ indices[k] \in S
  BY <1>2, <1>6
<1>8. docs \in Seq(Charged)
  <2>1. \A k \in 1..m : [text |-> indices[k], model |-> model] \in Charged
    BY <1>1, <1>5, <1>6 DEF Charged
  <2>2. docs \in [1..m -> Charged]
    BY <1>2, <1>6, <2>1
  <2>3. QED BY <1>6, <2>2, SeqDef
<1>9. ASSUME NEW k \in DOMAIN docs
      PROVE  /\ docs[k].text \in DOMAIN texts /\ _select_language(texts[docs[k].text]) = l
             /\ docs[k].model = model
  <2>1. docs[k].text = indices[k] /\ docs[k].model = model /\ indices[k] \in S
    BY <1>7
  <2>2. QED BY <1>3, <2>1
<1>10. ASSUME NEW i \in DOMAIN texts, _select_language(texts[i]) = l
       PROVE  \E k \in DOMAIN docs : docs[k].text = i
  <2>1. i \in Range(indices)
    BY <1>4, <1>6, <1>10
  <2>2. PICK k \in 1..m : indices[k] = i
    BY <1>6, <2>1 DEF Range
  <2>3. docs[k].text = i
    BY <1>7, <2>2
  <2>4. QED BY <1>7, <2>3
<1>11. PipedAs(docs, texts, l, model)
  BY <1>8, <1>9, <1>10 DEF PipedAs
<1>12. QED BY <1>11 DEF docs, model

\* One language more.
Met(languages, text) ==
    IF _select_language(text) \in Range(languages) THEN languages
    ELSE Append(languages, _select_language(text))

LEMMA MetDoes ==
    ASSUME NEW languages \in Seq(Language), NEW text
    PROVE  /\ Met(languages, text) \in Seq(Language)
           /\ Range(Met(languages, text)) = Range(languages) \cup {_select_language(text)}
<1> DEFINE l == _select_language(text)
           n == Len(languages)
           more == Append(languages, l)
<1>1. l \in Language
  BY DEF _select_language, Language
<1>2. CASE l \in Range(languages)
  BY <1>2 DEF Met
<1>3. CASE l \notin Range(languages)
  <2>1. /\ n \in Nat /\ DOMAIN languages = 1..n
        /\ more \in Seq(Language) /\ DOMAIN more = 1..(n + 1)
        /\ more[n + 1] = l /\ \A k \in 1..n : more[k] = languages[k]
    BY <1>1, LenProperties, AppendProperties
  <2>2. Met(languages, text) = more
    BY <1>3 DEF Met
  <2> HIDE DEF l, n, more
  <2>3. 1..(n + 1) = 1..n \cup {n + 1}
    BY <2>1
  <2>4. Range(languages) = {languages[k] : k \in 1..n} /\ Range(more) = {more[k] : k \in 1..(n + 1)}
    BY <2>1 DEF Range
  <2>5. Range(more) = Range(languages) \cup {l}
    BY <2>1, <2>3, <2>4
  <2>6. QED BY <2>1, <2>2, <2>5 DEF l
<1>4. QED BY <1>2, <1>3

\* The equation that lang_groups solves.
Meets(f, texts, D) ==
    f = [s \in SUBSET D |-> IF s = {} THEN <<>> ELSE Met(f[s \ {Max(s)}], texts[Max(s)])]

LEMMA MeetsExists ==
    ASSUME NEW texts, NEW n \in Nat
    PROVE  \E f : Meets(f, texts, 1..n)
<1> DEFINE step == [p \in Seq(Language) \X (1..n) |-> Met(p[1], texts[p[2]])]
<1>1. step \in [Seq(Language) \X (1..n) -> Seq(Language)]
  <2>1. ASSUME NEW languages \in Seq(Language), NEW i \in 1..n
        PROVE  Met(languages, texts[i]) \in Seq(Language)
    BY MetDoes
  <2>2. QED BY <2>1
<1>2. ASSUME NEW languages \in Seq(Language), NEW i \in 1..n
      PROVE  step[<<languages, i>>] = Met(languages, texts[i])
  OBVIOUS
<1>3. <<>> \in Seq(Language)
  OBVIOUS
<1> HIDE DEF step
<1>4. PICK f \in [SUBSET (1..n) -> Seq(Language)] : FoldsBy(f, <<>>, n, step)
  BY <1>1, <1>3, FoldExists
<1>5. ASSUME NEW s \in SUBSET (1..n)
      PROVE  f[s] = IF s = {} THEN <<>> ELSE Met(f[s \ {Max(s)}], texts[Max(s)])
  <2>1. CASE s = {}
    BY <1>4, <2>1 DEF FoldsBy
  <2>2. CASE s # {}
    <3>1. Max(s) \in 1..n
      BY <2>2, LastOfSome
    <3>2. f[s \ {Max(s)}] \in Seq(Language)
      OBVIOUS
    <3>3. f[s] = step[<<f[s \ {Max(s)}], Max(s)>>]
      BY <1>4, <2>2, Zenon DEF FoldsBy
    <3>4. QED BY <1>2, <2>2, <3>1, <3>2, <3>3, Zenon
  <2>3. QED BY <2>1, <2>2
<1>6. f = [s \in SUBSET (1..n) |-> f[s]]
  OBVIOUS
<1>7. QED BY <1>5, <1>6, Zenon DEF Meets

\* The groups are those of the languages that come up.
LEMMA LanguagesMet ==
    ASSUME NEW texts, NEW n \in Nat, DOMAIN texts = 1..n
    PROVE  /\ lang_groups(texts) \in Seq(Language)
           /\ \A i \in DOMAIN texts : _select_language(texts[i]) \in Range(lang_groups(texts))
<1> DEFINE f == CHOOSE g : Meets(g, texts, 1..n)
           MetBy(k) == /\ f[1..k] \in Seq(Language)
                       /\ \A i \in 1..k : _select_language(texts[i]) \in Range(f[1..k])
           S == {k \in Nat : k <= n => MetBy(k)}
<1>1. lang_groups(texts) = (CHOOSE g : Meets(g, texts, DOMAIN texts))[DOMAIN texts]
  BY Zenon DEF lang_groups, FoldLeft, MapThenFoldSet, Meets, Met
<1>2. lang_groups(texts) = f[1..n]
  BY <1>1, Zenon
<1>3. Meets(f, texts, 1..n)
  <2>1. \E g : Meets(g, texts, 1..n)
    BY MeetsExists
  <2>2. QED BY <2>1, Zenon
<1> HIDE DEF f
<1>4. \A s \in SUBSET (1..n) :
         f[s] = IF s = {} THEN <<>> ELSE Met(f[s \ {Max(s)}], texts[Max(s)])
  BY <1>3, Zenon DEF Meets
<1>5. 0 \in S
  <2>1. 1..0 = {} /\ {} \in SUBSET (1..n)
    OBVIOUS
  <2>2. f[1..0] = <<>>
    BY <1>4, <2>1
  <2>3. MetBy(0)
    <3>1. <<>> \in Seq(Language)
      OBVIOUS
    <3>2. QED BY <2>1, <2>2, <3>1
  <2>4. QED BY <2>3
<1>6. ASSUME NEW k \in Nat, k < n, k \in S PROVE k + 1 \in S
  <2>1. Max(1..(k + 1)) = k + 1 /\ 1..(k + 1) \ {k + 1} = 1..k /\ 1..(k + 1) # {}
    BY LastOfFirst
  <2>2. 1..(k + 1) \in SUBSET (1..n) /\ k + 1 \in 1..n /\ 1..(k + 1) = 1..k \cup {k + 1}
    BY <1>6
  <2>3. f[1..(k + 1)] = Met(f[1..k], texts[k + 1])
    BY <1>4, <2>1, <2>2, Zenon
  <2>4. MetBy(k)
    BY <1>6
  <2>5. /\ Met(f[1..k], texts[k + 1]) \in Seq(Language)
        /\ Range(Met(f[1..k], texts[k + 1])) = Range(f[1..k]) \cup {_select_language(texts[k + 1])}
    BY <2>4, MetDoes
  <2>6. MetBy(k + 1)
    BY <2>2, <2>3, <2>4, <2>5
  <2>7. QED BY <2>6
<1>7. n \in S
  <2> HIDE DEF S
  <2>1. QED BY <1>5, <1>6, InductiveUpTo
<1>8. MetBy(n)
  BY <1>7
<1>9. QED BY <1>2, <1>8

\* What is done of a call, and what it comes to.
Done == [ner : Ner, refused : BOOLEAN, docs : Seq(Charged)]

Outcome == [ner : Ner, refused : BOOLEAN, results : Seq(Charged)]

\* Process of extract_many.
Processed(texts, installed, done, language) ==
    LET ready == _ensure_nlp(done.ner, language, installed)
        failed == ready.pipelines[language] = "none"
    IN  CASE done.refused -> done
          [] ~done.refused /\ failed -> [ner |-> ready, refused |-> TRUE, docs |-> <<>>]
          [] OTHER -> [ner |-> ready, refused |-> FALSE,
                       docs |-> done.docs \o Piped(ready, texts, language)]

ProcessedTo(next, done, texts, l, installed, seen, missed) ==
    /\ next \in Done /\ Sound(next.ner, seen, missed) /\ Keeps(done.ner, next.ner)
    /\ next.refused => done.refused \/ installed \cap Models = {}
    /\ ~next.refused => /\ ~done.refused /\ next.ner.pipelines[l] # "none"
                        /\ next.docs = done.docs \o Piped(next.ner, texts, l)

LEMMA ProcessedDoes ==
    ASSUME NEW seen, NEW missed, NEW texts, NEW n \in Nat, DOMAIN texts = 1..n,
           NEW installed \in SUBSET seen, \A m \in Models : m \notin installed => m \in missed,
           NEW done \in Done, Sound(done.ner, seen, missed), NEW l \in Language
    PROVE  ProcessedTo(Processed(texts, installed, done, l), done, texts, l, installed, seen, missed)
<1> DEFINE ready == _ensure_nlp(done.ner, l, installed)
           next == Processed(texts, installed, done, l)
           failed == ready.pipelines[l] = "none"
           docs == done.docs \o Piped(ready, texts, l)
<1>1. /\ Sound(ready, seen, missed) /\ Keeps(done.ner, ready)
      /\ failed => installed \cap Models = {}
  BY EnsureDoes
<1>2. done.docs \in Seq(Charged) /\ ready \in Ner
  BY <1>1 DEF Done, Sound
<1>3. next = CASE done.refused -> done
               [] ~done.refused /\ failed -> [ner |-> ready, refused |-> TRUE, docs |-> <<>>]
               [] OTHER -> [ner |-> ready, refused |-> FALSE, docs |-> docs]
  BY Zenon DEF Processed
<1>4. CASE done.refused
  <2> HIDE DEF next, ready, failed, docs
  <2>1. next = done
    BY <1>3, <1>4
  <2>2. Keeps(done.ner, done.ner)
    BY DEF Keeps
  <2>3. QED BY <1>4, <2>1, <2>2 DEF next, ProcessedTo
<1>5. CASE ~done.refused /\ failed
  <2> HIDE DEF next, ready, docs
  <2>1. next = [ner |-> ready, refused |-> TRUE, docs |-> <<>>]
    BY <1>3, <1>5
  <2>2. <<>> \in Seq(Charged)
    OBVIOUS
  <2>3. next \in Done /\ next.ner = ready /\ next.refused
    BY <1>2, <2>1, <2>2 DEF Done
  <2>4. QED BY <1>1, <1>5, <2>3 DEF next, ProcessedTo
<1>6. CASE ~done.refused /\ ~failed
  <2>1. Piped(ready, texts, l) \in Seq(Charged)
    <3>1. PipedAs(Piped(ready, texts, l), texts, l, ready.pipelines[l])
      <4> HIDE DEF ready
      <4>1. QED BY <1>2, <1>6, PipedDoes
    <3>2. QED BY <3>1, Zenon DEF PipedAs
  <2>2. docs \in Seq(Charged)
    BY <1>2, <2>1, ConcatProperties
  <2> HIDE DEF next, docs, failed, ready
  <2>3. next = [ner |-> ready, refused |-> FALSE, docs |-> docs]
    BY <1>3, <1>6
  <2>4. next \in Done /\ next.ner = ready /\ next.refused = FALSE /\ next.docs = docs
    BY <1>2, <2>2, <2>3 DEF Done
  <2>5. next.docs = done.docs \o Piped(next.ner, texts, l) /\ next.ner.pipelines[l] # "none"
    BY <1>6, <2>4 DEF docs, failed
  <2>6. QED BY <1>1, <1>6, <2>4, <2>5 DEF next, ProcessedTo
<1>7. QED BY <1>4, <1>5, <1>6

\* Each text of the languages that were processed has been through their pipelines.
CoversTexts(docs, texts, ner, languages) ==
    /\ \A k \in DOMAIN docs :
          /\ docs[k].text \in DOMAIN texts
          /\ docs[k].model = ner.pipelines[_select_language(texts[docs[k].text])]
    /\ \A i \in DOMAIN texts :
          _select_language(texts[i]) \in languages => \E k \in DOMAIN docs : docs[k].text = i

LEMMA CoversMore ==
    ASSUME NEW texts, NEW n \in Nat, DOMAIN texts = 1..n, NEW l \in Language, NEW languages,
           NEW ner, NEW docs \in Seq(Charged), CoversTexts(docs, texts, ner, languages),
           NEW next \in Ner, Keeps(ner, next), next.pipelines[l] # "none"
    PROVE  CoversTexts(docs \o Piped(next, texts, l), texts, next, languages \cup {l})
<1> DEFINE more == Piped(next, texts, l)
           all == docs \o more
           p == Len(docs)
           q == Len(more)
<1>1. /\ more \in Seq(Charged)
      /\ \A k \in DOMAIN more :
            /\ more[k].text \in DOMAIN texts /\ _select_language(texts[more[k].text]) = l
            /\ more[k].model = next.pipelines[l]
      /\ \A i \in DOMAIN texts :
            _select_language(texts[i]) = l => \E k \in DOMAIN more : more[k].text = i
  <2>1. PipedAs(more, texts, l, next.pipelines[l])
    BY PipedDoes
  <2> HIDE DEF more
  <2>2. QED BY <2>1 DEF PipedAs
<1> HIDE DEF more
<1>2. /\ p \in Nat /\ q \in Nat /\ DOMAIN docs = 1..p /\ DOMAIN more = 1..q
      /\ DOMAIN all = 1..(p + q)
      /\ \A k \in 1..(p + q) : all[k] = IF k <= p THEN docs[k] ELSE more[k - p]
  BY <1>1, LenProperties, ConcatProperties
<1> HIDE DEF p, q, all
<1>3. \A k \in 1..p : k \in 1..(p + q) /\ all[k] = docs[k]
  BY <1>2
<1>4. \A k \in 1..q : p + k \in 1..(p + q) /\ all[p + k] = more[k]
  BY <1>2
<1>5. \A k \in 1..(p + q) : k \in 1..p \/ (k - p \in 1..q /\ all[k] = more[k - p])
  BY <1>2
<1>6. ASSUME NEW k \in 1..p
      PROVE  /\ docs[k].text \in DOMAIN texts
             /\ docs[k].model = next.pipelines[_select_language(texts[docs[k].text])]
  <2> DEFINE own == _select_language(texts[docs[k].text])
  <2>1. docs[k].text \in DOMAIN texts /\ docs[k].model = ner.pipelines[own]
    BY <1>2 DEF CoversTexts
  <2>2. own \in Language
    BY DEF _select_language, Language
  <2> HIDE DEF own
  <2>3. docs[k].model # "none"
    <3>1. docs[k] \in Charged
      BY <1>2, ElementOfSeq
    <3>2. QED BY <3>1, SpacyNerAssumption DEF Charged, Models
  <2>4. docs[k].model = next.pipelines[own]
    BY <2>1, <2>2, <2>3 DEF Keeps
  <2>5. QED BY <2>1, <2>4 DEF own
<1>7. ASSUME NEW k \in 1..(p + q)
      PROVE  /\ all[k].text \in DOMAIN texts
             /\ all[k].model = next.pipelines[_select_language(texts[all[k].text])]
  <2>1. CASE k \in 1..p
    BY <1>3, <1>6, <2>1
  <2>2. CASE k \notin 1..p
    <3>1. k - p \in 1..q /\ all[k] = more[k - p]
      BY <1>5, <2>2
    <3>2. /\ all[k].text \in DOMAIN texts /\ _select_language(texts[all[k].text]) = l
          /\ all[k].model = next.pipelines[l]
      BY <1>1, <1>2, <3>1
    <3>3. QED BY <3>2
  <2>3. QED BY <2>1, <2>2
<1>8. ASSUME NEW i \in DOMAIN texts, _select_language(texts[i]) \in languages \cup {l}
      PROVE  \E k \in 1..(p + q) : all[k].text = i
  <2>1. CASE _select_language(texts[i]) \in languages
    <3>1. PICK k \in 1..p : docs[k].text = i
      BY <1>2, <2>1 DEF CoversTexts
    <3>2. QED BY <1>3, <3>1
  <2>2. CASE _select_language(texts[i]) = l
    <3>1. PICK k \in 1..q : more[k].text = i
      BY <1>1, <1>2, <2>2
    <3>2. QED BY <1>4, <3>1
  <2>3. QED BY <1>8, <2>1, <2>2
<1>9. CoversTexts(all, texts, next, languages \cup {l})
  BY <1>2, <1>7, <1>8 DEF CoversTexts
<1>10. QED BY <1>9 DEF all, more

LEMMA KeepsOn ==
    ASSUME NEW first, NEW second, NEW third, Keeps(first, second), Keeps(second, third)
    PROVE  Keeps(first, third)
BY DEF Keeps

\* What the groups of some languages have come to.
DoneSoFar(done, ner, texts, languages, installed, seen, missed) ==
    /\ done \in Done /\ Sound(done.ner, seen, missed) /\ Keeps(ner, done.ner)
    /\ done.refused => installed \cap Models = {}
    /\ ~done.refused => CoversTexts(done.docs, texts, done.ner, languages)

LEMMA ProcessedNext ==
    ASSUME NEW seen, NEW missed, NEW texts, NEW n \in Nat, DOMAIN texts = 1..n,
           NEW installed \in SUBSET seen, \A m \in Models : m \notin installed => m \in missed,
           NEW ner, NEW languages, NEW l \in Language,
           NEW done, DoneSoFar(done, ner, texts, languages, installed, seen, missed)
    PROVE  DoneSoFar(Processed(texts, installed, done, l), ner, texts, languages \cup {l},
                     installed, seen, missed)
<1> DEFINE next == Processed(texts, installed, done, l)
<1>1. /\ done \in Done /\ Sound(done.ner, seen, missed) /\ Keeps(ner, done.ner)
      /\ done.refused => installed \cap Models = {}
      /\ ~done.refused => CoversTexts(done.docs, texts, done.ner, languages)
  BY Zenon DEF DoneSoFar
<1>2. /\ next \in Done /\ Sound(next.ner, seen, missed) /\ Keeps(done.ner, next.ner)
      /\ next.refused => done.refused \/ installed \cap Models = {}
      /\ ~next.refused => /\ ~done.refused /\ next.ner.pipelines[l] # "none"
                          /\ next.docs = done.docs \o Piped(next.ner, texts, l)
  <2>1. ProcessedTo(next, done, texts, l, installed, seen, missed)
    BY <1>1, ProcessedDoes
  <2> HIDE DEF next
  <2>2. QED BY <2>1, Zenon DEF ProcessedTo
<1> HIDE DEF next
<1>3. Keeps(ner, next.ner)
  BY <1>1, <1>2, KeepsOn
<1>4. ASSUME ~next.refused PROVE CoversTexts(next.docs, texts, next.ner, languages \cup {l})
  <2>1. done.docs \in Seq(Charged) /\ next.ner \in Ner
    BY <1>1, <1>2 DEF Done
  <2>2. CoversTexts(done.docs \o Piped(next.ner, texts, l), texts, next.ner, languages \cup {l})
    BY <1>1, <1>2, <1>4, <2>1, CoversMore
  <2>3. QED BY <1>2, <1>4, <2>2
<1>5. QED BY <1>1, <1>2, <1>3, <1>4 DEF DoneSoFar, next

\* The equation that the fold of extract_many solves.
Processes(f, start, texts, installed, groups, D) ==
    f = [s \in SUBSET D |->
            IF s = {} THEN start ELSE Processed(texts, installed, f[s \ {Max(s)}], groups[Max(s)])]

LEMMA ProcessesExists ==
    ASSUME NEW seen, NEW missed, NEW texts, NEW n \in Nat, DOMAIN texts = 1..n,
           NEW installed \in SUBSET seen, \A m \in Models : m \notin installed => m \in missed,
           NEW start \in Done, Sound(start.ner, seen, missed), NEW groups \in Seq(Language)
    PROVE  \E f : Processes(f, start, texts, installed, groups, 1..Len(groups))
<1> DEFINE q == Len(groups)
           Acc == {done \in Done : Sound(done.ner, seen, missed)}
           step == [p \in Acc \X (1..q) |-> Processed(texts, installed, p[1], groups[p[2]])]
<1>0. q \in Nat /\ \A i \in 1..q : groups[i] \in Language
  BY LenProperties, ElementOfSeq
<1>1. step \in [Acc \X (1..q) -> Acc]
  <2>1. ASSUME NEW done \in Acc, NEW i \in 1..q
        PROVE  Processed(texts, installed, done, groups[i]) \in Acc
    <3>1. done \in Done /\ Sound(done.ner, seen, missed) /\ groups[i] \in Language
      BY <1>0
    <3>2. ProcessedTo(Processed(texts, installed, done, groups[i]), done, texts, groups[i],
                      installed, seen, missed)
      BY <3>1, ProcessedDoes
    <3>3. QED BY <3>2 DEF ProcessedTo
  <2>2. QED BY <2>1
<1>2. ASSUME NEW done \in Acc, NEW i \in 1..q
      PROVE  step[<<done, i>>] = Processed(texts, installed, done, groups[i])
  OBVIOUS
<1>3. start \in Acc
  OBVIOUS
<1> HIDE DEF step, q, Acc
<1>4. PICK f \in [SUBSET (1..q) -> Acc] : FoldsBy(f, start, q, step)
  BY <1>0, <1>1, <1>3, FoldExists
<1>5. ASSUME NEW s \in SUBSET (1..q)
      PROVE  f[s] = IF s = {} THEN start
                    ELSE Processed(texts, installed, f[s \ {Max(s)}], groups[Max(s)])
  <2>1. CASE s = {}
    BY <1>4, <2>1 DEF FoldsBy
  <2>2. CASE s # {}
    <3>1. Max(s) \in 1..q
      BY <1>0, <2>2, LastOfSome
    <3>2. f[s \ {Max(s)}] \in Acc
      OBVIOUS
    <3>3. f[s] = step[<<f[s \ {Max(s)}], Max(s)>>]
      BY <1>4, <2>2, Zenon DEF FoldsBy
    <3>4. QED BY <1>2, <2>2, <3>1, <3>2, <3>3, Zenon
  <2>3. QED BY <2>1, <2>2
<1>6. f = [s \in SUBSET (1..q) |-> f[s]]
  OBVIOUS
<1>7. Processes(f, start, texts, installed, groups, 1..q)
  BY <1>5, <1>6, Zenon DEF Processes
<1>8. QED BY <1>7 DEF q

\* What is done of a call when all groups have been processed.
AllDone(start, texts, installed) ==
    FoldLeft(LAMBDA done, l : Processed(texts, installed, done, l), start, lang_groups(texts))

LEMMA AllProcessed ==
    ASSUME NEW seen, NEW missed, NEW texts, NEW n \in Nat, DOMAIN texts = 1..n,
           NEW installed \in SUBSET seen, \A m \in Models : m \notin installed => m \in missed,
           NEW ner, NEW start, DoneSoFar(start, ner, texts, {}, installed, seen, missed)
    PROVE  DoneSoFar(AllDone(start, texts, installed), ner, texts, Range(lang_groups(texts)),
                     installed, seen, missed)
<1> DEFINE groups == lang_groups(texts)
           q == Len(groups)
           f == CHOOSE g : Processes(g, start, texts, installed, groups, 1..q)
           By(k) == {groups[i] : i \in 1..k}
           S == {k \in Nat : k <= q => DoneSoFar(f[1..k], ner, texts, By(k), installed, seen, missed)}
<1>0. groups \in Seq(Language)
  BY LanguagesMet
<1>1. AllDone(start, texts, installed)
        = (CHOOSE g : Processes(g, start, texts, installed, groups, DOMAIN groups))[DOMAIN groups]
  BY Zenon DEF AllDone, FoldLeft, MapThenFoldSet, Processes
<1> HIDE DEF groups
<1>2. q \in Nat /\ DOMAIN groups = 1..q /\ \A i \in 1..q : groups[i] \in Language
  BY <1>0, LenProperties, ElementOfSeq
<1>3. AllDone(start, texts, installed) = f[1..q]
  BY <1>1, <1>2, Zenon
<1>4. Processes(f, start, texts, installed, groups, 1..q)
  <2>1. start \in Done /\ Sound(start.ner, seen, missed)
    BY Zenon DEF DoneSoFar
  <2>2. \E g : Processes(g, start, texts, installed, groups, 1..q)
    BY <1>0, <2>1, ProcessesExists
  <2>3. QED BY <2>2, Zenon
<1> HIDE DEF f
<1>5. \A s \in SUBSET (1..q) :
         f[s] = IF s = {} THEN start
                ELSE Processed(texts, installed, f[s \ {Max(s)}], groups[Max(s)])
  BY <1>4, Zenon DEF Processes
<1> HIDE DEF q
<1>6. 0 \in S
  <2>1. 1..0 = {} /\ {} \in SUBSET (1..q)
    OBVIOUS
  <2>2. f[1..0] = start
    BY <1>5, <2>1
  <2>3. By(0) = {}
    BY <2>1
  <2> HIDE DEF By
  <2>4. DoneSoFar(f[1..0], ner, texts, By(0), installed, seen, missed)
    BY <2>2, <2>3, Zenon
  <2>5. QED BY <2>4
<1>7. ASSUME NEW k \in Nat, k < q, k \in S PROVE k + 1 \in S
  <2>1. Max(1..(k + 1)) = k + 1 /\ 1..(k + 1) \ {k + 1} = 1..k /\ 1..(k + 1) # {}
    BY LastOfFirst
  <2>2. /\ 1..(k + 1) \in SUBSET (1..q) /\ k + 1 \in 1..q /\ groups[k + 1] \in Language
        /\ 1..(k + 1) = 1..k \cup {k + 1}
    BY <1>2, <1>7
  <2>3. f[1..(k + 1)] = Processed(texts, installed, f[1..k], groups[k + 1])
    BY <1>5, <2>1, <2>2, Zenon
  <2>4. DoneSoFar(f[1..k], ner, texts, By(k), installed, seen, missed)
    <3> HIDE DEF By
    <3>1. QED BY <1>2, <1>7
  <2>5. By(k + 1) = By(k) \cup {groups[k + 1]}
    BY <2>2
  <2> HIDE DEF By
  <2>6. DoneSoFar(f[1..(k + 1)], ner, texts, By(k + 1), installed, seen, missed)
    <3> DEFINE done == f[1..k]
               l == groups[k + 1]
    <3>1. DoneSoFar(done, ner, texts, By(k), installed, seen, missed) /\ l \in Language
      BY <2>2, <2>4
    <3> HIDE DEF done, l
    <3>2. DoneSoFar(Processed(texts, installed, done, l), ner, texts, By(k) \cup {l},
                    installed, seen, missed)
      BY <3>1, ProcessedNext
    <3>3. QED BY <2>3, <2>5, <3>2, Zenon DEF done, l
  <2>7. QED BY <2>6
<1>8. q \in S
  <2> HIDE DEF S
  <2>1. QED BY <1>2, <1>6, <1>7, InductiveUpTo
<1>9. DoneSoFar(f[1..q], ner, texts, By(q), installed, seen, missed)
  <2> HIDE DEF By
  <2>1. q <= q
    BY <1>2
  <2>2. QED BY <1>8, <2>1
<1>10. By(q) = Range(groups)
  BY <1>2 DEF Range
<1> HIDE DEF By
<1>11. QED BY <1>3, <1>9, <1>10, Zenon DEF groups

\* What a call comes to.
CallDoes(next, ner, texts, installed, seen, missed) ==
    /\ next \in Outcome /\ Sound(next.ner, seen, missed) /\ Keeps(ner, next.ner)
    /\ next.refused => installed \cap Models = {}
    /\ ~next.refused =>
          \A i \in DOMAIN texts :
             /\ next.results[i].text = i /\ next.results[i].model \in Models
             /\ next.results[i].model = next.ner.pipelines[_select_language(texts[i])]

LEMMA ExtractDoes ==
    ASSUME NEW seen, NEW missed, NEW texts, NEW n \in Nat, DOMAIN texts = 1..n,
           NEW installed \in SUBSET seen, \A m \in Models : m \notin installed => m \in missed,
           NEW ner, Sound(ner, seen, missed)
    PROVE  CallDoes(extract_many(ner, texts, installed), ner, texts, installed, seen, missed)
<1> DEFINE start == [ner |-> ner, refused |-> FALSE, docs |-> <<>>]
           last == AllDone(start, texts, installed)
           next == extract_many(ner, texts, installed)
           results == IF last.refused THEN <<>> ELSE Reassemble(texts, last.docs)
<1>1. next = [ner |-> last.ner, refused |-> last.refused, results |-> results]
  BY Zenon DEF extract_many, AllDone, Processed
<1>2. DoneSoFar(start, ner, texts, {}, installed, seen, missed)
  <2>1. ner \in Ner /\ <<>> \in Seq(Charged) /\ DOMAIN <<>> = {}
    BY DEF Sound
  <2>2. start \in Done
    BY <2>1 DEF Done
  <2>3. start.ner = ner /\ start.refused = FALSE /\ start.docs = <<>>
    OBVIOUS
  <2>4. Keeps(ner, ner)
    BY DEF Keeps
  <2>5. CoversTexts(<<>>, texts, ner, {})
    BY <2>1 DEF CoversTexts
  <2> HIDE DEF start
  <2>6. QED BY <2>2, <2>3, <2>4, <2>5 DEF DoneSoFar
<1> HIDE DEF start
<1>3. DoneSoFar(last, ner, texts, Range(lang_groups(texts)), installed, seen, missed)
  BY <1>2, AllProcessed
<1> HIDE DEF last, next
<1>4. /\ last \in Done /\ Sound(last.ner, seen, missed) /\ Keeps(ner, last.ner)
      /\ last.refused => installed \cap Models = {}
      /\ ~last.refused => CoversTexts(last.docs, texts, last.ner, Range(lang_groups(texts)))
  BY <1>3, Zenon DEF DoneSoFar
<1>5. last.ner \in Ner /\ last.refused \in BOOLEAN /\ last.docs \in Seq(Charged)
  BY <1>4 DEF Done
<1>6. ASSUME ~last.refused
      PROVE  /\ results \in [1..n -> Charged]
             /\ \A i \in 1..n :
                   /\ results[i].text = i
                   /\ results[i].model = last.ner.pipelines[_select_language(texts[i])]
  <2> DEFINE docs == last.docs
             place == [i \in 1..n |-> CHOOSE k \in DOMAIN docs : docs[k].text = i]
  <2>0. CoversTexts(docs, texts, last.ner, Range(lang_groups(texts)))
    BY <1>4, <1>6
  <2>1. results = [i \in 1..n |-> docs[place[i]]]
    BY <1>6 DEF Reassemble
  <2> HIDE DEF results, docs
  <2>2. ASSUME NEW i \in 1..n PROVE place[i] \in DOMAIN docs /\ docs[place[i]].text = i
    <3>1. _select_language(texts[i]) \in Range(lang_groups(texts))
      BY LanguagesMet
    <3>2. \E k \in DOMAIN docs : docs[k].text = i
      BY <2>0, <3>1 DEF CoversTexts
    <3>3. QED BY <3>2
  <2> HIDE DEF place
  <2>3. ASSUME NEW i \in 1..n
        PROVE  /\ docs[place[i]] \in Charged
               /\ docs[place[i]].model = last.ner.pipelines[_select_language(texts[i])]
    <3>1. place[i] \in DOMAIN docs /\ docs[place[i]].text = i
      BY <2>2
    <3>2. docs[place[i]] \in Charged
      BY <1>5, <3>1, LenProperties, ElementOfSeq DEF docs
    <3>3. docs[place[i]].model = last.ner.pipelines[_select_language(texts[docs[place[i]].text])]
      BY <2>0, <3>1 DEF CoversTexts
    <3>4. QED BY <3>1, <3>2, <3>3
  <2>4. QED BY <2>1, <2>2, <2>3
<1>7. results \in Seq(Charged)
  <2>1. CASE last.refused
    BY <2>1
  <2>2. CASE ~last.refused
    <3>1. results \in [1..n -> Charged]
      BY <1>6, <2>2
    <3> HIDE DEF results
    <3>2. QED BY <3>1, SeqDef
  <2>3. QED BY <2>1, <2>2
<1> HIDE DEF results
<1>8. /\ next \in Outcome /\ next.ner = last.ner /\ next.refused = last.refused
      /\ next.results = results
  BY <1>1, <1>5, <1>7 DEF Outcome
<1>9. ASSUME ~next.refused, NEW i \in DOMAIN texts
      PROVE  /\ next.results[i].text = i /\ next.results[i].model \in Models
             /\ next.results[i].model = next.ner.pipelines[_select_language(texts[i])]
  <2>1. /\ results \in [1..n -> Charged]
        /\ results[i].text = i
        /\ results[i].model = last.ner.pipelines[_select_language(texts[i])]
    BY <1>6, <1>8, <1>9
  <2>2. results[i] \in Charged
    BY <2>1
  <2>3. results[i].model \in Models
    BY <2>2 DEF Charged
  <2>4. QED BY <1>8, <2>1, <2>3
<1>10. CallDoes(next, ner, texts, installed, seen, missed)
  BY <1>4, <1>8, <1>9 DEF CallDoes
<1>11. QED BY <1>10 DEF next

LEMMA SoundMore ==
    ASSUME NEW ner, NEW seen, NEW missed, Sound(ner, seen, missed),
           NEW more, NEW others, seen \subseteq more, missed \subseteq others
    PROVE  Sound(ner, more, others)
BY DEF Sound

\* Of an adapter that is new nothing has been asked.
LEMMA NewIsSound ==
    ASSUME NEW seen, NEW missed
    PROVE  Sound(NewNer, seen, missed)
<1> DEFINE pipelines == [l \in Language |-> "none"]
<1>1. /\ pipelines \in [Language -> Models \cup {"none"}] /\ <<>> \in Seq(Models)
      /\ \A l \in Language : pipelines[l] = "none"
      /\ DOMAIN <<>> = {}
  OBVIOUS
<1>2. NewNer = [pipelines |-> pipelines, by_model |-> <<>>]
  BY Zenon DEF NewNer
<1> HIDE DEF pipelines
<1>3. NewNer \in Ner /\ NewNer.pipelines = pipelines /\ NewNer.by_model = <<>>
  BY <1>1, <1>2 DEF Ner
<1>4. IsInjective(<<>>) /\ Range(<<>>) = {}
  BY <1>1 DEF IsInjective, Range
<1>5. QED BY <1>1, <1>3, <1>4 DEF Sound

\* Call of Session.
LastNer(answers) == IF answers = <<>> THEN NewNer ELSE Last(answers).ner

Called(answers, call) ==
    Append(answers, extract_many(LastNer(answers), call.texts, call.installed))

SeenBy(calls, k)   == UNION {calls[j].installed : j \in 1..k}
MissedBy(calls, k) == {m \in Models : \E j \in 1..k : m \notin calls[j].installed}

\* What the `m`-th call came to.
CallGives(answers, calls, m) ==
    /\ Sound(answers[m].ner, SeenBy(calls, m), MissedBy(calls, m))
    /\ \A j \in 1..m : Keeps(answers[j].ner, answers[m].ner)
    /\ answers[m].refused => calls[m].installed \cap Models = {}
    /\ ~answers[m].refused =>
          \A i \in DOMAIN calls[m].texts :
             /\ answers[m].results[i].text = i /\ answers[m].results[i].model \in Models
             /\ answers[m].results[i].model
                   = answers[m].ner.pipelines[_select_language(calls[m].texts[i])]

SessionSoFar(answers, calls, k) ==
    /\ answers \in Seq(Outcome) /\ Len(answers) = k
    /\ \A m \in 1..k : CallGives(answers, calls, m)

LEMMA CalledNext ==
    ASSUME NEW calls \in Seq(NerCall), NEW k \in Nat, k + 1 \in DOMAIN calls,
           NEW answers, SessionSoFar(answers, calls, k)
    PROVE  SessionSoFar(Called(answers, calls[k + 1]), calls, k + 1)
<1> DEFINE call == calls[k + 1]
           ner == LastNer(answers)
           seen == SeenBy(calls, k + 1)
           missed == MissedBy(calls, k + 1)
           next == extract_many(ner, call.texts, call.installed)
           more == Called(answers, call)
<1>1. /\ Len(call.texts) \in Nat /\ DOMAIN call.texts = 1..Len(call.texts)
  <2>1. call \in NerCall
    BY LenProperties, ElementOfSeq
  <2>2. call.texts \in Seq([latin : Nat, cyrillic : Nat])
    BY <2>1 DEF NerCall
  <2> HIDE DEF call
  <2>3. QED BY <2>2, LenProperties
<1>2. /\ answers \in Seq(Outcome) /\ Len(answers) = k
      /\ \A m \in 1..k : CallGives(answers, calls, m)
  BY Zenon DEF SessionSoFar
<1>3. /\ SeenBy(calls, k) \subseteq seen /\ MissedBy(calls, k) \subseteq missed
      /\ call.installed \subseteq seen /\ \A m \in Models : m \notin call.installed => m \in missed
  <2>1. 1..(k + 1) = 1..k \cup {k + 1}
    OBVIOUS
  <2>2. QED BY <2>1 DEF SeenBy, MissedBy
<1>4. Sound(ner, seen, missed) /\ \A j \in 1..k : Keeps(answers[j].ner, ner)
  <2>1. CASE k = 0
    <3>1. answers = <<>>
      BY <1>2, <2>1, EmptySeq
    <3>2. ner = NewNer /\ 1..k = {}
      BY <2>1, <3>1 DEF LastNer
    <3> HIDE DEF ner, seen, missed
    <3>3. QED BY <3>2, NewIsSound
  <2>2. CASE k # 0
    <3>1. k \in 1..k /\ answers # <<>> /\ Last(answers) = answers[k]
      BY <1>2, <2>2, EmptySeq DEF Last
    <3>2. ner = answers[k].ner
      BY <3>1 DEF LastNer
    <3>3. /\ Sound(answers[k].ner, SeenBy(calls, k), MissedBy(calls, k))
          /\ \A j \in 1..k : Keeps(answers[j].ner, answers[k].ner)
      BY <1>2, <3>1 DEF CallGives
    <3> HIDE DEF ner, seen, missed
    <3>4. QED BY <1>3, <3>2, <3>3, SoundMore
  <2>3. QED BY <2>1, <2>2
<1> HIDE DEF ner, seen, missed, call
<1>5. CallDoes(next, ner, call.texts, call.installed, seen, missed)
  BY <1>1, <1>3, <1>4, ExtractDoes
<1>6. more = Append(answers, next)
  BY Zenon DEF Called, ner
<1> HIDE DEF next, more
<1>7. /\ next \in Outcome /\ Sound(next.ner, seen, missed) /\ Keeps(ner, next.ner)
      /\ next.refused => call.installed \cap Models = {}
      /\ ~next.refused =>
            \A i \in DOMAIN call.texts :
               /\ next.results[i].text = i /\ next.results[i].model \in Models
               /\ next.results[i].model = next.ner.pipelines[_select_language(call.texts[i])]
  BY <1>5, Zenon DEF CallDoes
<1>8. /\ more \in Seq(Outcome) /\ Len(more) = k + 1 /\ more[k + 1] = next
      /\ \A m \in 1..k : more[m] = answers[m]
  BY <1>2, <1>6, <1>7, AppendProperties
<1>9. ASSUME NEW m \in 1..k PROVE CallGives(more, calls, m)
  <2>1. \A j \in 1..m : j \in 1..k /\ more[j] = answers[j]
    BY <1>8
  <2>2. more[m] = answers[m] /\ CallGives(answers, calls, m)
    BY <1>2, <1>8
  <2>3. \A j \in 1..m : Keeps(more[j].ner, more[m].ner)
    BY <2>1, <2>2 DEF CallGives
  <2>4. QED BY <2>2, <2>3, Zenon DEF CallGives
<1>10. CallGives(more, calls, k + 1)
  <2>1. ASSUME NEW j \in 1..(k + 1) PROVE Keeps(more[j].ner, next.ner)
    <3>1. CASE j = k + 1
      BY <1>8, <3>1 DEF Keeps
    <3>2. CASE j # k + 1
      <4>1. j \in 1..k
        BY <3>2
      <4>2. more[j] = answers[j] /\ Keeps(answers[j].ner, ner)
        BY <1>4, <1>8, <4>1
      <4>3. QED BY <1>7, <4>2, KeepsOn
    <3>3. QED BY <3>1, <3>2
  <2>2. \A j \in 1..(k + 1) : Keeps(more[j].ner, more[k + 1].ner)
    BY <1>8, <2>1
  <2>3. Sound(more[k + 1].ner, seen, missed)
    BY <1>7, <1>8
  <2>4. more[k + 1].refused => call.installed \cap Models = {}
    BY <1>7, <1>8
  <2>5. ~more[k + 1].refused =>
           \A i \in DOMAIN call.texts :
              /\ more[k + 1].results[i].text = i /\ more[k + 1].results[i].model \in Models
              /\ more[k + 1].results[i].model
                    = more[k + 1].ner.pipelines[_select_language(call.texts[i])]
    BY <1>7, <1>8
  <2>6. QED BY <2>2, <2>3, <2>4, <2>5, Zenon DEF CallGives, call, seen, missed
<1>11. \A m \in 1..(k + 1) : CallGives(more, calls, m)
  <2>1. 1..(k + 1) = 1..k \cup {k + 1}
    OBVIOUS
  <2>2. QED BY <1>9, <1>10, <2>1
<1>12. QED BY <1>8, <1>11 DEF SessionSoFar, more, call

\* The equation that Session solves.
SessionFold(f, calls, D) ==
    f = [s \in SUBSET D |-> IF s = {} THEN <<>> ELSE Called(f[s \ {Max(s)}], calls[Max(s)])]

LEMMA CallsExists ==
    ASSUME NEW calls \in Seq(NerCall)
    PROVE  \E f : SessionFold(f, calls, 1..Len(calls))
<1> DEFINE q == Len(calls)
           Acc == {a \in Seq(Outcome) : \A m \in DOMAIN a : Sound(a[m].ner, Models, Models)}
           step == [p \in Acc \X (1..q) |-> Called(p[1], calls[p[2]])]
<1>0. q \in Nat /\ \A i \in 1..q : calls[i] \in NerCall
  BY LenProperties, ElementOfSeq
<1>1. step \in [Acc \X (1..q) -> Acc]
  <2>1. ASSUME NEW a \in Acc, NEW i \in 1..q PROVE Called(a, calls[i]) \in Acc
    <3> DEFINE call == calls[i]
               ner == LastNer(a)
               next == extract_many(ner, call.texts, call.installed)
               n == Len(a)
    <3>1. call.texts \in Seq([latin : Nat, cyrillic : Nat]) /\ call.installed \in SUBSET Models
      BY <1>0 DEF NerCall, Models
    <3>2. a \in Seq(Outcome) /\ \A m \in DOMAIN a : Sound(a[m].ner, Models, Models)
      OBVIOUS
    <3>3. n \in Nat /\ DOMAIN a = 1..n
      BY <3>2, LenProperties
    <3>4. Sound(ner, Models, Models)
      <4>1. CASE a = <<>>
        BY <4>1, NewIsSound DEF LastNer
      <4>2. CASE a # <<>>
        <5>1. n \in DOMAIN a
          BY <3>2, <3>3, <4>2, EmptySeq
        <5>2. ner = a[n].ner
          BY <4>2 DEF LastNer, Last
        <5>3. QED BY <3>2, <5>1, <5>2
      <4>3. QED BY <4>1, <4>2
    <3> HIDE DEF call, ner, Acc
    <3>5. Len(call.texts) \in Nat /\ DOMAIN call.texts = 1..Len(call.texts)
      BY <3>1, LenProperties
    <3>6. CallDoes(next, ner, call.texts, call.installed, Models, Models)
      BY <3>1, <3>4, <3>5, ExtractDoes
    <3>7. Called(a, call) = Append(a, next)
      BY Zenon DEF Called, ner
    <3> HIDE DEF next, n
    <3>8. next \in Outcome /\ Sound(next.ner, Models, Models)
      BY <3>6, Zenon DEF CallDoes
    <3> DEFINE more == Append(a, next)
    <3>9. /\ more \in Seq(Outcome) /\ DOMAIN more = 1..(n + 1) /\ more[n + 1] = next
          /\ \A m \in 1..n : more[m] = a[m]
      BY <3>2, <3>3, <3>8, AppendProperties, LenProperties DEF n
    <3> HIDE DEF more
    <3>10. 1..(n + 1) = 1..n \cup {n + 1}
      BY <3>3
    <3>11. \A m \in DOMAIN more : Sound(more[m].ner, Models, Models)
      BY <3>2, <3>3, <3>8, <3>9, <3>10
    <3>12. QED BY <3>7, <3>9, <3>11 DEF Acc, call, more
  <2>2. QED BY <2>1
<1>2. ASSUME NEW a \in Acc, NEW i \in 1..q PROVE step[<<a, i>>] = Called(a, calls[i])
  OBVIOUS
<1>3. <<>> \in Acc
  <2>1. <<>> \in Seq(Outcome) /\ DOMAIN <<>> = {}
    OBVIOUS
  <2>2. QED BY <2>1
<1> HIDE DEF step, q, Acc
<1>4. PICK f \in [SUBSET (1..q) -> Acc] : FoldsBy(f, <<>>, q, step)
  BY <1>0, <1>1, <1>3, FoldExists
<1>5. ASSUME NEW s \in SUBSET (1..q)
      PROVE  f[s] = IF s = {} THEN <<>> ELSE Called(f[s \ {Max(s)}], calls[Max(s)])
  <2>1. CASE s = {}
    BY <1>4, <2>1 DEF FoldsBy
  <2>2. CASE s # {}
    <3>1. Max(s) \in 1..q
      BY <1>0, <2>2, LastOfSome
    <3>2. f[s \ {Max(s)}] \in Acc
      OBVIOUS
    <3>3. f[s] = step[<<f[s \ {Max(s)}], Max(s)>>]
      BY <1>4, <2>2, Zenon DEF FoldsBy
    <3>4. QED BY <1>2, <2>2, <3>1, <3>2, <3>3, Zenon
  <2>3. QED BY <2>1, <2>2
<1>6. f = [s \in SUBSET (1..q) |-> f[s]]
  OBVIOUS
<1>7. SessionFold(f, calls, 1..q)
  BY <1>5, <1>6, Zenon DEF SessionFold
<1>8. QED BY <1>7 DEF q

\* The calls are answered one after the other.
LEMMA AllCalled ==
    ASSUME NEW calls \in Seq(NerCall)
    PROVE  SessionSoFar(Session(calls), calls, Len(calls))
<1> DEFINE q == Len(calls)
           f == CHOOSE g : SessionFold(g, calls, 1..q)
           S == {k \in Nat : k <= q => SessionSoFar(f[1..k], calls, k)}
<1>0. q \in Nat /\ DOMAIN calls = 1..q
  BY LenProperties
<1>1. Session(calls) = (CHOOSE g : SessionFold(g, calls, DOMAIN calls))[DOMAIN calls]
  BY Zenon DEF Session, FoldLeft, MapThenFoldSet, SessionFold, Called, LastNer
<1>2. Session(calls) = f[1..q]
  BY <1>0, <1>1, Zenon
<1>3. SessionFold(f, calls, 1..q)
  <2>1. \E g : SessionFold(g, calls, 1..q)
    BY CallsExists
  <2>2. QED BY <2>1, Zenon
<1> HIDE DEF f
<1>4. \A s \in SUBSET (1..q) :
         f[s] = IF s = {} THEN <<>> ELSE Called(f[s \ {Max(s)}], calls[Max(s)])
  BY <1>3, Zenon DEF SessionFold
<1> HIDE DEF q
<1>5. 0 \in S
  <2>1. 1..0 = {} /\ {} \in SUBSET (1..q)
    OBVIOUS
  <2>2. f[1..0] = <<>>
    BY <1>4, <2>1
  <2>3. <<>> \in Seq(Outcome) /\ Len(<<>>) = 0
    OBVIOUS
  <2>4. SessionSoFar(<<>>, calls, 0)
    BY <2>1, <2>3 DEF SessionSoFar
  <2>5. QED BY <2>2, <2>4
<1>6. ASSUME NEW k \in Nat, k < q, k \in S PROVE k + 1 \in S
  <2>1. Max(1..(k + 1)) = k + 1 /\ 1..(k + 1) \ {k + 1} = 1..k /\ 1..(k + 1) # {}
    BY LastOfFirst
  <2>2. 1..(k + 1) \in SUBSET (1..q) /\ k + 1 \in 1..q /\ k + 1 \in DOMAIN calls
    BY <1>0, <1>6
  <2>3. f[1..(k + 1)] = Called(f[1..k], calls[k + 1])
    BY <1>4, <2>1, <2>2, Zenon
  <2>4. SessionSoFar(f[1..k], calls, k)
    BY <1>0, <1>6
  <2>5. SessionSoFar(f[1..(k + 1)], calls, k + 1)
    <3> DEFINE answers == f[1..k]
    <3>1. SessionSoFar(answers, calls, k)
      BY <2>4
    <3> HIDE DEF answers
    <3>2. SessionSoFar(Called(answers, calls[k + 1]), calls, k + 1)
      BY <2>2, <3>1, CalledNext
    <3>3. QED BY <2>3, <3>2 DEF answers
  <2>6. QED BY <2>5
<1>7. q \in S
  <2> HIDE DEF S
  <2>1. QED BY <1>0, <1>5, <1>6, InductiveUpTo
<1>8. q <= q
  BY <1>0
<1>9. QED BY <1>2, <1>7, <1>8 DEF q

\* TextsKeepTheirPlaces of the `k`-th call.
InPlace(answers, calls, k) ==
    /\ IsInjective(answers[k].ner.by_model)
    /\ answers[k].refused => calls[k].installed \cap {RuModel, EnModel} = {}
    /\ ~answers[k].refused =>
          \A i \in DOMAIN calls[k].texts :
             LET written == _select_language(calls[k].texts[i])
                 model == answers[k].results[i].model
             IN  /\ answers[k].results[i].text = i
                 /\ model \in UNION {calls[j].installed : j \in 1..k}
                 /\ model = Own(written) \/ \E j \in 1..k : Own(written) \notin calls[j].installed
                 /\ \A j \in {h \in 1..k : ~answers[h].refused} :
                       \A h \in DOMAIN calls[j].texts :
                          _select_language(calls[j].texts[h]) = written =>
                             answers[j].results[h].model = model

LEMMA AllInPlace ==
    ASSUME NEW calls, NEW q \in Nat, NEW answers, SessionSoFar(answers, calls, q), NEW k \in 1..q
    PROVE  InPlace(answers, calls, k)
<1>1. \A m \in 1..k : m \in 1..q /\ CallGives(answers, calls, m)
  BY DEF SessionSoFar
<1>2. k \in 1..k
  OBVIOUS
<1>3. /\ Sound(answers[k].ner, SeenBy(calls, k), MissedBy(calls, k))
      /\ \A j \in 1..k : Keeps(answers[j].ner, answers[k].ner)
      /\ answers[k].refused => calls[k].installed \cap Models = {}
  BY <1>1, <1>2 DEF CallGives
<1>4. IsInjective(answers[k].ner.by_model)
  BY <1>3 DEF Sound
<1>5. ASSUME ~answers[k].refused, NEW i \in DOMAIN calls[k].texts
      PROVE  LET written == _select_language(calls[k].texts[i])
                 model == answers[k].results[i].model
             IN  /\ answers[k].results[i].text = i
                 /\ model \in UNION {calls[j].installed : j \in 1..k}
                 /\ model = Own(written) \/ \E j \in 1..k : Own(written) \notin calls[j].installed
                 /\ \A j \in {h \in 1..k : ~answers[h].refused} :
                       \A h \in DOMAIN calls[j].texts :
                          _select_language(calls[j].texts[h]) = written =>
                             answers[j].results[h].model = model
  <2> DEFINE written == _select_language(calls[k].texts[i])
             model == answers[k].results[i].model
             ner == answers[k].ner
  <2>1. /\ answers[k].results[i].text = i /\ model \in Models
        /\ model = ner.pipelines[written]
    BY <1>1, <1>2, <1>5 DEF CallGives
  <2>2. written \in Language
    BY DEF _select_language, Language
  <2>3. \A m \in Models : m # "none"
    BY SpacyNerAssumption DEF Models
  <2> HIDE DEF written, model
  <2>4. /\ model \in Range(ner.by_model) /\ Range(ner.by_model) \subseteq SeenBy(calls, k)
        /\ model = Own(written) \/ Own(written) \in MissedBy(calls, k)
    <3> HIDE DEF ner
    <3>1. Sound(ner, SeenBy(calls, k), MissedBy(calls, k))
      BY <1>3 DEF ner
    <3>2. QED BY <2>1, <2>2, <2>3, <3>1 DEF Sound
  <2>5. model \in UNION {calls[j].installed : j \in 1..k}
    BY <2>4 DEF SeenBy
  <2>6. model = Own(written) \/ \E j \in 1..k : Own(written) \notin calls[j].installed
    BY <2>4 DEF MissedBy
  <2>7. ASSUME NEW j \in 1..k, ~answers[j].refused, NEW h \in DOMAIN calls[j].texts,
               _select_language(calls[j].texts[h]) = written
        PROVE  answers[j].results[h].model = model
    <3>1. /\ answers[j].results[h].model \in Models
          /\ answers[j].results[h].model = answers[j].ner.pipelines[written]
      BY <1>1, <2>7 DEF CallGives
    <3>2. ner.pipelines[written] = answers[j].ner.pipelines[written]
      BY <1>3, <2>2, <2>3, <3>1 DEF Keeps
    <3>3. QED BY <2>1, <3>1, <3>2
  <2> HIDE DEF ner
  <2>8. \A j \in {h \in 1..k : ~answers[h].refused} :
           \A h \in DOMAIN calls[j].texts :
              _select_language(calls[j].texts[h]) = written => answers[j].results[h].model = model
    BY <2>7
  <2>9. QED BY <2>1, <2>5, <2>6, <2>8, Zenon DEF written, model
<1>6. QED BY <1>3, <1>4, <1>5, Zenon DEF InPlace, Models

\* However many calls F5's adapter answers, whatever they mix and whichever models are
\* installed meanwhile, each text gets its own candidates, of a model that could be loaded,
\* the same for each language throughout, and no model is loaded twice (extract_many and
\* _load_model in spacy_ner.py).
THEOREM TextsStayInPlace == Spec => []TextsKeepTheirPlaces
<1>1. OneRequest => TextsKeepTheirPlaces
  <2> SUFFICES ASSUME OneRequest, Answered("NER"), NEW k \in DOMAIN answer
               PROVE  InPlace(answer, request.calls, k)
    BY Zenon DEF TextsKeepTheirPlaces, InPlace, Own
  <2> DEFINE calls == request.calls
             q == Len(calls)
  <2>1. calls \in Seq(NerCall) /\ answer = Session(calls)
    BY AgentsAssumption DEF OneRequest, Answered
  <2> HIDE DEF calls
  <2>2. q \in Nat /\ SessionSoFar(answer, calls, q)
    BY <2>1, AllCalled, LenProperties
  <2> HIDE DEF q
  <2>3. answer \in Seq(Outcome) /\ Len(answer) = q
    BY <2>2, Zenon DEF SessionSoFar
  <2>4. k \in 1..q
    BY <2>3, LenProperties
  <2>5. InPlace(answer, calls, k)
    BY <2>2, <2>4, AllInPlace
  <2>6. QED BY <2>5 DEF calls
<1>2. QED BY <1>1, OneRequestCorrect, PTL
=============================================================================
