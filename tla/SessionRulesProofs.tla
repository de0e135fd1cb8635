-------------------------- MODULE SessionRulesProofs --------------------------
(***************************************************************************)
(* Proofs about RateLimit and SessionRules. The invariant of the limiter    *)
(* counts, among the calls let through, those of the window in progress and *)
(* those of the time of k windows before it, for every k; any stretch of    *)
(* time is covered by the two together. A rule's evaluation only uses the limiter, so what holds   *)
(* of the limiter holds there; the trajectory is a suffix of the actions    *)
(* recorded, and the limiter's count one of evaluations that got to it.     *)
(***************************************************************************)
EXTENDS SessionRules, FiniteSetTheorems, TLAPS

\* The positions in s of the times from lo to hi.
Between(s, lo, hi) == {i \in 1..Len(s) : lo <= s[i] /\ s[i] <= hi}
Size(s, lo, hi) == Cardinality(Between(s, lo, hi))

\* The state of the key, and the calls its window can still hold.
StateOK ==
    /\ now \in Nat
    /\ state \in RateLimitState
    /\ allowed \in Seq(Nat)
    /\ \A i \in 1..Len(allowed) : allowed[i] <= now
    /\ ~state.known => allowed = <<>>
    /\ state.window_start <= now
    /\ state.known =>
         \A i \in 1..Len(allowed) : allowed[i] <= state.window_start + Window

\* The window in progress, and what comes after the call that started it.
CurrentOK ==
    state.known =>
      /\ Size(allowed, state.window_start, state.window_start + Window) <= state.count
      /\ Size(allowed, state.window_start, state.window_start + Window) <= MaxLimit
      /\ Size(allowed, state.window_start + 1, state.window_start + Window) < state.count
      /\ Size(allowed, state.window_start + 1, state.window_start + Window) < MaxLimit

\* What k windows let through at the limit.
Room(k) == k * MaxLimit

\* A stretch of the length of k windows that reaches into the window in progress, up
\* to where that starts.
PreviousOK ==
    state.known =>
      \A t \in Nat, k \in Nat :
        t < state.window_start /\ state.window_start < t + Span(k) =>
          Size(allowed, t, state.window_start - 1) < Room(k)

LongRunOK ==
    \A t \in Nat, k \in Nat \ {0} :
      Size(allowed, t, t + Span(k) - 1) < Room(k) + MaxLimit

IInv == StateOK /\ CurrentOK /\ PreviousOK /\ LongRunOK

-----------------------------------------------------------------------------
\* MaxLimit is the largest of the limits and 1.
LEMMA MaxLimitFact ==
    MaxLimit \in Nat /\ MaxLimit >= 1 /\ \A m \in Limit : m <= MaxLimit
  <1>1. PICK n \in Limit : \A m \in Limit : m <= n
    BY LimitAssumption
  <1> DEFINE L == Limit \cup {1}
             P(k) == \A m \in L : m <= k
  <1>2. L \subseteq Nat /\ n \in Nat
    BY <1>1, RateAssumption
  <1>3. \E k \in L : P(k)
    <2>1. CASE n >= 1
      BY <1>1, <1>2, <2>1
    <2>2. CASE n < 1
      BY <1>1, <1>2, <2>2
    <2> QED BY <1>2, <2>1, <2>2
  <1>4. MaxLimit = CHOOSE k \in L : P(k)
    BY DEF MaxLimit
  <1>5. MaxLimit \in L /\ P(MaxLimit)
    BY <1>3, <1>4
  <1> QED BY <1>2, <1>5

LEMMA BetweenFinite ==
    ASSUME NEW s \in Seq(Nat), NEW lo \in Int, NEW hi \in Int
    PROVE  IsFiniteSet(Between(s, lo, hi)) /\ Size(s, lo, hi) \in Nat
  <1>1. IsFiniteSet(1..Len(s))
    BY FS_Interval
  <1>2. Between(s, lo, hi) \in SUBSET (1..Len(s))
    BY DEF Between
  <1> QED BY <1>1, <1>2, FS_Subset, FS_CardinalityType DEF Size

\* A smaller interval holds no more.
LEMMA BetweenMonotone ==
    ASSUME NEW s \in Seq(Nat), NEW lo \in Int, NEW hi \in Int,
           NEW low \in Int, NEW high \in Int,
           \A i \in 1..Len(s) : lo <= s[i] /\ s[i] <= hi => low <= s[i] /\ s[i] <= high
    PROVE  Size(s, lo, hi) <= Size(s, low, high)
  <1>1. Between(s, lo, hi) \in SUBSET Between(s, low, high)
    BY DEF Between
  <1> QED BY <1>1, BetweenFinite, FS_Subset DEF Size

\* Nothing is above the greatest.
LEMMA BetweenTop ==
    ASSUME NEW s \in Seq(Nat), NEW lo \in Int, NEW hi \in Int, NEW high \in Int,
           \A i \in 1..Len(s) : s[i] <= high
    PROVE  Size(s, lo, hi) <= Size(s, lo, high)
  <1>1. \A i \in 1..Len(s) :
          lo <= s[i] /\ s[i] <= hi => lo <= s[i] /\ s[i] <= high
    OBVIOUS
  <1> QED BY <1>1, BetweenMonotone

LEMMA BetweenEmpty ==
    ASSUME NEW s \in Seq(Nat), NEW lo \in Int, NEW hi \in Int,
           \A i \in 1..Len(s) : s[i] < lo \/ s[i] > hi
    PROVE  Size(s, lo, hi) = 0
  <1>1. \A i \in 1..Len(s) : s[i] \in Nat
    OBVIOUS
  <1>2. Between(s, lo, hi) = {}
    BY <1>1 DEF Between
  <1> QED BY <1>2, FS_EmptySet DEF Size

\* One more time counts where it lies in the interval, and only there.
LEMMA BetweenAppend ==
    ASSUME NEW s \in Seq(Nat), NEW x \in Nat, NEW lo \in Int, NEW hi \in Int
    PROVE  Size(Append(s, x), lo, hi)
             = IF lo <= x /\ x <= hi THEN Size(s, lo, hi) + 1 ELSE Size(s, lo, hi)
  <1>1. /\ Len(s) \in Nat /\ Len(Append(s, x)) = Len(s) + 1
        /\ \A i \in 1..Len(s) : Append(s, x)[i] = s[i]
        /\ Append(s, x)[Len(s) + 1] = x
    OBVIOUS
  <1>2. CASE lo <= x /\ x <= hi
    <2>1. Between(Append(s, x), lo, hi) = Between(s, lo, hi) \cup {Len(s) + 1}
      BY <1>1, <1>2 DEF Between
    <2>2. Len(s) + 1 \notin Between(s, lo, hi)
      BY <1>1 DEF Between
    <2> QED BY <1>2, <2>1, <2>2, BetweenFinite, FS_AddElement DEF Size
  <1>3. CASE ~(lo <= x /\ x <= hi)
    <2>1. Between(Append(s, x), lo, hi) = Between(s, lo, hi)
      BY <1>1, <1>3 DEF Between
    <2> QED BY <1>3, <2>1 DEF Size
  <1> QED BY <1>2, <1>3

\* An interval holds no more than its two parts.
LEMMA BetweenSplit ==
    ASSUME NEW s \in Seq(Nat), NEW lo \in Int, NEW hi \in Int, NEW m \in Int
    PROVE  Size(s, lo, hi) <= Size(s, lo, m - 1) + Size(s, m, hi)
  <1> DEFINE A == Between(s, lo, m - 1)
             B == Between(s, m, hi)
  <1>1. IsFiniteSet(A) /\ IsFiniteSet(B)
    BY BetweenFinite
  <1>2. Between(s, lo, hi) \in SUBSET (A \cup B)
    <2>1. \A i \in 1..Len(s) : s[i] \in Int
      OBVIOUS
    <2> QED BY <2>1 DEF Between
  <1>3. /\ IsFiniteSet(A \cup B) /\ IsFiniteSet(A \cap B)
        /\ Cardinality(A \cup B) = Cardinality(A) + Cardinality(B) - Cardinality(A \cap B)
    BY <1>1, FS_Union, FS_Intersection
  <1>4. Cardinality(A \cap B) \in Nat /\ Cardinality(A) \in Nat /\ Cardinality(B) \in Nat
    BY <1>1, <1>3, FS_CardinalityType
  <1>5. Cardinality(Between(s, lo, hi)) <= Cardinality(A \cup B)
    BY <1>2, <1>3, FS_Subset
  <1>6. Cardinality(Between(s, lo, hi)) \in Nat /\ Cardinality(A \cup B) \in Nat
    BY <1>3, BetweenFinite, FS_CardinalityType DEF Size
  <1> HIDE DEF A, B
  <1>7. Cardinality(Between(s, lo, hi)) <= Cardinality(A) + Cardinality(B)
    BY <1>3, <1>4, <1>5, <1>6
  <1> QED BY <1>7 DEF A, B, Size

LEMMA SumBelow ==
    ASSUME NEW x \in Nat, NEW y \in Nat, NEW z \in Nat, NEW m \in Nat, NEW n \in Nat,
           x <= y + z, y < m, z <= n
    PROVE  x < m + n
  OBVIOUS

\* One more window is one more limit.
LEMMA WindowsFact ==
    ASSUME NEW k \in Nat
    PROVE  /\ Span(k) \in Nat /\ Room(k) \in Nat
           /\ Span(0) = 0 /\ Span(1) = Window + 1
           /\ Span(k + 1) = Span(k) + Window + 1
           /\ Room(k + 1) = Room(k) + MaxLimit
           /\ k # 0 => Room(k) >= MaxLimit
  <1>1. Window \in Nat /\ MaxLimit \in Nat
    BY RateAssumption, MaxLimitFact
  <1>2. Span(k) \in Nat /\ Span(0) = 0 /\ Span(1) = Window + 1
    BY <1>1 DEF Span
  <1>3. Span(k + 1) = Span(k) + Window + 1
    BY <1>1 DEF Span
  <1>4. Room(k) \in Nat /\ Room(k + 1) = Room(k) + MaxLimit
    BY <1>1 DEF Room
  <1>5. ASSUME k # 0 PROVE Room(k) >= MaxLimit
    <2>1. PICK j \in Nat : k = j + 1
      <3>1. k - 1 \in Nat /\ k = (k - 1) + 1
        BY <1>5
      <3> QED BY <3>1
    <2>2. j * MaxLimit \in Nat /\ (j + 1) * MaxLimit = j * MaxLimit + MaxLimit
      BY <1>1
    <2> QED BY <1>1, <2>1, <2>2 DEF Room
  <1> QED BY <1>2, <1>3, <1>4, <1>5

-----------------------------------------------------------------------------
LEMMA InitOK == Init => IInv
  <1> SUFFICES ASSUME Init PROVE IInv
    OBVIOUS
  <1>1. now = 0 /\ ~state.known /\ allowed = <<>> /\ state \in RateLimitState
        /\ state.window_start = 0
    BY DEF Init, RateLimitState
  <1>2. StateOK
    BY <1>1 DEF StateOK
  <1>3. LongRunOK
    <2> SUFFICES ASSUME NEW t \in Nat, NEW k \in Nat \ {0}
                 PROVE  Size(allowed, t, t + Span(k) - 1) < Room(k) + MaxLimit
      BY DEF LongRunOK
    <2>1. t \in Int /\ t + Span(k) - 1 \in Int
      BY WindowsFact
    <2>2. allowed \in Seq(Nat) /\ \A i \in 1..Len(allowed) : FALSE
      BY <1>1
    <2>3. Size(allowed, t, t + Span(k) - 1) = 0
      BY <2>1, <2>2, BetweenEmpty
    <2> QED BY <2>3, MaxLimitFact, WindowsFact
  <1> QED BY <1>1, <1>2, <1>3 DEF IInv, CurrentOK, PreviousOK

LEMMA StateFields ==
    ASSUME StateOK
    PROVE  /\ now \in Nat /\ allowed \in Seq(Nat) /\ Len(allowed) \in Nat
           /\ state.window_start \in Nat /\ state.count \in Nat
           /\ state.known \in BOOLEAN /\ Window \in Nat
  BY RateAssumption DEF StateOK, RateLimitState

\* A stretch that reaches into the window in progress holds what the window holds
\* and what lies before it; one that ends before it holds what it always held.
LEMMA LongRunStep ==
    ASSUME StateOK, LongRunOK, StateOK', CurrentOK', PreviousOK', state'.known,
           allowed' = allowed \/ allowed' = Append(allowed, now),
           state'.window_start <= now
    PROVE  LongRunOK'
  <1> SUFFICES ASSUME NEW t \in Nat, NEW k \in Nat \ {0}
               PROVE  Size(allowed', t, t + Span(k) - 1) < Room(k) + MaxLimit
    BY DEF LongRunOK, Span, Room
  <1> DEFINE ws == state'.window_start
             hi == ws + Window
  <1>1. /\ ws \in Nat /\ Window \in Nat /\ hi \in Nat /\ allowed' \in Seq(Nat)
        /\ \A i \in 1..Len(allowed') : allowed'[i] \in Nat /\ allowed'[i] <= hi
        /\ now \in Nat /\ ws <= now
    BY RateAssumption DEF StateOK, RateLimitState
  <1>2. /\ Size(allowed', ws, hi) <= MaxLimit
        /\ t < ws /\ ws < t + Span(k) => Size(allowed', t, ws - 1) < Room(k)
    BY DEF CurrentOK, PreviousOK, Span, Room
  <1>3. PICK e \in Int : e = t + Span(k) - 1
    <2>1. Span(k) \in Nat
      BY WindowsFact
    <2>2. t + Span(k) - 1 \in Int
      BY <2>1
    <2> QED BY <2>2
  <1> HIDE DEF ws, hi
  <1>4. /\ MaxLimit \in Nat /\ Room(k) \in Nat /\ Span(k) \in Nat
        /\ Size(allowed', t, e) \in Nat /\ Size(allowed', ws, e) \in Nat
        /\ Size(allowed', ws, hi) \in Nat /\ Size(allowed', t, ws - 1) \in Nat
    <2>1. MaxLimit \in Nat /\ Room(k) \in Nat /\ Span(k) \in Nat
      BY WindowsFact, MaxLimitFact
    <2>2. t \in Int /\ e \in Int /\ ws \in Int /\ hi \in Int /\ ws - 1 \in Int
      BY <1>1, <1>3
    <2> QED BY <1>1, <2>1, <2>2, BetweenFinite
  <1>5. CASE e < ws
    <2>1. Size(allowed', t, e) = Size(allowed, t, e)
      <3>1. CASE allowed' = allowed
        BY <3>1
      <3>2. CASE allowed' = Append(allowed, now)
        <4>1. allowed \in Seq(Nat)
          BY DEF StateOK
        <4>2. ~(now <= e)
          BY <1>1, <1>5
        <4> QED BY <1>1, <3>2, <4>1, <4>2, BetweenAppend
      <3> QED BY <3>1, <3>2
    <2> QED BY <1>3, <2>1 DEF LongRunOK
  <1>6. CASE ws <= e /\ t < ws
    <2>1. Size(allowed', t, e) <= Size(allowed', t, ws - 1) + Size(allowed', ws, e)
      BY <1>1, BetweenSplit
    <2>2. Size(allowed', ws, e) <= Size(allowed', ws, hi)
      BY <1>1, BetweenMonotone
    <2>3. Size(allowed', t, ws - 1) < Room(k)
      BY <1>1, <1>2, <1>3, <1>4, <1>6
    <2> QED BY <1>2, <1>3, <1>4, <2>1, <2>2, <2>3
  <1>7. CASE ws <= t
    <2>1. Size(allowed', t, e) <= Size(allowed', ws, hi)
      BY <1>1, <1>7, BetweenMonotone
    <2>2. Room(k) >= MaxLimit /\ MaxLimit >= 1
      BY MaxLimitFact, WindowsFact
    <2> QED BY <1>2, <1>3, <1>4, <2>1, <2>2
  <1> QED BY <1>1, <1>5, <1>6, <1>7

\* When a window starts at x, the one before it, from ws on, is over: a stretch of k
\* windows that reaches x holds of it what one window lets through, and of what came
\* before it what one window less does.
LEMMA BeforeRestart ==
    ASSUME NEW s \in Seq(Nat), NEW ws \in Nat, NEW x \in Nat, NEW t \in Nat, NEW k \in Nat,
           x > ws + Window, t < x, x < t + Span(k),
           \A i \in 1..Len(s) : s[i] <= ws + Window,
           Size(s, ws, ws + Window) <= MaxLimit,
           Size(s, ws + 1, ws + Window) < MaxLimit,
           \A j \in Nat : t < ws /\ ws < t + Span(j) => Size(s, t, ws - 1) < Room(j)
    PROVE  Size(s, t, x - 1) < Room(k)
  <1>1. PICK hi \in Nat : hi = ws + Window
    BY RateAssumption
  <1>2. PICK j \in Nat : k = j + 1
    <2>1. Span(k) # 0
      OBVIOUS
    <2>2. k # 0
      BY <2>1, WindowsFact
    <2>3. k - 1 \in Nat /\ k = (k - 1) + 1
      BY <2>2
    <2> QED BY <2>3
  <1>3. /\ Span(k) = Span(j) + Window + 1 /\ Span(j) \in Nat
        /\ Room(k) = Room(j) + MaxLimit /\ Room(j) \in Nat
    BY <1>2, WindowsFact
  <1>4. Window \in Nat /\ MaxLimit \in Nat
    BY RateAssumption, MaxLimitFact
  <1>5. x - 1 \in Int /\ ws - 1 \in Int /\ ws + 1 \in Int /\ hi \in Int
    BY <1>1
  <1>6. Size(s, t, x - 1) \in Nat /\ Size(s, ws, hi) \in Nat /\ Size(s, ws + 1, hi) \in Nat
    BY <1>5, BetweenFinite
  <1>7. CASE ws < t
    <2>1. \A i \in 1..Len(s) :
            t <= s[i] /\ s[i] <= x - 1 => ws + 1 <= s[i] /\ s[i] <= hi
      BY <1>1, <1>7
    <2>2. Size(s, t, x - 1) <= Size(s, ws + 1, hi)
      BY <1>5, <2>1, BetweenMonotone
    <2>3. Size(s, ws + 1, hi) < MaxLimit
      BY <1>1
    <2> QED BY <1>3, <1>4, <1>6, <2>2, <2>3
  <1>8. CASE ws = t
    <2>1. \A i \in 1..Len(s) :
            t <= s[i] /\ s[i] <= x - 1 => ws <= s[i] /\ s[i] <= hi
      BY <1>1, <1>8
    <2>2. Size(s, t, x - 1) <= Size(s, ws, hi)
      BY <1>5, <2>1, BetweenMonotone
    <2>3. Size(s, ws, hi) <= MaxLimit
      BY <1>1
    <2>4. Span(j) # 0
      BY <1>3, <1>4, <1>8
    <2>5. Room(j) >= MaxLimit /\ MaxLimit >= 1
      BY <2>4, WindowsFact, MaxLimitFact
    <2> QED BY <1>3, <1>4, <1>6, <2>2, <2>3, <2>5
  <1>9. CASE t < ws
    <2>1. ws < t + Span(j)
      BY <1>3, <1>4
    <2>2. Size(s, t, ws - 1) < Room(j)
      BY <1>9, <2>1
    <2>3. Size(s, t, ws - 1) \in Nat /\ Size(s, ws, x - 1) \in Nat
      BY <1>5, BetweenFinite
    <2>4. \A i \in 1..Len(s) : s[i] <= hi
      BY <1>1
    <2>5. Size(s, ws, x - 1) <= Size(s, ws, hi)
      BY <1>5, <2>4, BetweenTop
    <2>6. Size(s, ws, x - 1) <= MaxLimit
      <3>1. Size(s, ws, hi) <= MaxLimit
        BY <1>1
      <3> QED BY <1>4, <1>6, <2>3, <2>5, <3>1
    <2>7. Size(s, t, x - 1) <= Size(s, t, ws - 1) + Size(s, ws, x - 1)
      BY <1>5, BetweenSplit
    <2>8. Size(s, t, x - 1) < Room(j) + MaxLimit
      <3>1. Size(s, t, x - 1) \in Nat /\ Room(j) \in Nat
        BY <1>3, <1>6
      <3> QED BY <1>4, <2>2, <2>3, <2>6, <2>7, <3>1, SumBelow
    <2> QED BY <1>3, <2>8
  <1> QED BY <1>7, <1>8, <1>9

\* A call starts a window: everything before it lies before the window.
LEMMA RestartedStep ==
    ASSUME IInv, Restarted, UNCHANGED now
    PROVE  IInv'
  <1>1. /\ state' = [known |-> TRUE, window_start |-> now, count |-> 1]
        /\ allowed' = Append(allowed, now) /\ now' = now
    BY DEF Restarted
  <1>2. StateOK /\ LongRunOK /\ CurrentOK /\ PreviousOK
    BY DEF IInv
  <1>3. state'.known /\ state'.window_start = now /\ state'.count = 1
    BY <1>1
  <1>4. /\ now \in Nat /\ allowed \in Seq(Nat) /\ Window \in Nat
        /\ \A i \in 1..Len(allowed) : allowed[i] \in Nat
        /\ state.window_start \in Nat /\ MaxLimit \in Nat /\ MaxLimit >= 1
    BY <1>2, StateFields, MaxLimitFact
  <1>5. /\ Len(allowed') = Len(allowed) + 1 /\ allowed'[Len(allowed) + 1] = now
        /\ \A i \in 1..Len(allowed) : allowed'[i] = allowed[i]
        /\ allowed' \in Seq(Nat) /\ Len(allowed) \in Nat
    BY <1>1, <1>4
  <1>6. \/ allowed = <<>>
        \/ state.known /\ now > state.window_start + Window
    BY <1>2, <1>4 DEF Restarted, Fresh, StateOK
  <1>7. \A i \in 1..Len(allowed) : allowed[i] < now
    BY <1>2, <1>4, <1>6 DEF StateOK
  <1>8. StateOK'
    <2>1. state' \in RateLimitState
      BY <1>1, <1>4 DEF RateLimitState
    <2>2. \A i \in 1..Len(allowed') : allowed'[i] <= now
      BY <1>4, <1>5, <1>7
    <2> QED BY <1>1, <1>3, <1>4, <1>5, <2>1, <2>2 DEF StateOK
  <1>9. CurrentOK'
    <2>1. Size(allowed, now, now + Window) = 0
      BY <1>4, <1>7, BetweenEmpty
    <2>2. Size(allowed', now, now + Window) = 1
      BY <1>1, <1>4, <2>1, BetweenAppend
    <2>3. Size(allowed, now + 1, now + Window) = 0
      <3>1. \A i \in 1..Len(allowed) : allowed[i] < now + 1
        BY <1>4, <1>7
      <3> QED BY <1>4, <3>1, BetweenEmpty
    <2>4. Size(allowed', now + 1, now + Window) = 0
      BY <1>1, <1>4, <2>3, BetweenAppend
    <2> QED BY <1>3, <1>4, <2>2, <2>4 DEF CurrentOK
  <1>10. PreviousOK'
    <2> SUFFICES ASSUME NEW t \in Nat, NEW k \in Nat, t < now, now < t + Span(k)
                 PROVE  Size(allowed', t, now - 1) < Room(k)
      BY <1>3 DEF PreviousOK, Span, Room
    <2> k # 0
      BY <1>4, WindowsFact
    <2>1. Size(allowed', t, now - 1) = Size(allowed, t, now - 1)
      BY <1>1, <1>4, BetweenAppend
    <2>2. CASE allowed = <<>>
      <3>1. \A i \in 1..Len(allowed) : FALSE
        BY <2>2
      <3>2. Size(allowed, t, now - 1) = 0
        BY <1>4, <3>1, BetweenEmpty
      <3>3. Room(k) >= MaxLimit /\ Room(k) \in Nat
        BY WindowsFact
      <3> QED BY <1>4, <2>1, <3>2, <3>3
    <2>3. CASE state.known /\ now > state.window_start + Window
      <3>1. PICK ws \in Nat : ws = state.window_start
        BY <1>4
      <3>2. /\ \A i \in 1..Len(allowed) : allowed[i] <= ws + Window
            /\ Size(allowed, ws, ws + Window) <= MaxLimit
            /\ Size(allowed, ws + 1, ws + Window) < MaxLimit
        BY <1>2, <2>3, <3>1 DEF StateOK, CurrentOK
      <3>3. \A j \in Nat : t < ws /\ ws < t + Span(j) => Size(allowed, t, ws - 1) < Room(j)
        BY <1>2, <2>3, <3>1 DEF PreviousOK
      <3>4. now > ws + Window
        BY <2>3, <3>1
      <3>5. Size(allowed, t, now - 1) < Room(k)
        BY <1>4, <3>2, <3>3, <3>4, BeforeRestart
      <3> QED BY <2>1, <3>5
    <2> QED BY <1>6, <2>2, <2>3
  <1>11. LongRunOK'
    BY <1>1, <1>2, <1>3, <1>4, <1>8, <1>9, <1>10, LongRunStep
  <1> QED BY <1>8, <1>9, <1>10, <1>11 DEF IInv

\* A call is counted in the window in progress.
LEMMA CountedStep ==
    ASSUME IInv, NEW limit \in Limit, Counted(limit), UNCHANGED now
    PROVE  IInv'
  <1>1. /\ state.known /\ now' = now
        /\ \/ state.count + 1 <= limit /\ allowed' = Append(allowed, now)
           \/ allowed' = allowed
    BY DEF Counted, Fresh
  <1>2. StateOK /\ LongRunOK /\ CurrentOK /\ PreviousOK
    BY DEF IInv
  <1>3. PICK ws \in Nat : ws = state.window_start
    BY <1>2, StateFields
  <1>4. /\ now \in Nat /\ allowed \in Seq(Nat) /\ Window \in Nat
        /\ state.count \in Nat /\ MaxLimit \in Nat /\ limit \in Nat /\ limit <= MaxLimit
        /\ ws <= now
    BY <1>2, <1>3, StateFields, MaxLimitFact, RateAssumption DEF StateOK
  <1>5. PICK hi \in Nat : hi = ws + Window /\ now <= hi
    <2>1. now - ws <= Window
      BY <1>3, <1>4 DEF Counted, Fresh
    <2> QED BY <1>4, <2>1
  <1>6. /\ state' \in RateLimitState /\ state'.known /\ state'.window_start = ws
        /\ state'.count = state.count + 1
    BY <1>1, <1>2, <1>3 DEF Counted, StateOK, RateLimitState
  <1>7. allowed' \in Seq(Nat)
    BY <1>1, <1>4
  <1>8. \A i \in 1..Len(allowed') : allowed'[i] <= now /\ allowed'[i] <= hi
    <2>1. \A i \in 1..Len(allowed) : allowed[i] <= now /\ allowed[i] <= hi
      BY <1>1, <1>2, <1>3, <1>5 DEF StateOK
    <2>2. CASE allowed' = Append(allowed, now)
      <3>1. /\ Len(allowed') = Len(allowed) + 1 /\ allowed'[Len(allowed) + 1] = now
            /\ \A i \in 1..Len(allowed) : allowed'[i] = allowed[i]
            /\ Len(allowed) \in Nat
        BY <1>4, <2>2
      <3> QED BY <1>4, <1>5, <2>1, <3>1
    <2> QED BY <1>1, <2>1, <2>2
  <1>9. StateOK'
    BY <1>1, <1>4, <1>5, <1>7, <1>8, <1>6 DEF StateOK
  <1>10. /\ Size(allowed, ws, hi) <= state.count /\ Size(allowed, ws, hi) <= MaxLimit
        /\ Size(allowed, ws, hi) \in Nat
        /\ Size(allowed, ws + 1, hi) < state.count /\ Size(allowed, ws + 1, hi) < MaxLimit
        /\ Size(allowed, ws + 1, hi) \in Nat
    BY <1>1, <1>2, <1>3, <1>4, <1>5, BetweenFinite DEF CurrentOK
  <1>11. CurrentOK'
    <2>1. CASE state.count + 1 <= limit /\ allowed' = Append(allowed, now)
      <3>1. Size(allowed', ws, hi) = Size(allowed, ws, hi) + 1
        BY <1>4, <1>5, <2>1, BetweenAppend
      <3>2. /\ Size(allowed', ws, hi) <= state.count + 1
            /\ Size(allowed', ws, hi) <= MaxLimit
        BY <1>4, <1>10, <2>1, <3>1
      <3>3. \/ Size(allowed', ws + 1, hi) = Size(allowed, ws + 1, hi) + 1
            \/ Size(allowed', ws + 1, hi) = Size(allowed, ws + 1, hi)
        BY <1>4, <1>5, <2>1, BetweenAppend
      <3>4. /\ Size(allowed', ws + 1, hi) < state.count + 1
            /\ Size(allowed', ws + 1, hi) < MaxLimit
        BY <1>4, <1>10, <2>1, <3>3
      <3> QED BY <1>5, <1>6, <3>2, <3>4 DEF CurrentOK
    <2>2. CASE allowed' = allowed
      <3>1. /\ Size(allowed', ws, hi) <= state.count + 1
            /\ Size(allowed', ws, hi) <= MaxLimit
            /\ Size(allowed', ws + 1, hi) < state.count + 1
            /\ Size(allowed', ws + 1, hi) < MaxLimit
        BY <1>4, <1>10, <2>2
      <3> QED BY <1>5, <1>6, <3>1 DEF CurrentOK
    <2> QED BY <1>1, <2>1, <2>2
  <1>12. PreviousOK'
    <2> SUFFICES ASSUME NEW t \in Nat, NEW k \in Nat, t < ws, ws < t + Span(k)
                 PROVE  Size(allowed', t, ws - 1) < Room(k)
      BY <1>6 DEF PreviousOK, Span, Room
    <2>1. Size(allowed, t, ws - 1) < Room(k)
      BY <1>1, <1>2, <1>3 DEF PreviousOK
    <2>2. Size(allowed', t, ws - 1) = Size(allowed, t, ws - 1)
      <3>1. CASE allowed' = Append(allowed, now)
        BY <1>4, <3>1, BetweenAppend
      <3> QED BY <1>1, <3>1
    <2> QED BY <2>1, <2>2
  <1>13. LongRunOK'
    BY <1>1, <1>2, <1>4, <1>9, <1>11, <1>12, <1>6, LongRunStep
  <1> QED BY <1>9, <1>11, <1>12, <1>13 DEF IInv

LEMMA TickStep ==
    ASSUME IInv, Tick
    PROVE  IInv'
  <1>1. now' = now + 1 /\ UNCHANGED <<state, allowed>>
    BY DEF Tick
  <1>2. StateOK'
    BY <1>1 DEF IInv, StateOK, RateLimitState
  <1>3. CurrentOK' /\ PreviousOK' /\ LongRunOK'
    BY <1>1 DEF IInv, CurrentOK, PreviousOK, LongRunOK
  <1> QED BY <1>2, <1>3 DEF IInv

LEMMA NextStep == IInv /\ [Next]_vars => IInv'
  <1> SUFFICES ASSUME IInv, [Next]_vars PROVE IInv'
    OBVIOUS
  <1>1. CASE UNCHANGED vars
    BY <1>1 DEF vars, IInv, StateOK, CurrentOK, PreviousOK, LongRunOK
  <1>2. CASE Tick
    BY <1>2, TickStep
  <1>3. CASE CheckRateLimit
    <2>1. UNCHANGED now /\ (Restarted \/ \E limit \in Limit : Counted(limit))
      BY <1>3 DEF CheckRateLimit
    <2> QED BY <2>1, RestartedStep, CountedStep
  <1> QED BY <1>1, <1>2, <1>3 DEF Next

LEMMA InvariantHolds == Spec => []IInv
  BY InitOK, NextStep, PTL DEF Spec

-----------------------------------------------------------------------------
\* The window never starts in the future and no call is let through at a time
\* that has not come.
THEOREM TypeCorrect == Spec => []TypeOK
  <1>1. IInv => TypeOK
    <2> SUFFICES ASSUME IInv PROVE TypeOK
      OBVIOUS
    <2>1. StateOK /\ now \in Nat /\ allowed \in Seq(Nat)
      BY DEF IInv, StateOK
    <2>2. \A i \in 1..Len(allowed) : allowed[i] \in 0..now
      BY <2>1 DEF StateOK
    <2>3. allowed \in Seq(0..now)
      BY <2>1, <2>2
    <2> QED BY <2>1, <2>3 DEF StateOK, TypeOK
  <1> QED BY <1>1, InvariantHolds, PTL

\* check_rate_limit lets no more than the limit through from the start of a
\* window to its end, for every set of limits and every length of the window.
THEOREM WindowLimitCorrect == Spec => []WindowLimit
  <1>1. IInv => WindowLimit
    <2> SUFFICES ASSUME IInv, state.known
                 PROVE  Cardinality(Within(state.window_start, 1)) <= MaxLimit
      BY DEF WindowLimit
    <2>1. Size(allowed, state.window_start, state.window_start + Window) <= MaxLimit
      BY DEF IInv, CurrentOK
    <2>2. Within(state.window_start, 1)
            = Between(allowed, state.window_start, state.window_start + Window)
      <3>1. state.window_start \in Nat /\ Window \in Nat /\ allowed \in Seq(Nat)
        BY StateFields DEF IInv
      <3>2. Span(1) = Window + 1
        BY WindowsFact
      <3>3. \A i \in 1..Len(allowed) : allowed[i] \in Nat
        BY <3>1
      <3> QED BY <3>1, <3>2, <3>3 DEF Within, Between
    <2> QED BY <2>1, <2>2 DEF Size
  <1> QED BY <1>1, InvariantHolds, PTL

\* check_rate_limit lets less than k + 1 times the limit through in the time of k
\* windows, wherever it starts: less than twice the limit in any minute, and in the
\* long run the limit a window.
THEOREM LongRunRateCorrect == Spec => []LongRunRate
  <1>1. IInv => LongRunRate
    <2> SUFFICES ASSUME IInv, NEW t \in 0..MaxNow, NEW k \in 1..MaxNow
                 PROVE  Cardinality(Within(t, k)) < (k + 1) * MaxLimit
      BY DEF LongRunRate
    <2>1. t \in Nat /\ k \in Nat \ {0}
      BY BoundAssumption
    <2>2. Size(allowed, t, t + Span(k) - 1) < Room(k) + MaxLimit
      BY <2>1 DEF IInv, LongRunOK
    <2>3. Within(t, k) = Between(allowed, t, t + Span(k) - 1)
      <3>1. Span(k) \in Nat
        BY <2>1, WindowsFact
      <3>2. allowed \in Seq(Nat)
        BY StateFields DEF IInv
      <3>3. \A i \in 1..Len(allowed) : allowed[i] \in Nat
        BY <3>2
      <3> QED BY <2>1, <3>1, <3>3 DEF Within, Between
    <2>4. (k + 1) * MaxLimit = Room(k) + MaxLimit
      BY <2>1, WindowsFact DEF Room
    <2> QED BY <2>2, <2>3, <2>4 DEF Size
  <1> QED BY <1>1, InvariantHolds, PTL

-----------------------------------------------------------------------------
\* The limiter below the rules is the limiter.
LEMMA LimitedIsACall ==
    ASSUME NEW c \in Client, NEW limit \in Limit, Limited(c, limit)
    PROVE  CheckRateLimit
  BY DEF Limited, CheckRateLimit

LEMMA LimiterStep ==
    ASSUME RulesNext
    PROVE  Next \/ UNCHANGED vars
  <1>1. ASSUME NEW c \in Client, Handle(c)
        PROVE  Next \/ UNCHANGED vars
    <2>1. CASE \E limit \in Limit : Limited(c, limit)
      BY <2>1, LimitedIsACall DEF Next
    <2>2. CASE \E x \in Action : Request(c, x)
      BY <2>2 DEF Request
    <2>3. CASE Check(c) \/ Conditions(c) \/ Unconditional(c) \/ RecordAction(c) \/ Leave(c)
      BY <2>3 DEF Check, Conditions, Unconditional, RecordAction, Leave
    <2> QED BY <1>1, <2>1, <2>2, <2>3 DEF Handle
  <1>2. ASSUME NEW r \in Reporter, Acknowledge(r) \/ \E n \in Amount : RecordSpend(r, n)
        PROVE  UNCHANGED vars
    BY <1>2 DEF Acknowledge, RecordSpend
  <1>3. CASE Clock
    BY <1>3 DEF Clock, Next
  <1> QED BY <1>1, <1>2, <1>3 DEF RulesNext

\* Requests, dry runs, reports and the clock use the rate limiter as its own
\* specification says: whatever holds of the limiter alone holds below the rules.
THEOREM LimiterKept == RulesSpec => Spec
  <1>1. RulesInit => Init
    BY DEF RulesInit
  <1>2. [RulesNext]_rulesVars => [Next]_vars
    BY LimiterStep DEF rulesVars
  <1> QED BY <1>1, <1>2, PTL DEF RulesSpec, Spec

\* The limits hold of the requests and dry runs of a session, however they
\* interleave with reports and with each other.
THEOREM RulesWindowLimit == RulesSpec => []WindowLimit
  BY LimiterKept, WindowLimitCorrect, PTL

THEOREM RulesLongRunRate == RulesSpec => []LongRunRate
  BY LimiterKept, LongRunRateCorrect, PTL

THEOREM RulesLimiterType == RulesSpec => []TypeOK
  BY LimiterKept, TypeCorrect, PTL

-----------------------------------------------------------------------------
\* The evaluations that got to the limiter from t on.
Since(t) == {i \in 1..Len(met) : met[i] >= t}

HistoryOK ==
    /\ session \in Session /\ report \in [Reporter -> Report]
    /\ log \in Seq(Action) /\ reported \in Int /\ acked \in Int
    /\ met \in Seq(Nat) /\ \A i \in 1..Len(met) : met[i] <= now

\* The trajectory is what is left of the log after all but the last Cap actions.
SuffixOK ==
    LET n == Len(session.trajectory) IN
    /\ n <= Cap /\ n <= Len(log)
    /\ n < Cap => n = Len(log)
    /\ \A i \in 1..n : session.trajectory[i] = log[Len(log) - n + i]

\* The limiter counts evaluations that met the other conditions.
CountOK == state.known => state.count <= Cardinality(Since(state.window_start))

\* What the call d has been told, against the log and the evaluations so far.
Granted(d) == d.stage \in {"met", "decided"} /\ d.action = Guarded
                /\ d.refused \in {"no", "rate"}
Sound(d) ==
    /\ d \in Call
    /\ d.upto <= Len(log)
    /\ d.stage = "met" => d.action = Guarded /\ d.refused = "no"
    /\ d.open /\ Granted(d) => RecentHas(d.upto)
    /\ d.open /\ d.refused = "prior" => ~RecentHas(d.upto)
    /\ d.refused = "rate" => Cardinality(Since(d.since)) > d.limit

CallsOK == call \in [Client -> Call] /\ \A c \in Client : Sound(call[c])

RulesInv == IInv /\ HistoryOK /\ SuffixOK /\ CountOK /\ CallsOK

-----------------------------------------------------------------------------
LEMMA NoCallType == NoCall \in Call /\ NoReport \in Report
  BY DEF NoCall, Call, NoReport, Report, Action

LEMMA RulesInitOK == RulesInit => RulesInv
  <1> SUFFICES ASSUME RulesInit PROVE RulesInv
    OBVIOUS
  <1>1. IInv
    BY InitOK DEF RulesInit
  <1>2. HistoryOK
    BY NoCallType DEF RulesInit, HistoryOK, Session, Report
  <1>3. SuffixOK
    BY SessionAssumption DEF RulesInit, SuffixOK
  <1>4. CountOK
    BY DEF RulesInit, Init, CountOK
  <1>5. CallsOK
    <2>1. Sound(NoCall)
      BY NoCallType DEF RulesInit, Sound, Granted, NoCall
    <2> QED BY <2>1, NoCallType DEF RulesInit, CallsOK
  <1> QED BY <1>1, <1>2, <1>3, <1>4, <1>5 DEF RulesInv

LEMMA SinceFinite ==
    ASSUME met \in Seq(Nat), NEW t
    PROVE  IsFiniteSet(Since(t)) /\ Cardinality(Since(t)) \in Nat
  <1>1. IsFiniteSet(1..Len(met))
    BY FS_Interval
  <1>2. Since(t) \subseteq 1..Len(met)
    BY DEF Since
  <1>3. IsFiniteSet(Since(t))
    BY <1>1, <1>2, FS_Subset
  <1> QED BY <1>3, FS_CardinalityType

\* One more evaluation gets to the limiter.
LEMMA SinceGrows ==
    ASSUME HistoryOK, now \in Nat, met' = Append(met, now), NEW t \in Nat
    PROVE  /\ Cardinality(Since(t)') \in Nat
           /\ Cardinality(Since(t)') >= Cardinality(Since(t))
           /\ t <= now => Cardinality(Since(t)') >= Cardinality(Since(t)) + 1
  <1>1. met \in Seq(Nat) /\ met' \in Seq(Nat) /\ Len(met') = Len(met) + 1
        /\ met'[Len(met) + 1] = now
        /\ \A i \in 1..Len(met) : met'[i] = met[i]
    BY DEF HistoryOK
  <1>2. IsFiniteSet(Since(t)) /\ Cardinality(Since(t)) \in Nat
    BY <1>1, SinceFinite
  <1>3. CASE t <= now
    <2>1. Since(t)' = Since(t) \cup {Len(met) + 1}
      BY <1>1, <1>3 DEF Since
    <2>2. Len(met) + 1 \notin Since(t)
      BY <1>1 DEF Since
    <2>3. Cardinality(Since(t)') = Cardinality(Since(t)) + 1
      BY <1>2, <2>1, <2>2, FS_AddElement
    <2> QED BY <1>2, <2>3
  <1>4. CASE ~(t <= now)
    <2>1. Since(t)' = Since(t)
      BY <1>1, <1>4 DEF Since
    <2> QED BY <1>2, <1>4, <2>1
  <1> QED BY <1>3, <1>4

\* What a call was told stays right as the log and the evaluations go on.
LEMMA SoundKept ==
    ASSUME HistoryOK, now \in Nat, NEW d, Sound(d),
           log' = log \/ \E x \in Action : log' = Append(log, x),
           met' = met \/ met' = Append(met, now)
    PROVE  Sound(d)'
  <1>1. d \in Call /\ d.upto \in Nat /\ d.since \in Nat /\ d.limit \in Nat
    BY DEF Sound, Call
  <1>2. d.upto <= Len(log) /\ Len(log) <= Len(log')
        /\ \A i \in 1..Len(log) : log'[i] = log[i]
    BY DEF Sound, HistoryOK
  <1>3. d.upto <= Len(log')
    BY <1>1, <1>2 DEF HistoryOK
  <1>4. RecentHas(d.upto)' <=> RecentHas(d.upto)
    <2>1. \A i \in 1..d.upto : log'[i] = log[i]
      BY <1>1, <1>2 DEF HistoryOK
    <2> QED BY <2>1 DEF RecentHas
  <1>5. d.refused = "rate" => Cardinality(Since(d.since)') > d.limit
    <2>1. CASE met' = met
      BY <2>1 DEF Sound, Since
    <2>2. CASE met' = Append(met, now)
      <3>1. Cardinality(Since(d.since)') >= Cardinality(Since(d.since))
            /\ Cardinality(Since(d.since)') \in Nat
        BY <1>1, <2>2, SinceGrows
      <3>2. Cardinality(Since(d.since)) \in Nat
        BY SinceFinite DEF HistoryOK
      <3>3. d.refused = "rate" => Cardinality(Since(d.since)) > d.limit
        BY DEF Sound
      <3> QED BY <1>1, <3>1, <3>2, <3>3
    <2> QED BY <2>1, <2>2
  <1> QED BY <1>3, <1>4, <1>5 DEF Sound

-----------------------------------------------------------------------------
\* One call changes, and what it is told is right.
LEMMA CallStep ==
    ASSUME RulesInv, NEW c \in Client, NEW d, Sound(d)', call' = [call EXCEPT ![c] = d],
           log' = log \/ \E x \in Action : log' = Append(log, x),
           met' = met \/ met' = Append(met, now)
    PROVE  CallsOK'
  <1>1. /\ call \in [Client -> Call] /\ \A e \in Client : Sound(call[e])
        /\ HistoryOK /\ now \in Nat
    BY DEF RulesInv, CallsOK, IInv, StateOK
  <1>2. d \in Call
    BY DEF Sound
  <1>3. call' \in [Client -> Call]
    BY <1>1, <1>2
  <1>4. ASSUME NEW e \in Client PROVE Sound(call[e])'
    <2>1. CASE e = c
      <3>1. call'[e] = d
        BY <1>1, <2>1
      <3> QED BY <3>1 DEF Sound
    <2>2. CASE e # c
      <3>1. PICK f : f = call[e]
        OBVIOUS
      <3>2. call'[e] = f /\ Sound(f)
        BY <1>1, <2>2, <3>1
      <3>3. Sound(f)'
        BY <1>1, <3>2, SoundKept
      <3> QED BY <3>2, <3>3 DEF Sound
    <2> QED BY <2>1, <2>2
  <1> QED BY <1>3, <1>4 DEF CallsOK

\* A step that neither records an action nor gets to the limiter.
LEMMA QuietStep ==
    ASSUME RulesInv, UNCHANGED <<vars, log, met>>, CallsOK',
           session' \in Session, session'.trajectory = session.trajectory,
           report' \in [Reporter -> Report], reported' \in Int, acked' \in Int
    PROVE  RulesInv'
  <1>1. IInv'
    BY NextStep DEF RulesInv
  <1>2. HistoryOK'
    BY DEF RulesInv, HistoryOK, vars
  <1>3. SuffixOK' /\ CountOK'
    BY DEF RulesInv, SuffixOK, CountOK, Since, vars
  <1> QED BY <1>1, <1>2, <1>3 DEF RulesInv

LEMMA ArriveStep ==
    ASSUME RulesInv, NEW c \in Client, Check(c) \/ \E x \in Action : Request(c, x)
    PROVE  RulesInv'
  <1>1. /\ UNCHANGED <<vars, log, met, report, reported, acked>>
        /\ session' = session \/ session' = [session EXCEPT !.open = TRUE]
    BY DEF Check, Request
  <1>2. /\ session \in Session /\ report \in [Reporter -> Report]
        /\ reported \in Int /\ acked \in Int
    BY DEF RulesInv, HistoryOK
  <1>3. PICK d \in Call : /\ call' = [call EXCEPT ![c] = d]
                          /\ d.upto = 0 /\ d.stage = "came" /\ d.refused = "no"
    <2>1. CASE Check(c)
      <3>1. PICK d : d = [NoCall EXCEPT !.stage = "came", !.dry = TRUE, !.action = Guarded,
                                        !.owed = acked]
        OBVIOUS
      <3>2. d \in Call /\ d.upto = 0 /\ d.stage = "came" /\ d.refused = "no"
        BY <1>2, <3>1 DEF NoCall, Call, Action
      <3> QED BY <2>1, <3>1, <3>2 DEF Check
    <2>2. ASSUME NEW x \in Action, Request(c, x)
          PROVE  \E d \in Call : /\ call' = [call EXCEPT ![c] = d]
                                 /\ d.upto = 0 /\ d.stage = "came" /\ d.refused = "no"
      <3>1. PICK d : d = [NoCall EXCEPT !.stage = "came", !.action = x, !.owed = acked]
        OBVIOUS
      <3>2. d \in Call /\ d.upto = 0 /\ d.stage = "came" /\ d.refused = "no"
        BY <1>2, <3>1 DEF NoCall, Call, Action
      <3> QED BY <2>2, <3>1, <3>2 DEF Request
    <2> QED BY <2>1, <2>2
  <1>4. Sound(d)'
    BY <1>1, <1>3 DEF Sound, Granted, RulesInv, HistoryOK
  <1>5. CallsOK'
    BY <1>1, <1>3, <1>4, CallStep
  <1>6. session' \in Session /\ session'.trajectory = session.trajectory
    BY <1>1, <1>2 DEF Session
  <1>7. /\ UNCHANGED <<vars, log, met>> /\ report' \in [Reporter -> Report]
        /\ reported' \in Int /\ acked' \in Int
    BY <1>1, <1>2
  <1> QED BY <1>5, <1>6, <1>7, QuietStep

\* In the trajectory, the prior action is what it is in the last Cap of the log.
LEMMA PriorInTail ==
    ASSUME RulesInv
    PROVE  (\E i \in DOMAIN session.trajectory : session.trajectory[i] = Prior)
             <=> RecentHas(Len(log))
  <1>0. /\ session.trajectory \in Seq(Action) /\ log \in Seq(Action) /\ Cap \in Nat
    BY SessionAssumption DEF RulesInv, HistoryOK, Session
  <1>a. PICK t \in Seq(Action) : t = session.trajectory
    BY <1>0
  <1>b. PICK n \in Nat : n = Len(t) /\ DOMAIN t = 1..n
    OBVIOUS
  <1>c. PICK m \in Nat : m = Len(log)
    BY <1>0
  <1>1. n <= Cap /\ n <= m /\ (n < Cap => n = m)
    BY <1>a, <1>b, <1>c DEF RulesInv, SuffixOK
  <1>2. \A i \in 1..n : t[i] = log[m - n + i]
    BY <1>a, <1>b, <1>c DEF RulesInv, SuffixOK
  <1>3. ASSUME NEW i \in 1..n, t[i] = Prior PROVE RecentHas(m)
    <2>1. m - n + i \in 1..m /\ m - Cap < m - n + i
      BY <1>0, <1>1
    <2>2. log[m - n + i] = Prior
      BY <1>2, <1>3
    <2> QED BY <2>1, <2>2 DEF RecentHas
  <1>4. ASSUME NEW j \in 1..m, m - Cap < j, log[j] = Prior
        PROVE  \E i \in 1..n : t[i] = Prior
    <2>1. j - (m - n) \in 1..n
      BY <1>0, <1>1, <1>4
    <2>2. t[j - (m - n)] = log[m - n + (j - (m - n))]
      BY <1>2, <2>1
    <2>3. m - n + (j - (m - n)) = j
      OBVIOUS
    <2> QED BY <1>4, <2>1, <2>2, <2>3
  <1> QED BY <1>a, <1>b, <1>c, <1>3, <1>4 DEF RecentHas

\* evaluate reads the session: what it finds of the prior action is so.
LEMMA ConditionsStep ==
    ASSUME RulesInv, NEW c \in Client, Conditions(c)
    PROVE  RulesInv'
  <1>1. /\ UNCHANGED <<vars, session, report, reported, log, acked, met>>
        /\ call' = [call EXCEPT ![c] = Judged(c, Unmet)]
        /\ call[c].stage = "came" /\ call[c].action = Guarded
    BY DEF Conditions
  <1>2. /\ session \in Session /\ report \in [Reporter -> Report]
        /\ reported \in Int /\ acked \in Int
        /\ log \in Seq(Action) /\ call[c] \in Call /\ Len(log) \in Nat
    BY DEF RulesInv, HistoryOK, CallsOK
  <1>3. PICK e \in Call : e = call[c]
    BY <1>2
  <1>4. PICK o \in BOOLEAN : o = session.open
    BY <1>2 DEF Session
  <1>5. PICK u \in {"no", "spend", "prior"} : u = Unmet
    BY DEF Unmet
  <1>6. /\ o /\ u = "no" => RecentHas(Len(log))
        /\ o /\ u = "prior" => ~RecentHas(Len(log))
    <2>1. o => (u = "no" => \E i \in DOMAIN session.trajectory : session.trajectory[i] = Prior)
      BY <1>4, <1>5 DEF Unmet
    <2>2. u = "prior" => \A i \in DOMAIN session.trajectory : session.trajectory[i] # Prior
      BY <1>5 DEF Unmet
    <2> QED BY <2>1, <2>2, PriorInTail
  <1>7. PICK d : d = [e EXCEPT !.stage = IF u = "no" THEN "met" ELSE "decided",
                               !.refused = u, !.upto = Len(log), !.open = o]
    OBVIOUS
  <1>8. Judged(c, Unmet) = d
    BY <1>3, <1>4, <1>5, <1>7, Zenon DEF Judged
  <1>9. /\ d \in Call /\ d.action = e.action /\ d.refused = u /\ d.upto = Len(log)
        /\ d.stage = IF u = "no" THEN "met" ELSE "decided"
    BY <1>2, <1>7 DEF Call
  <1>10. d.open = o
    BY <1>7 DEF Call
  <1>11. Sound(d)
    <2>1. d.stage = "met" => d.action = Guarded /\ d.refused = "no"
      BY <1>1, <1>3, <1>9
    <2>2. d.open /\ Granted(d) => RecentHas(d.upto)
      BY <1>6, <1>9, <1>10 DEF Granted
    <2>3. d.open /\ d.refused = "prior" => ~RecentHas(d.upto)
      BY <1>6, <1>9, <1>10
    <2>4. d.upto <= Len(log)
      BY <1>2, <1>9
    <2> QED BY <1>9, <2>1, <2>2, <2>3, <2>4 DEF Sound
  <1>12. Sound(d)'
    BY <1>1, <1>11 DEF Sound, RecentHas, Since
  <1>13. call' = [call EXCEPT ![c] = d]
    BY <1>1, <1>8
  <1>14. CallsOK'
    BY <1>1, <1>12, <1>13, CallStep
  <1> QED BY <1>1, <1>2, <1>14, QuietStep

LEMMA UnconditionalStep ==
    ASSUME RulesInv, NEW c \in Client, Unconditional(c)
    PROVE  RulesInv'
  <1>1. /\ UNCHANGED <<vars, session, report, reported, log, acked, met>>
        /\ call' = [call EXCEPT ![c].stage = "decided"]
        /\ call[c].stage = "came" /\ call[c].action = Prior
    BY DEF Unconditional
  <1>2. /\ session \in Session /\ report \in [Reporter -> Report]
        /\ reported \in Int /\ acked \in Int
        /\ call \in [Client -> Call] /\ Sound(call[c])
    BY DEF RulesInv, HistoryOK, CallsOK
  <1>3. PICK e \in Call : e = call[c] /\ Sound(e)
    BY <1>2
  <1>4. PICK d : d = [e EXCEPT !.stage = "decided"]
    OBVIOUS
  <1>5. /\ d \in Call /\ d.action = Prior /\ d.stage = "decided" /\ d.refused = e.refused
        /\ d.upto = e.upto /\ d.since = e.since /\ d.limit = e.limit
        /\ d.open = e.open
    BY <1>1, <1>3, <1>4 DEF Call
  <1>6. ~Granted(d)
    BY <1>5, ActionAssumption DEF Granted
  <1>7. Sound(d)
    BY <1>3, <1>5, <1>6 DEF Sound
  <1>8. Sound(d)'
    BY <1>1, <1>7 DEF Sound, RecentHas, Since
  <1>9. call' = [call EXCEPT ![c] = d]
    BY <1>1, <1>2, <1>3, <1>4
  <1>10. CallsOK'
    BY <1>1, <1>8, <1>9, CallStep
  <1> QED BY <1>1, <1>2, <1>10, QuietStep

\* The limiter counts the call; it is refused only when the count is past the limit.
LEMMA LimitedStep ==
    ASSUME RulesInv, NEW c \in Client, NEW limit \in Limit, Limited(c, limit)
    PROVE  RulesInv'
  <1>1. /\ UNCHANGED <<now, session, report, reported, log, acked>>
        /\ met' = Append(met, now)
        /\ Restarted \/ Counted(limit)
        /\ call[c].stage = "met"
    BY DEF Limited
  <1>2. /\ HistoryOK /\ StateOK /\ CountOK /\ now \in Nat /\ limit \in Nat
        /\ met \in Seq(Nat) /\ call \in [Client -> Call] /\ Sound(call[c])
        /\ state.window_start \in Nat /\ state.count \in Nat /\ state.window_start <= now
    BY RateAssumption DEF RulesInv, IInv, StateOK, HistoryOK, CallsOK, RateLimitState
  <1>3. IInv'
    <2>1. CheckRateLimit
      BY LimitedIsACall
    <2> QED BY <2>1, NextStep DEF RulesInv, Next
  <1>4. HistoryOK'
    BY <1>1, <1>2 DEF HistoryOK
  <1>5. SuffixOK'
    BY <1>1 DEF RulesInv, SuffixOK
  <1>6. /\ state'.window_start \in Nat /\ state'.count \in Nat
        /\ Cardinality(Since(state'.window_start)) \in Nat
    BY <1>2, <1>3, SinceFinite DEF IInv, StateOK, RateLimitState
  <1>7. PICK w \in Nat : w = state'.window_start
    BY <1>6
  <1>8. /\ Cardinality(Since(w)') \in Nat
        /\ state'.count <= Cardinality(Since(w)')
    <2>0. Cardinality(Since(w)) \in Nat
      BY <1>2, SinceFinite
    <2>1. CASE Restarted
      <3>1. state'.count = 1 /\ w = now /\ w <= now
        BY <1>2, <1>7, <2>1 DEF Restarted
      <3>2. /\ Cardinality(Since(w)') \in Nat
            /\ Cardinality(Since(w)') >= Cardinality(Since(w)) + 1
        BY <1>1, <1>2, <3>1, SinceGrows
      <3> QED BY <2>0, <3>1, <3>2
    <2>2. CASE Counted(limit)
      <3>1. /\ state'.count = state.count + 1 /\ w = state.window_start /\ state.known
        BY <1>2, <1>7, <2>2 DEF Counted, Fresh, StateOK, RateLimitState
      <3>2. /\ Cardinality(Since(w)') \in Nat
            /\ Cardinality(Since(w)') >= Cardinality(Since(w)) + 1
        BY <1>1, <1>2, <3>1, SinceGrows
      <3>3. state.count <= Cardinality(Since(w))
        BY <1>2, <3>1 DEF CountOK
      <3> QED BY <1>2, <2>0, <3>1, <3>2, <3>3
    <2> QED BY <1>1, <2>1, <2>2
  <1>9. CountOK'
    BY <1>7, <1>8 DEF CountOK, Since
  <1>10. allowed' = allowed => limit < Cardinality(Since(w)')
    <2>1. Append(allowed, now) # allowed
      <3>1. Len(Append(allowed, now)) # Len(allowed)
        BY <1>2 DEF StateOK
      <3> QED BY <3>1
    <2>2. CASE allowed' = allowed
      <3>1. Counted(limit) /\ ~(state.count + 1 <= limit)
        BY <1>1, <2>1, <2>2 DEF Restarted, Counted
      <3>2. state'.count = state.count + 1
        BY <1>2, <3>1 DEF Counted, StateOK, RateLimitState
      <3> QED BY <1>2, <1>8, <3>1, <3>2
    <2> QED BY <2>2
  <1>11. PICK e \in Call : e = call[c] /\ Sound(e)
    BY <1>2 DEF Sound
  <1>12. PICK v \in {"rate", "no"} :
           /\ v = IF allowed' = allowed THEN "rate" ELSE "no"
           /\ v = "rate" => allowed' = allowed
    OBVIOUS
  <1>13. PICK d : d = [e EXCEPT !.stage = "decided", !.limit = limit, !.since = w,
                                !.refused = v]
    OBVIOUS
  <1>14. /\ d \in Call /\ d.stage = "decided" /\ d.refused = v /\ d.limit = limit
         /\ d.since = w /\ d.action = e.action /\ d.upto = e.upto /\ d.open = e.open
    BY <1>2, <1>11, <1>13 DEF Call
  <1>15. call' = [call EXCEPT ![c] = d]
    <2>1. call' = [call EXCEPT ![c] =
            [call[c] EXCEPT !.stage = "decided", !.limit = limit, !.since = w,
                            !.refused = v]]
      <3>1. call' = [call EXCEPT ![c] =
              [call[c] EXCEPT !.stage = "decided", !.limit = limit,
                              !.since = state'.window_start,
                              !.refused = IF allowed' = allowed THEN "rate" ELSE "no"]]
        BY Zenon DEF Limited
      <3> QED BY <1>7, <1>12, <3>1, Zenon
    <2> QED BY <1>2, <1>11, <1>13, <2>1, Zenon
  <1>16. Sound(d)'
    <2>1. Sound(e)'
      BY <1>1, <1>2, <1>11, SoundKept
    <2>2. Granted(e)
      BY <1>1, <1>11 DEF Sound, Granted
    <2>3. d.open => RecentHas(d.upto)'
      BY <1>14, <2>1, <2>2 DEF Sound
    <2>4. d.refused = "rate" => Cardinality(Since(d.since)') > d.limit
      <3>1. v = "rate" => Cardinality(Since(w)') > limit
        <4>1. v = "rate" => limit < Cardinality(Since(w)')
          BY <1>10, <1>12, Zenon
        <4> QED BY <1>2, <1>8, <4>1
      <3> QED BY <1>14, <3>1 DEF Since
    <2>5. d.upto <= Len(log')
      BY <1>14, <2>1 DEF Sound
    <2>6. d.refused # "prior" /\ d.stage # "met"
      BY <1>14
    <2> QED BY <1>14, <2>3, <2>4, <2>5, <2>6 DEF Sound
  <1>17. CallsOK'
    BY <1>1, <1>15, <1>16, CallStep
  <1> QED BY <1>3, <1>4, <1>5, <1>9, <1>17 DEF RulesInv

LEMMA NoCallSound ==
    ASSUME RulesInv, log' \in Seq(Action)
    PROVE  Sound(NoCall)'
  <1>1. /\ NoCall \in Call /\ NoCall.stage = "idle" /\ NoCall.upto = 0
        /\ NoCall.refused = "no"
    BY NoCallType DEF NoCall
  <1> QED BY <1>1 DEF Sound, Granted

LEMMA LeaveStep ==
    ASSUME RulesInv, NEW c \in Client, Leave(c)
    PROVE  RulesInv'
  <1>1. /\ UNCHANGED <<vars, session, report, reported, log, acked, met>>
        /\ call' = [call EXCEPT ![c] = NoCall]
    BY DEF Leave
  <1>2. /\ session \in Session /\ report \in [Reporter -> Report]
        /\ reported \in Int /\ acked \in Int
        /\ log \in Seq(Action)
    BY DEF RulesInv, HistoryOK
  <1>3. Sound(NoCall)'
    BY <1>1, <1>2, NoCallSound
  <1>4. CallsOK'
    BY <1>1, <1>3, CallStep
  <1> QED BY <1>1, <1>2, <1>4, QuietStep

\* A sequence that Kept shortens by one is its end.
LEMMA KeptIsTail ==
    ASSUME NEW t \in Seq(Action), Len(t) <= Cap + 1
    PROVE  /\ Kept(t) \in Seq(Action)
           /\ Len(Kept(t)) = IF Len(t) <= Cap THEN Len(t) ELSE Cap
           /\ \A i \in 1..Len(Kept(t)) : Kept(t)[i] = t[Len(t) - Len(Kept(t)) + i]
  <1>0. Cap \in Nat \ {0}
    BY SessionAssumption
  <1>1. CASE Len(t) <= Cap
    <2>1. Kept(t) = t
      BY <1>0, <1>1 DEF Kept
    <2> QED BY <1>1, <2>1
  <1>2. CASE ~(Len(t) <= Cap)
    <2>1. Len(t) = Cap + 1
      BY <1>0, <1>2
    <2>2. Kept(t) = SubSeq(t, 2, Cap + 1)
      BY <1>0, <2>1 DEF Kept
    <2>3. /\ SubSeq(t, 2, Cap + 1) \in Seq(Action)
          /\ Len(SubSeq(t, 2, Cap + 1)) = Cap
          /\ \A i \in 1..Cap : SubSeq(t, 2, Cap + 1)[i] = t[i + 1]
      BY <1>0, <2>1
    <2> QED BY <1>0, <2>1, <2>2, <2>3
  <1> QED BY <1>1, <1>2

LEMMA RecordActionStep ==
    ASSUME RulesInv, NEW c \in Client, RecordAction(c)
    PROVE  RulesInv'
  <1>1. /\ UNCHANGED <<vars, report, reported, acked, met>>
        /\ session' = [session EXCEPT !.trajectory =
             Kept(Append(session.trajectory, call[c].action))]
        /\ log' = Append(log, call[c].action)
        /\ call' = [call EXCEPT ![c] = NoCall]
    BY DEF RecordAction
  <1>2. /\ session \in Session /\ log \in Seq(Action) /\ call[c] \in Call
        /\ Cap \in Nat \ {0}
    BY SessionAssumption DEF RulesInv, HistoryOK, CallsOK
  <1>3. PICK x \in Action : x = call[c].action
    BY <1>2 DEF Call
  <1>4. PICK t \in Seq(Action) : t = session.trajectory
    BY <1>2 DEF Session
  <1>5. PICK n \in Nat : n = Len(t)
    OBVIOUS
  <1>6. PICK m \in Nat : m = Len(log)
    BY <1>2
  <1>7. /\ n <= Cap /\ n <= m
        /\ n < Cap => n = m
        /\ \A i \in 1..n : t[i] = log[m - n + i]
    BY <1>4, <1>5, <1>6 DEF RulesInv, SuffixOK
  <1>8. PICK a \in Seq(Action) : a = Append(t, x)
    <2>1. Append(t, x) \in Seq(Action)
      OBVIOUS
    <2> QED BY <2>1
  <1>9. Len(a) = n + 1 /\ a[n + 1] = x /\ \A i \in 1..n : a[i] = t[i]
    BY <1>5, <1>8
  <1>10. PICK u \in Seq(Action) :
           /\ u = Kept(a)
           /\ Len(u) = IF n + 1 <= Cap THEN n + 1 ELSE Cap
           /\ \A i \in 1..Len(u) : u[i] = a[n + 1 - Len(u) + i]
    <2>1. Len(a) <= Cap + 1
      BY <1>2, <1>7, <1>9
    <2> QED BY <1>9, <2>1, KeptIsTail
  <1>11. session'.trajectory = u /\ session' \in Session
    BY <1>1, <1>2, <1>3, <1>4, <1>8, <1>10 DEF Session
  <1>12. /\ log' \in Seq(Action) /\ Len(log') = m + 1 /\ log'[m + 1] = x
         /\ \A i \in 1..m : log'[i] = log[i]
    BY <1>1, <1>2, <1>3, <1>6
  <1>13. PICK k \in Nat : k = Len(u) /\ k <= n + 1 /\ k >= 1
    BY <1>2, <1>10
  <1>14. \A i \in 1..k : u[i] = log'[m + 1 - k + i]
    <2> SUFFICES ASSUME NEW i \in 1..k PROVE u[i] = log'[m + 1 - k + i]
      OBVIOUS
    <2>1. u[i] = a[n + 1 - k + i] /\ n + 1 - k + i \in 1..(n + 1)
      BY <1>10, <1>13
    <2>2. CASE i = k
      <3>1. n + 1 - k + i = n + 1 /\ m + 1 - k + i = m + 1
        BY <1>13, <2>2
      <3> QED BY <1>9, <1>12, <2>1, <3>1
    <2>3. CASE i # k
      <3>0. k <= n + 1
        BY <1>13
      <3>1. PICK j \in 1..n : j = n + 1 - k + i
        <4>1. n + 1 - k + i \in 1..n
          BY <2>3, <3>0
        <4> QED BY <4>1
      <3>2. u[i] = log[m - n + j]
        BY <1>7, <1>9, <2>1, <3>1
      <3>3. m - n + j = m + 1 - k + i /\ m - n + j \in 1..m
        BY <1>7, <1>13, <3>1
      <3> QED BY <1>12, <3>2, <3>3
    <2> QED BY <2>2, <2>3
  <1>15. SuffixOK'
    <2>1. /\ k <= Cap /\ k <= m + 1
          /\ k < Cap => k = m + 1
      BY <1>2, <1>7, <1>10, <1>13
    <2> QED BY <1>11, <1>12, <1>13, <1>14, <2>1 DEF SuffixOK
  <1>16. IInv'
    BY <1>1, NextStep DEF RulesInv
  <1>17. HistoryOK' /\ CountOK'
    BY <1>1, <1>11, <1>12 DEF RulesInv, HistoryOK, CountOK, Since, vars
  <1>18. CallsOK'
    <2>1. Sound(NoCall)'
      BY <1>12, NoCallSound
    <2>2. \E y \in Action : log' = Append(log, y)
      BY <1>1, <1>3
    <2> QED BY <1>1, <2>1, <2>2, CallStep
  <1> QED BY <1>15, <1>16, <1>17, <1>18 DEF RulesInv

\* A report changes of the calls no more than what they are owed.
LEMMA OwedOnly ==
    ASSUME RulesInv, reported' \in Int,
           call' = [c \in Client |->
             IF call[c].stage = "came"
             THEN [call[c] EXCEPT !.owed = Left(@, reported')] ELSE call[c]]
    PROVE  /\ call' \in [Client -> Call]
           /\ \A c \in Client : \/ call'[c] = call[c]
                              \/ \E x \in Int : call'[c] = [call[c] EXCEPT !.owed = x]
  <1>1. call \in [Client -> Call]
    BY DEF RulesInv, CallsOK
  <1>2. ASSUME NEW c \in Client
        PROVE  \/ call'[c] = call[c]
               \/ \E x \in Int : call'[c] = [call[c] EXCEPT !.owed = x]
    <2>1. PICK e \in Call : e = call[c]
      BY <1>1
    <2>2. PICK x \in Int : x = Left(e.owed, reported')
      BY <2>1 DEF Call, Left
    <2>3. call'[c] = IF e.stage = "came" THEN [e EXCEPT !.owed = x] ELSE e
      BY <2>1, <2>2
    <2> QED BY <2>1, <2>3
  <1>3. \A e \in Call, x \in Int : [e EXCEPT !.owed = x] \in Call
    BY DEF Call
  <1>4. \A c \in Client : call'[c] \in Call
    BY <1>1, <1>2, <1>3
  <1>5. call' \in [Client -> Call]
    <2> DEFINE C == Call
    <2>1. \A c \in Client : call'[c] \in C
      BY <1>4
    <2>2. call' = [c \in Client |-> call'[c]]
      OBVIOUS
    <2> HIDE DEF C
    <2>3. call' \in [Client -> C]
      BY <2>1, <2>2
    <2> QED BY <2>3 DEF C
  <1> QED BY <1>2, <1>5

\* What is owed to a call plays no part in what it has been told.
LEMMA OwedSound ==
    ASSUME UNCHANGED <<log, met>>, NEW e \in Call, Sound(e), NEW x \in Int
    PROVE  Sound([e EXCEPT !.owed = x])'
  <1>1. PICK d \in Call : d = [e EXCEPT !.owed = x]
    BY DEF Call
  <1>2. /\ d.stage = e.stage /\ d.action = e.action /\ d.refused = e.refused
        /\ d.upto = e.upto /\ d.open = e.open /\ d.since = e.since
        /\ d.limit = e.limit
    BY <1>1 DEF Call
  <1>3. Sound(d)
    BY <1>2 DEF Sound, Granted
  <1>4. Sound(d)'
    BY <1>3 DEF Sound, RecentHas, Since
  <1> QED BY <1>1, <1>4

\* Reports change no more than the totals, what was answered for and what is owed.
LEMMA ReportStep ==
    ASSUME RulesInv, NEW r \in Reporter,
           Acknowledge(r) \/ \E n \in Amount : RecordSpend(r, n)
    PROVE  RulesInv'
  <1>1. UNCHANGED <<vars, log, met>>
    BY DEF Acknowledge, RecordSpend
  <1>2. /\ session \in Session /\ report \in [Reporter -> Report]
        /\ reported \in Int /\ acked \in Int
        /\ \A q \in Reporter : report[q] \in Report /\ report[q].upto \in Int
    BY DEF RulesInv, HistoryOK, Report
  <1>3. CASE Acknowledge(r)
    <2>1. /\ session' \in Session /\ session'.trajectory = session.trajectory
          /\ report' \in [Reporter -> Report] /\ reported' \in Int /\ acked' \in Int
      BY <1>2, <1>3, NoCallType DEF Acknowledge
    <2>2. CallsOK'
      BY <1>1, <1>3 DEF Acknowledge, RulesInv, CallsOK, Sound, RecentHas, Since
    <2> QED BY <1>1, <2>1, <2>2, QuietStep
  <1>4. ASSUME NEW n \in Amount, RecordSpend(r, n) PROVE RulesInv'
    <2>1. n \in Int /\ session.spend \in Int /\ session.spend + n \in Int
      BY <1>2, SessionAssumption DEF Session
    <2>2. session' = session \/ session' = [session EXCEPT !.spend = session.spend + n]
      BY <1>4 DEF RecordSpend, Spent
    <2>3. session' \in Session /\ session'.trajectory = session.trajectory
      BY <1>2, <2>1, <2>2 DEF Session
    <2>4. reported' \in Int
      BY <1>2, <1>4, <2>1 DEF RecordSpend
    <2>5. acked' \in Int
      BY <1>2, <1>4, <2>4 DEF RecordSpend, Left
    <2>6. report' \in [Reporter -> Report]
      <3>1. ASSUME NEW q \in Reporter
            PROVE  IF q = r THEN [stage |-> "recorded", upto |-> reported'] \in Report
                   ELSE [report[q] EXCEPT !.upto = Left(@, reported')] \in Report
        BY <1>2, <2>4 DEF Report, Left
      <3> QED BY <1>4, <3>1 DEF RecordSpend
    <2>7. CallsOK'
      <3>1. /\ call' \in [Client -> Call]
            /\ \A c \in Client : \/ call'[c] = call[c]
                               \/ \E x \in Int : call'[c] = [call[c] EXCEPT !.owed = x]
        BY <1>4, <2>4, OwedOnly DEF RecordSpend
      <3>2. ASSUME NEW c \in Client PROVE Sound(call[c])'
        <4>1. PICK e \in Call : e = call[c] /\ Sound(e)
          BY DEF RulesInv, CallsOK
        <4>2. CASE call'[c] = e
          <5>1. Sound(e)'
            BY <1>1, <4>1 DEF Sound, Granted, RecentHas, Since
          <5> QED BY <4>2, <5>1 DEF Sound, Granted
        <4>3. ASSUME NEW x \in Int, call'[c] = [e EXCEPT !.owed = x]
              PROVE  Sound(call[c])'
          <5>1. Sound([e EXCEPT !.owed = x])'
            BY <1>1, <4>1, OwedSound
          <5> QED BY <4>3, <5>1 DEF Sound, Granted
        <4> QED BY <3>1, <4>1, <4>2, <4>3
      <3> QED BY <3>1, <3>2 DEF CallsOK
    <2> QED BY <1>1, <2>3, <2>4, <2>5, <2>6, <2>7, QuietStep
  <1> QED BY <1>3, <1>4

LEMMA ClockStep ==
    ASSUME RulesInv, Clock
    PROVE  RulesInv'
  <1>1. UNCHANGED <<session, call, report, reported, log, acked, met, state>> /\ now' = now + 1
    BY DEF Clock, Tick
  <1>2. IInv'
    BY NextStep DEF RulesInv, Clock, Next
  <1>3. HistoryOK'
    BY <1>1 DEF RulesInv, IInv, StateOK, HistoryOK
  <1>4. SuffixOK' /\ CountOK'
    BY <1>1 DEF RulesInv, SuffixOK, CountOK, Since
  <1>5. CallsOK'
    BY <1>1 DEF RulesInv, CallsOK, Sound, RecentHas, Since
  <1> QED BY <1>2, <1>3, <1>4, <1>5 DEF RulesInv

LEMMA RulesNextStep == RulesInv /\ [RulesNext]_rulesVars => RulesInv'
  <1> SUFFICES ASSUME RulesInv, [RulesNext]_rulesVars PROVE RulesInv'
    OBVIOUS
  <1>1. ASSUME NEW c \in Client, Handle(c) PROVE RulesInv'
    BY <1>1, ArriveStep, ConditionsStep, UnconditionalStep, LimitedStep, RecordActionStep,
       LeaveStep DEF Handle
  <1>2. ASSUME NEW r \in Reporter, Acknowledge(r) \/ \E n \in Amount : RecordSpend(r, n)
        PROVE  RulesInv'
    BY <1>2, ReportStep
  <1>3. CASE Clock
    BY <1>3, ClockStep
  <1>4. CASE UNCHANGED rulesVars
    <2>1. UNCHANGED <<vars, session, call, report, reported, log, acked, met>>
      BY <1>4 DEF rulesVars
    <2>2. CallsOK'
      BY <2>1 DEF RulesInv, CallsOK, Sound, RecentHas, Since
    <2> QED BY <2>1, <2>2, QuietStep DEF RulesInv, HistoryOK
  <1> QED BY <1>1, <1>2, <1>3, <1>4 DEF RulesNext

LEMMA RulesInvariant == RulesSpec => []RulesInv
  BY RulesInitOK, RulesNextStep, PTL DEF RulesSpec

-----------------------------------------------------------------------------
\* The trajectory never outgrows its cap, and every call and report has its type.
THEOREM RulesTypeCorrect == RulesSpec => []RulesTypeOK
  <1>1. RulesInv /\ TypeOK => RulesTypeOK
    <2> SUFFICES ASSUME RulesInv, TypeOK PROVE RulesTypeOK
      OBVIOUS
    <2>1. met \in Seq(0..now)
      <3>1. met \in Seq(Nat) /\ now \in Nat /\ \A i \in 1..Len(met) : met[i] \in 0..now
        BY DEF RulesInv, HistoryOK, IInv, StateOK
      <3> QED BY <3>1
    <2>2. Len(session.trajectory) <= Cap
      BY DEF RulesInv, SuffixOK
    <2> QED BY <2>1, <2>2 DEF RulesInv, HistoryOK, CallsOK, RulesTypeOK
  <1> QED BY <1>1, RulesInvariant, RulesLimiterType, PTL

\* require_prior_action decides whether the prior action is among the last Cap actions
\* recorded in the session, for every cap and every number of requests.
THEOREM PriorRecentCorrect == RulesSpec => []PriorRecent
  <1>1. RulesInv => PriorRecent
    BY DEF RulesInv, CallsOK, Sound, Granted, PriorRecent, Passed
  <1> QED BY <1>1, RulesInvariant, PTL

\* Only evaluations that met the rule's other conditions use up its rate limit: a call
\* is refused by the limit after more than that many of them in the window.
THEOREM DenialEarnedCorrect == RulesSpec => []DenialEarned
  <1>1. RulesInv => DenialEarned
    <2> SUFFICES ASSUME RulesInv, NEW c \in Client, call[c].refused = "rate"
                 PROVE  Cardinality({i \in DOMAIN met : met[i] >= call[c].since})
                          > call[c].limit
      BY DEF DenialEarned
    <2>1. Cardinality(Since(call[c].since)) > call[c].limit
      BY DEF RulesInv, CallsOK, Sound
    <2>2. DOMAIN met = 1..Len(met)
      BY DEF RulesInv, HistoryOK
    <2> QED BY <2>1, <2>2 DEF Since
  <1> QED BY <1>1, RulesInvariant, PTL

-----------------------------------------------------------------------------
\* What has been answered for is still reported, what is reported is in the total,
\* and a call that is not yet evaluated is owed no more than is answered for.
SpendInv ==
    /\ acked <= reported /\ reported <= session.spend
    /\ \A r \in Reporter : report[r].stage = "recorded" => report[r].upto <= reported
    /\ \A c \in Client : call[c].stage = "came" => call[c].owed <= acked
    /\ CapBinds

LEMMA SpendTypes ==
    ASSUME RulesInv
    PROVE  /\ reported \in Int /\ acked \in Int /\ session.spend \in Int
           /\ session.open \in BOOLEAN /\ SpendCap \in Nat
           /\ report \in [Reporter -> Report] /\ call \in [Client -> Call]
           /\ \A r \in Reporter : report[r].upto \in Int
           /\ \A c \in Client : call[c] \in Call /\ call[c].owed \in Int
  <1>1. /\ report \in [Reporter -> Report] /\ call \in [Client -> Call]
        /\ session \in Session /\ reported \in Int /\ acked \in Int
    BY DEF RulesInv, HistoryOK, CallsOK
  <1> QED BY <1>1, SessionAssumption DEF Session, Report, Call

\* One call changes: to one that came when no more was answered for than is now,
\* and that is let through only if it was so before or the cap is not reached.
LEMMA SpendCall ==
    ASSUME RulesInv, SpendInv, UNCHANGED <<report, reported, acked>>,
           session'.spend = session.spend, NEW c \in Client, NEW d \in Call,
           call' = [call EXCEPT ![c] = d],
           d.stage = "came" => d.owed <= acked,
           d.stage \in {"met", "decided"} /\ d.action = Guarded
             /\ d.refused \in {"no", "rate"} /\ d.open
               => \/ Passed(c) /\ call[c].open /\ d.owed = call[c].owed
                  \/ session.spend < SpendCap /\ d.owed <= acked
    PROVE  SpendInv'
  <1>1. call'[c] = d /\ \A e \in Client \ {c} : call'[e] = call[e]
    BY SpendTypes
  <1>2. ASSUME NEW e \in Client, call'[e].stage = "came" PROVE call'[e].owed <= acked
    BY <1>1, <1>2 DEF SpendInv
  <1>3. ASSUME NEW e \in Client, Passed(e)', call'[e].open
        PROVE  call'[e].owed < SpendCap
    <2>1. CASE e # c
      BY <1>1, <1>3, <2>1 DEF SpendInv, CapBinds, Passed
    <2>2. CASE e = c
      <3>1. CASE Passed(c) /\ call[c].open /\ d.owed = call[c].owed
        BY <1>1, <2>2, <3>1 DEF SpendInv, CapBinds
      <3>2. CASE session.spend < SpendCap /\ d.owed <= acked
        <4>1. d.owed \in Int
          BY DEF Call
        <4> QED BY <1>1, <2>2, <3>2, <4>1, SpendTypes DEF SpendInv
      <3> QED BY <1>1, <1>3, <2>2, <3>1, <3>2 DEF Passed
    <2> QED BY <2>1, <2>2
  <1> QED BY <1>2, <1>3 DEF SpendInv, CapBinds

LEMMA SpendHandle ==
    ASSUME RulesInv, SpendInv, NEW c \in Client, Handle(c)
    PROVE  SpendInv'
  <1>1. /\ UNCHANGED <<report, reported, acked>> /\ session'.spend = session.spend
    <2>1. session \in Session
      BY DEF RulesInv, HistoryOK
    <2> QED BY <2>1 DEF Handle, Request, Check, Conditions, Unconditional, Limited,
               RecordAction, Leave, Session
  <1>2. /\ call \in [Client -> Call] /\ call[c] \in Call
        /\ acked \in Int /\ (call[c].stage = "came" => call[c].owed <= acked)
    BY SpendTypes DEF SpendInv
  <1>3. call' \in [Client -> Call] /\ call'[c] \in Call
    BY RulesNextStep, SpendTypes DEF RulesNext, RulesInv, CallsOK
  <1>4. PICK d \in Call : d = call'[c]
    BY <1>3
  <1>5. CASE (\E x \in Action : Request(c, x)) \/ Check(c)
    <2>1. /\ call' = [call EXCEPT ![c] = d] /\ d.owed = acked /\ d.stage = "came"
      BY <1>2, <1>4, <1>5 DEF Request, Check, NoCall
    <2>2. d.owed <= acked
      BY <1>2, <2>1
    <2> QED BY <1>1, <2>1, <2>2, SpendCall
  <1>6. CASE Conditions(c)
    <2>1. /\ call' = [call EXCEPT ![c] = d] /\ d.owed = call[c].owed
          /\ d.refused = Unmet /\ d.open = session.open /\ d.stage \in {"met", "decided"}
      BY <1>2, <1>4, <1>6 DEF Conditions, Judged, Call
    <2>2. session.open /\ Unmet \in {"no", "rate"} => session.spend < SpendCap
      BY SpendTypes DEF Unmet
    <2>3. d.owed <= acked /\ d.stage # "came"
      BY <1>2, <1>6, <2>1 DEF Conditions
    <2> QED BY <1>1, <2>1, <2>2, <2>3, SpendCall
  <1>7. CASE Unconditional(c)
    <2>1. /\ call' = [call EXCEPT ![c] = d] /\ d.stage = "decided"
          /\ d.action # Guarded
      BY <1>2, <1>4, <1>7, ActionAssumption DEF Unconditional, Call
    <2> QED BY <1>1, <2>1, SpendCall
  <1>8. ASSUME NEW limit \in Limit, Limited(c, limit) PROVE SpendInv'
    <2>1. /\ call' = [call EXCEPT ![c] = d] /\ d.owed = call[c].owed
          /\ d.open = call[c].open /\ call[c].stage = "met" /\ d.stage = "decided"
      BY <1>2, <1>4, <1>8 DEF Limited, Call
    <2>2. Passed(c)
      BY <2>1 DEF RulesInv, CallsOK, Sound, Passed
    <2> QED BY <1>1, <2>1, <2>2, SpendCall
  <1>9. CASE RecordAction(c) \/ Leave(c)
    <2>1. /\ call' = [call EXCEPT ![c] = d] /\ d.stage = "idle"
      BY <1>2, <1>4, <1>9 DEF RecordAction, Leave, NoCall
    <2> QED BY <1>1, <2>1, SpendCall
  <1> QED BY <1>5, <1>6, <1>7, <1>8, <1>9 DEF Handle

\* The lesser of two totals.
LEMMA LeftFact ==
    ASSUME NEW x \in Int, NEW t \in Int
    PROVE  Left(x, t) \in Int /\ Left(x, t) <= t /\ Left(x, t) <= x
  BY DEF Left

\* A report moves both totals by its amount, or none, and takes back what it must.
LEMMA SpendRecord ==
    ASSUME RulesInv, SpendInv, NEW r \in Reporter, NEW n \in Amount, RecordSpend(r, n)
    PROVE  SpendInv'
  <1>1. n \in Int /\ session \in Session
    BY SessionAssumption DEF RulesInv, HistoryOK
  <1>2. /\ reported' = IF session.open THEN reported + n ELSE reported
        /\ session'.spend = IF session.open THEN session.spend + n ELSE session.spend
        /\ acked' = Left(acked, reported')
    BY <1>1 DEF RecordSpend, Spent, Session
  <1>3. reported' \in Int /\ reported' <= session'.spend
    BY <1>1, <1>2, SpendTypes DEF SpendInv
  <1>4. acked' \in Int /\ acked' <= reported'
    BY <1>2, <1>3, SpendTypes, LeftFact
  <1>5. ASSUME NEW q \in Reporter, report'[q].stage = "recorded"
        PROVE  report'[q].upto <= reported'
    <2>1. PICK e \in Report : e = report[q]
      BY SpendTypes
    <2>2. report'[q] = IF q = r THEN [stage |-> "recorded", upto |-> reported']
                       ELSE [e EXCEPT !.upto = Left(e.upto, reported')]
      BY <2>1 DEF RecordSpend
    <2>3. PICK x \in Int : x = Left(e.upto, reported') /\ x <= reported'
      <3>1. e.upto \in Int
        BY DEF Report
      <3> QED BY <1>3, <3>1, LeftFact
    <2>4. report'[q] = IF q = r THEN [stage |-> "recorded", upto |-> reported']
                       ELSE [e EXCEPT !.upto = x]
      BY <2>2, <2>3
    <2>5. report'[q].upto = IF q = r THEN reported' ELSE x
      BY <2>4 DEF Report
    <2> QED BY <1>3, <2>3, <2>5
  <1>6. ASSUME NEW c \in Client
        PROVE  \/ call'[c] = call[c] /\ call[c].stage # "came"
               \/ /\ call[c].stage = "came" /\ call'[c].stage = "came"
                  /\ call'[c].owed = Left(call[c].owed, reported')
    <2>1. PICK e \in Call : e = call[c]
      BY SpendTypes
    <2>2. call'[c] = IF e.stage = "came" THEN [e EXCEPT !.owed = Left(e.owed, reported')]
                     ELSE e
      BY <2>1 DEF RecordSpend
    <2> QED BY <2>1, <2>2 DEF Call
  <1>7. ASSUME NEW c \in Client, call'[c].stage = "came" PROVE call'[c].owed <= acked'
    <2>1. call[c].stage = "came" /\ call'[c].owed = Left(call[c].owed, reported')
      BY <1>6, <1>7
    <2>2. PICK x \in Int : x = call[c].owed /\ x <= acked
      BY <2>1, SpendTypes DEF SpendInv
    <2>3. Left(x, reported') <= Left(acked, reported')
      BY <1>3, <2>2, SpendTypes DEF Left
    <2> QED BY <1>2, <2>1, <2>2, <2>3
  <1>8. CapBinds'
    BY <1>6 DEF SpendInv, CapBinds, Passed
  <1> QED BY <1>3, <1>4, <1>5, <1>7, <1>8 DEF SpendInv

LEMMA SpendAcknowledge ==
    ASSUME RulesInv, SpendInv, NEW r \in Reporter, Acknowledge(r)
    PROVE  SpendInv'
  <1>1. /\ acked' = IF report[r].upto > acked THEN report[r].upto ELSE acked
        /\ report' = [report EXCEPT ![r] = NoReport]
        /\ UNCHANGED <<session, reported, call>> /\ report[r].stage = "recorded"
    BY DEF Acknowledge
  <1>2. acked' <= reported /\ acked <= acked' /\ acked' \in Int
    BY <1>1, SpendTypes DEF SpendInv
  <1>3. ASSUME NEW x \in Reporter, report'[x].stage = "recorded"
        PROVE  report'[x].upto <= reported
    BY <1>1, <1>3, SpendTypes DEF SpendInv, NoReport
  <1>4. ASSUME NEW c \in Client, call'[c].stage = "came" PROVE call'[c].owed <= acked'
    BY <1>1, <1>2, <1>4, SpendTypes DEF SpendInv
  <1>5. CapBinds'
    BY <1>1 DEF SpendInv, CapBinds, Passed
  <1> QED BY <1>1, <1>2, <1>3, <1>4, <1>5 DEF SpendInv

LEMMA SpendNext == RulesInv /\ SpendInv /\ [RulesNext]_rulesVars => SpendInv'
  <1> SUFFICES ASSUME RulesInv, SpendInv, [RulesNext]_rulesVars PROVE SpendInv'
    OBVIOUS
  <1>1. CASE Clock \/ UNCHANGED rulesVars
    <2>1. UNCHANGED <<session, call, report, reported, acked>>
      BY <1>1 DEF Clock, rulesVars
    <2> QED BY <2>1 DEF SpendInv, CapBinds, Passed
  <1> QED BY <1>1, SpendHandle, SpendRecord, SpendAcknowledge DEF RulesNext

\* max_spend binds every request that comes after the answer to the report that
\* reached it, as long as no report takes the spend back: for any amounts, negative
\* ones too, and any number of reports, requests and dry runs at once.
THEOREM CapBindsCorrect == RulesSpec => []CapBinds
  <1>1. RulesInit => SpendInv
    <2> SUFFICES ASSUME RulesInit PROVE SpendInv
      OBVIOUS
    <2> QED BY DEF RulesInit, SpendInv, CapBinds, Passed, NoCall, NoReport
  <1>2. SpendInv => CapBinds
    BY DEF SpendInv
  <1> QED BY <1>1, <1>2, SpendNext, RulesInvariant, PTL DEF RulesSpec
=============================================================================
