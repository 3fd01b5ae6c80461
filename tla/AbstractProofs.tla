----------------------------- MODULE AbstractProofs -----------------------------
(***************************************************************************)
(* What the abstract specifications come to: nothing visited is missing    *)
(* from a step stream that is StepTrace and nothing is told twice in a     *)
(* row, and how a Recording returns tells what it has left.                *)
(***************************************************************************)
EXTENDS StepTrace, TLAPS

VARIABLES stage, bundle

Call == INSTANCE Recording

LEMMA AppendFacts ==
  ASSUME NEW S, NEW s \in Seq(S), NEW e \in S
  PROVE  /\ Append(s, e) \in Seq(S)
         /\ Append(s, e) # <<>> /\ Append(s, e)[Len(Append(s, e))] = e
         /\ \A k \in 1..Len(s) : Append(s, e)[k] = s[k]
         /\ Len(Append(s, e)) = Len(s) + 1
  OBVIOUS

StreamInv ==
    /\ visited \in Seq(Places) /\ steps \in Seq(Places)
    /\ visited = <<>> <=> steps = <<>>
    /\ Destuttered

LEMMA VisitStreamInv ==
  ASSUME StreamInv, NEW l \in Places, Visit(l)
  PROVE  StreamInv'
<1>1. /\ visited \in Seq(Places) /\ steps \in Seq(Places)
      /\ visited' = Append(visited, l)
      /\ steps' = IF Ends(visited, l) THEN steps ELSE Append(steps, l)
  BY DEF StreamInv, Visit
<1>2. /\ visited' \in Seq(Places) /\ visited' # <<>>
      /\ visited'[Len(visited')] = l /\ Len(visited') = Len(visited) + 1
      /\ \A k \in 1..Len(visited) : visited'[k] = visited[k]
  BY <1>1, AppendFacts
<1>3. /\ steps' \in Seq(Places) /\ steps' # <<>> /\ steps'[Len(steps')] = l
      /\ \A k \in 1..Len(steps) : k \in 1..Len(steps') /\ steps'[k] = steps[k]
      /\ \A k \in 1..(Len(steps') - 1) : steps'[k] # steps'[k + 1]
  <2>1. CASE Ends(visited, l)
    <3>1. steps' = steps
      BY <1>1, <2>1
    <3>2. steps # <<>> /\ steps[Len(steps)] = l
      BY <2>1 DEF StreamInv, Destuttered, Ends
    <3>3. QED
      BY <1>1, <3>1, <3>2 DEF StreamInv, Destuttered, Stuttering
  <2>2. CASE ~Ends(visited, l)
    <3>1. /\ steps' = Append(steps, l)
          /\ steps' \in Seq(Places) /\ steps' # <<>> /\ steps'[Len(steps')] = l
          /\ Len(steps') = Len(steps) + 1
          /\ \A k \in 1..Len(steps) : steps'[k] = steps[k]
      BY <1>1, <2>2, AppendFacts
    <3>2. steps # <<>> => steps[Len(steps)] # l
      BY <2>2 DEF StreamInv, Destuttered, Ends
    <3>3. ASSUME NEW k \in 1..(Len(steps') - 1) PROVE steps'[k] # steps'[k + 1]
      <4>1. k \in 1..Len(steps)
        BY <1>1, <3>1
      <4>2. CASE k = Len(steps)
        <5>1. steps # <<>>
          BY <4>1
        <5>2. QED
          BY <3>1, <3>2, <4>1, <4>2, <5>1
      <4>3. CASE k # Len(steps)
        <5>1. k \in 1..(Len(steps) - 1) /\ k + 1 \in 1..Len(steps)
          BY <1>1, <4>1, <4>3
        <5>2. steps[k] # steps[k + 1]
          BY <5>1 DEF StreamInv, Destuttered, Stuttering
        <5>3. QED
          BY <3>1, <5>1, <5>2
      <4>4. QED
        BY <4>2, <4>3
    <3>4. \A k \in 1..Len(steps) : k \in 1..Len(steps')
      BY <1>1, <3>1
    <3>5. QED
      BY <3>1, <3>3, <3>4
  <2>3. QED
    BY <2>1, <2>2
<1>4. ASSUME NEW k \in 1..Len(visited') PROVE \E j \in 1..Len(steps') : steps'[j] = visited'[k]
  <2>1. CASE k \in 1..Len(visited)
    <3>1. PICK j \in 1..Len(steps) : steps[j] = visited[k]
      BY <2>1 DEF StreamInv, Destuttered
    <3>2. j \in 1..Len(steps') /\ steps'[j] = visited'[k]
      BY <1>2, <1>3, <2>1, <3>1
    <3>3. QED
      BY <3>2
  <2>2. CASE k \notin 1..Len(visited)
    <3>1. visited'[k] = l
      <4>1. k = Len(visited')
        BY <1>1, <1>2, <2>2
      <4>2. QED
        BY <1>2, <4>1
    <3>2. Len(steps') \in 1..Len(steps')
      BY <1>3
    <3>3. QED
      BY <1>3, <3>1, <3>2
  <2>3. QED
    BY <2>1, <2>2
<1>5. QED
  BY <1>2, <1>3, <1>4 DEF StreamInv, Destuttered, Stuttering, Ends

(* A stream that tells each run of visits once has no two equal steps in a *)
(* row, misses no visited location and ends where the guest is.            *)
THEOREM StreamsAreDestuttered == Spec => []Destuttered
<1>1. Init => StreamInv
  BY DEF Init, StreamInv, Destuttered, Stuttering
<1>2. StreamInv /\ [Next]_<<visited, steps>> => StreamInv'
  <2>1. ASSUME StreamInv, UNCHANGED <<visited, steps>> PROVE StreamInv'
    BY <2>1 DEF StreamInv, Destuttered, Stuttering, Ends
  <2>2. ASSUME StreamInv, Next PROVE StreamInv'
    BY <2>2, VisitStreamInv DEF Next
  <2>3. QED
    BY <2>1, <2>2
<1>3. StreamInv => Destuttered
  BY DEF StreamInv
<1>4. QED
  BY <1>1, <1>2, <1>3, PTL DEF Spec

(* A call of trace_program that returns has left a complete bundle exactly *)
(* when it says so, and has begun none before the blob was parsed.         *)
THEOREM OutcomeTellsTheBundle == Call!Spec => []Call!Outcome
<1>1. Call!Init => Call!Outcome
  BY DEF Call!Init, Call!Outcome
<1>2. Call!Outcome /\ [Call!Next]_(Call!vars) => Call!Outcome'
  BY DEF Call!Outcome, Call!Next, Call!vars, Call!Parse, Call!Begin, Call!Complete, Call!Fail
<1>3. QED
  BY <1>1, <1>2, PTL DEF Call!Spec
=============================================================================
