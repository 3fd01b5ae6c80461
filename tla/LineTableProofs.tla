---------------------------- MODULE LineTableProofs ----------------------------
(***************************************************************************)
(* The line table of every file, of any length.                            *)
(***************************************************************************)
EXTENDS LineTable, TLAPS

LEMMA AppendOne ==
  ASSUME NEW S, NEW s \in Seq(S), NEW e \in S
  PROVE  /\ Append(s, e) \in Seq(S)
         /\ Append(s, e)[Len(s) + 1] = e
         /\ \A k \in 1..Len(s) : Append(s, e)[k] = s[k]
         /\ Len(Append(s, e)) = Len(s) + 1
  OBVIOUS

LEMMA EmptyLength ==
  ASSUME NEW S, NEW s \in Seq(S)
  PROVE  Len(s) \in Nat /\ (s = <<>> <=> Len(s) = 0)
  OBVIOUS

LEMMA SaturatingType ==
  ASSUME NEW n \in Nat
  PROVE  Saturating(n) \in 0..MaxLen /\ (Saturating(n) = 0 <=> n = 0)
  BY LineTableAssumption DEF Saturating

LastEnd == IF ends = <<>> THEN 0 ELSE ends[Len(ends)]

(* The ends are the newlines scanned so far, in order.                     *)
EndsInv ==
    /\ \A k \in 1..Len(ends) : ends[k] \in 1..i /\ bytes[ends[k]] = NL
    /\ \A p \in 1..i : bytes[p] = NL => \E k \in 1..Len(ends) : ends[k] = p
    /\ \A j, k \in 1..Len(ends) : j < k => ends[j] < ends[k]

(* The table has the width of every finished line; the line being scanned  *)
(* is as long as the counter says.                                         *)
WidthsInv ==
    /\ \A k \in 1..Len(ends) : lines[k] = Saturating(Width(k)) /\ Width(k) \in Nat
    /\ stage = "scan" => Len(lines) = Len(ends)
    /\ current_len = Saturating(i - LastEnd)
    /\ LastEnd \in 0..i

FixInv ==
    stage = "fix" =>
        /\ i = Len(bytes)
        /\ Len(lines) = Len(ends) + (IF EndsInNewline THEN 0 ELSE 1)
        /\ \A k \in 1..Len(lines) : lines[k] = Saturating(Width(k)) /\ Width(k) \in Nat
        /\ lines # <<>>

ScanInv ==
    /\ TypeOK /\ EndsInv
    /\ stage = "scan" => WidthsInv
    /\ FixInv
    /\ TableDescribesFile /\ TableIsUsable

LEMMA InitScanInv == Init => ScanInv
  BY LineTableAssumption
     DEF Init, ScanInv, TypeOK, EndsInv, WidthsInv, FixInv, LastEnd, Saturating,
         TableDescribesFile, TableIsUsable

LEMMA ScanScanInv ==
  ASSUME ScanInv, Scan
  PROVE  ScanInv'
<1>1. /\ stage = "scan" /\ stage' = "scan" /\ i \in 0..Len(bytes) /\ i < Len(bytes) /\ i' = i + 1
      /\ bytes' = bytes /\ bytes \in Files /\ bytes \in Seq(Bytes)
      /\ lines \in Seq(0..MaxLen) /\ ends \in Seq(Nat) /\ current_len \in 0..MaxLen
      /\ EndsInv /\ WidthsInv
  BY LineTableAssumption DEF Scan, ScanInv, TypeOK
<1>2. i \in Nat /\ i + 1 \in Nat /\ i + 1 \in 1..Len(bytes) /\ Len(ends) \in Nat /\ Len(bytes) \in Nat
  BY <1>1
<1>3. CASE bytes[i + 1] = NL
  <2>1. lines' = Append(lines, current_len) /\ ends' = Append(ends, i + 1) /\ current_len' = 0
    BY <1>3 DEF Scan
  <2>2. /\ ends' \in Seq(Nat) /\ ends'[Len(ends) + 1] = i + 1
        /\ \A k \in 1..Len(ends) : ends'[k] = ends[k]
        /\ Len(ends') = Len(ends) + 1
    BY <1>1, <1>2, <2>1, AppendOne
  <2>3. /\ lines' \in Seq(0..MaxLen) /\ lines'[Len(lines) + 1] = current_len
        /\ \A k \in 1..Len(lines) : lines'[k] = lines[k]
        /\ Len(lines') = Len(lines) + 1
    BY <1>1, <2>1, AppendOne
  <2>4. TypeOK'
    BY <1>1, <1>2, <2>1, <2>2, <2>3, LineTableAssumption DEF TypeOK
  <2>p. PICK n \in Nat : n = Len(ends)
    BY <1>2
  <2>5. EndsInv'
    <3>1. ASSUME NEW k \in 1..Len(ends') PROVE ends'[k] \in 1..i' /\ bytes'[ends'[k]] = NL
      <4>1. CASE k \in 1..Len(ends)
        <5>1. ends'[k] = ends[k] /\ ends[k] \in 1..i /\ bytes[ends[k]] = NL
          BY <1>1, <2>2, <4>1 DEF EndsInv
        <5>2. QED
          BY <1>1, <1>2, <5>1
      <4>2. CASE k = Len(ends) + 1
        BY <1>1, <1>2, <1>3, <2>2, <4>2
      <4>3. QED
        BY <1>2, <2>2, <4>1, <4>2
    <3>2. ASSUME NEW p \in 1..i', bytes'[p] = NL PROVE \E k \in 1..Len(ends') : ends'[k] = p
      <4>1. CASE p = i + 1
        BY <1>2, <2>2, <4>1
      <4>2. CASE p # i + 1
        <5>1. p \in 1..i
          BY <1>1, <1>2, <4>2
        <5>2. PICK k \in 1..Len(ends) : ends[k] = p
          BY <1>1, <3>2, <5>1 DEF EndsInv
        <5>3. k \in 1..Len(ends') /\ ends'[k] = p
          BY <1>2, <2>2, <5>2
        <5>4. QED
          BY <5>3
      <4>3. QED
        BY <4>1, <4>2
    <3>3. ASSUME NEW j \in 1..Len(ends'), NEW k \in 1..Len(ends'), j < k
          PROVE  ends'[j] < ends'[k]
      <4>0. j \in 1..Len(ends)
        BY <1>2, <2>2, <3>3
      <4>1. j \in 1..Len(ends) /\ ends'[j] = ends[j] /\ ends[j] \in 1..i
        BY <1>1, <2>2, <4>0 DEF EndsInv
      <4>2. CASE k \in 1..Len(ends)
        BY <1>1, <2>2, <3>3, <4>1, <4>2 DEF EndsInv
      <4>3. CASE k = Len(ends) + 1
        BY <1>2, <2>2, <4>1, <4>3
      <4>4. QED
        BY <1>2, <2>2, <4>2, <4>3
    <3>4. QED
      BY <3>1, <3>2, <3>3 DEF EndsInv
  <2>6. LastEnd' = i + 1
    BY <1>1, <2>2 DEF LastEnd
  <2>7. Len(lines) = Len(ends)
    BY <1>1 DEF WidthsInv
  <2>a. ASSUME NEW k \in 0..n PROVE LineEnd(k)' = LineEnd(k)
    BY <1>2, <2>2, <2>p DEF LineEnd
  <2>8. ASSUME NEW k \in 1..n PROVE Width(k)' = Width(k)
    <3>1. k \in 0..n /\ k - 1 \in 0..n
      BY <2>p
    <3>2. LineEnd(k)' = LineEnd(k) /\ LineEnd(k - 1)' = LineEnd(k - 1)
      BY <2>a, <3>1
    <3>3. QED
      BY <3>2 DEF Width
  <2>9. Width(n + 1)' = i - LastEnd
    <3>1. LineEnd(n + 1)' = i + 1
      BY <1>2, <2>2, <2>p DEF LineEnd
    <3>2. LineEnd(n) = LastEnd
      BY <1>1, <1>2, <2>p DEF LineEnd, LastEnd
    <3>3. LastEnd \in Nat /\ LineEnd(n)' = LineEnd(n) /\ n + 1 - 1 = n
      BY <1>1, <1>2, <2>a, <2>p DEF WidthsInv
    <3>4. QED
      BY <1>2, <3>1, <3>2, <3>3 DEF Width
  <2>10. WidthsInv'
    <3>1. ASSUME NEW k \in 1..Len(ends')
          PROVE  lines'[k] = Saturating(Width(k)') /\ Width(k)' \in Nat
      <4>1. CASE k \in 1..Len(ends)
        BY <1>1, <2>p, <2>3, <2>7, <2>8, <4>1 DEF WidthsInv
      <4>2. CASE k = Len(ends) + 1
        <5>1. k = n + 1 /\ Width(k)' = i - LastEnd /\ lines'[k] = current_len
          BY <2>p, <2>3, <2>7, <2>9, <4>2
        <5>2. current_len = Saturating(i - LastEnd) /\ i - LastEnd \in Nat
          BY <1>1, <1>2 DEF WidthsInv
        <5>3. QED
          BY <5>1, <5>2
      <4>3. QED
        BY <1>2, <2>2, <4>1, <4>2
    <3>2. current_len' = Saturating(i' - LastEnd')
      BY <1>1, <1>2, <2>1, <2>6, LineTableAssumption DEF Saturating
    <3>3. QED
      BY <1>1, <1>2, <2>2, <2>3, <2>6, <2>7, <3>1, <3>2 DEF WidthsInv, Saturating
  <2>11. QED
    BY <1>1, <2>4, <2>5, <2>10 DEF ScanInv, FixInv, TableDescribesFile, TableIsUsable
<1>4. CASE bytes[i + 1] # NL
  <2>1. lines' = lines /\ ends' = ends /\ current_len' = Saturating(current_len + 1)
    BY <1>4 DEF Scan
  <2>2. TypeOK'
    BY <1>1, <1>2, <2>1, SaturatingType DEF TypeOK
  <2>3. EndsInv'
    <3>1. ASSUME NEW k \in 1..Len(ends') PROVE ends'[k] \in 1..i' /\ bytes'[ends'[k]] = NL
      <4>1. ends[k] \in 1..i /\ bytes[ends[k]] = NL
        BY <1>1, <2>1, <3>1 DEF EndsInv
      <4>2. QED
        BY <1>1, <1>2, <2>1, <4>1
    <3>2. ASSUME NEW p \in 1..i', bytes'[p] = NL PROVE \E k \in 1..Len(ends') : ends'[k] = p
      <4>1. p \in 1..i
        BY <1>1, <1>2, <1>4, <3>2
      <4>2. QED
        BY <1>1, <2>1, <3>2, <4>1 DEF EndsInv
    <3>3. \A j, k \in 1..Len(ends') : j < k => ends'[j] < ends'[k]
      BY <1>1, <2>1 DEF EndsInv
    <3>4. QED
      BY <3>1, <3>2, <3>3 DEF EndsInv
  <2>a. bytes' = bytes /\ ends' = ends
    BY <1>1, <2>1
  <2>b. LastEnd' = LastEnd
    BY <2>a DEF LastEnd
  <2>c. ASSUME NEW k \in Int PROVE LineEnd(k)' = LineEnd(k)
    BY <2>a DEF LineEnd
  <2>d. ASSUME NEW k \in Nat PROVE Width(k)' = Width(k)
    BY <2>c DEF Width
  <2>4. LastEnd' = LastEnd /\ \A k \in Nat : Width(k)' = Width(k)
    BY <2>b, <2>d
  <2>5. LastEnd \in 0..i /\ current_len = Saturating(i - LastEnd)
    BY <1>1 DEF WidthsInv
  <2>6. current_len' = Saturating(i' - LastEnd)
    BY <1>1, <1>2, <2>1, <2>5, LineTableAssumption DEF Saturating
  <2>7. WidthsInv'
    BY <1>1, <1>2, <2>1, <2>4, <2>5, <2>6 DEF WidthsInv, Saturating
  <2>8. QED
    BY <1>1, <2>2, <2>3, <2>7 DEF ScanInv, FixInv, TableDescribesFile, TableIsUsable
<1>5. QED
  BY <1>3, <1>4

LEMMA LastLineScanInv ==
  ASSUME ScanInv, LastLine
  PROVE  ScanInv'
<1>1. /\ stage = "scan" /\ stage' = "fix" /\ i = Len(bytes) /\ i' = i
      /\ bytes' = bytes /\ ends' = ends /\ current_len' = current_len
      /\ bytes \in Seq(Bytes) /\ lines \in Seq(0..MaxLen) /\ ends \in Seq(Nat)
      /\ current_len \in 0..MaxLen /\ TypeOK /\ EndsInv /\ WidthsInv
  BY LineTableAssumption DEF LastLine, ScanInv, TypeOK
<1>p. PICK n \in Nat : n = Len(ends) /\ n = Len(lines)
  BY <1>1 DEF WidthsInv
<1>2. ASSUME NEW k \in Nat PROVE Width(k)' = Width(k)
  <2>1. ASSUME NEW j \in Int PROVE LineEnd(j)' = LineEnd(j)
    BY <1>1 DEF LineEnd
  <2>2. QED
    BY <2>1 DEF Width
<1>3. LastEnd \in 0..i /\ current_len = Saturating(i - LastEnd)
  BY <1>1 DEF WidthsInv
<1>4. EndsInNewline => LastEnd = i
  <2>1. SUFFICES ASSUME EndsInNewline PROVE LastEnd = i
    OBVIOUS
  <2>2. i \in 1..i /\ bytes[i] = NL
    BY <1>1, <2>1 DEF EndsInNewline
  <2>3. PICK k \in 1..Len(ends) : ends[k] = i
    BY <1>1, <2>2 DEF EndsInv
  <2>a. n \in 1..Len(ends)
    BY <1>p, <2>3
  <2>b. ends # <<>>
    <3>1. Len(ends) = 0 <=> ends = <<>>
      BY <1>1, EmptyLength
    <3>2. QED
      BY <2>a, <3>1
  <2>4. /\ n \in 1..Len(ends) /\ ends # <<>> /\ LastEnd = ends[n]
    BY <1>p, <2>a, <2>b DEF LastEnd
  <2>5. CASE k = n
    BY <2>3, <2>4, <2>5
  <2>6. CASE k # n
    <3>1. k < n
      BY <1>p, <2>6
    <3>2. ends[k] < ends[n]
      BY <1>1, <2>4, <3>1 DEF EndsInv
    <3>3. ends[n] \in 1..i
      BY <1>1, <2>4 DEF EndsInv
    <3>4. QED
      BY <1>1, <2>3, <3>2, <3>3
  <2>7. QED
    BY <2>5, <2>6
<1>5. i - LastEnd \in Nat /\ (current_len = 0 <=> i - LastEnd = 0)
  <2>1. i - LastEnd \in Nat
    BY <1>1, <1>3
  <2>2. QED
    BY <1>3, <2>1, SaturatingType
<1>6. current_len > 0 => ~EndsInNewline
  BY <1>1, <1>3, <1>4, <1>5
<1>7. lines' = IF EndsInNewline THEN lines ELSE Append(lines, current_len)
  BY <1>6 DEF LastLine
<1>8. EndsInNewline' = EndsInNewline
  BY <1>1 DEF EndsInNewline
<1>9. EndsInNewline => n > 0
  <2>1. SUFFICES ASSUME EndsInNewline PROVE n > 0
    OBVIOUS
  <2>2. i \in 1..i /\ bytes[i] = NL
    BY <1>1, <2>1 DEF EndsInNewline
  <2>3. PICK k \in 1..Len(ends) : ends[k] = i
    BY <1>1, <2>2 DEF EndsInv
  <2>4. QED
    BY <1>p, <2>3
<1>10. /\ lines' \in Seq(0..MaxLen) /\ lines' # <<>>
       /\ Len(lines') = Len(ends') + (IF EndsInNewline' THEN 0 ELSE 1)
       /\ \A k \in 1..n : lines'[k] = lines[k]
       /\ ~EndsInNewline => lines'[n + 1] = current_len
  <2>1. CASE EndsInNewline
    BY <1>1, <1>p, <1>7, <1>8, <1>9, <2>1
  <2>2. CASE ~EndsInNewline
    <3> DEFINE t == Append(lines, current_len)
    <3>1. /\ t \in Seq(0..MaxLen) /\ t[Len(lines) + 1] = current_len
          /\ \A k \in 1..Len(lines) : t[k] = lines[k]
          /\ Len(t) = Len(lines) + 1
      BY <1>1, AppendOne
    <3>2. lines' = t
      BY <1>7, <2>2
    <3> HIDE DEF t
    <3>3. t # <<>>
      BY <1>1, <3>1
    <3>4. QED
      BY <1>1, <1>p, <1>8, <2>2, <3>1, <3>2, <3>3
  <2>3. QED
    BY <2>1, <2>2
<1>11. ASSUME NEW k \in 1..Len(lines') PROVE lines'[k] = Saturating(Width(k)') /\ Width(k)' \in Nat
  <2>0. k \in Nat /\ Width(k)' = Width(k)
    BY <1>2, <1>10
  <2>1. CASE k \in 1..n
    <3>1. lines'[k] = lines[k]
      BY <1>10, <2>1
    <3>2. lines[k] = Saturating(Width(k)) /\ Width(k) \in Nat
      BY <1>1, <1>p, <2>1 DEF WidthsInv
    <3>3. QED
      BY <2>0, <3>1, <3>2
  <2>2. CASE k \notin 1..n
    <3>1. ~EndsInNewline /\ k = n + 1 /\ lines'[k] = current_len
      <4>1. Len(lines') = n + (IF EndsInNewline THEN 0 ELSE 1)
        BY <1>1, <1>p, <1>8, <1>10
      <4>2. ~EndsInNewline /\ k = n + 1
        BY <1>p, <2>2, <4>1
      <4>3. QED
        BY <1>10, <4>2
    <3>a. n + 1 - 1 = n /\ n + 1 # 0 /\ n + 1 \notin 1..Len(ends) /\ (n = 0 <=> ends = <<>>)
      <4>1. Len(ends) = 0 <=> ends = <<>>
        BY <1>1, EmptyLength
      <4>2. QED
        BY <1>p, <4>1
    <3>b. LineEnd(n) = LastEnd
      BY <1>p, <3>a DEF LineEnd, LastEnd
    <3>2. LineEnd(n + 1) = i + 1 /\ LineEnd(n) = LastEnd /\ n + 1 - 1 = n
      BY <1>1, <3>a, <3>b DEF LineEnd
    <3>3. Width(n + 1) = i - LastEnd
      BY <1>1, <1>3, <3>2 DEF Width
    <3>4. QED
      BY <1>3, <1>5, <2>0, <3>1, <3>3
  <2>3. QED
    BY <2>1, <2>2
<1>12. EndsInv'
  BY <1>1 DEF EndsInv
<1>13. TypeOK'
  BY <1>1, <1>10 DEF TypeOK
<1>14. FixInv'
  BY <1>1, <1>10, <1>11 DEF FixInv
<1>15. QED
  BY <1>1, <1>12, <1>13, <1>14 DEF ScanInv, TableDescribesFile, TableIsUsable

LEMMA FirstPositionScanInv ==
  ASSUME ScanInv, FirstPosition
  PROVE  ScanInv'
<1>1. /\ stage = "fix" /\ UNCHANGED <<bytes, i, current_len, ends>>
      /\ i = Len(bytes) /\ bytes \in Seq(Bytes)
      /\ lines \in Seq(0..MaxLen) /\ lines # <<>> /\ ends \in Seq(Nat)
      /\ TypeOK /\ EndsInv /\ FixInv
  BY LineTableAssumption DEF FirstPosition, ScanInv, TypeOK, FixInv
<1>2. ASSUME NEW k \in Nat PROVE Width(k)' = Width(k)
  <2>1. ASSUME NEW j \in Int PROVE LineEnd(j)' = LineEnd(j)
    BY <1>1 DEF LineEnd
  <2>2. QED
    BY <2>1 DEF Width
<1>3. ASSUME NEW k \in 1..Len(lines)
      PROVE  /\ lines[k] = Saturating(Width(k)) /\ Width(k) \in Nat
             /\ lines[k] = 0 <=> Width(k) = 0
             /\ lines[k] \in 0..MaxLen
  BY <1>1, SaturatingType DEF FixInv
<1>4. Blank <=> \A k \in 1..Len(lines) : lines[k] = 0
  BY <1>3 DEF Blank
<1>5. /\ stage' = "done" /\ Len(lines') = Len(lines)
      /\ lines' = IF Blank THEN [lines EXCEPT ![1] = 1] ELSE lines
  <2>1. (\E k \in 1..Len(lines) : lines[k] # 0) <=> ~Blank
    BY <1>4
  <2>2. CASE Blank
    <3>1. stage' = "done" /\ lines' = [lines EXCEPT ![1] = 1]
      BY <1>1, <2>1, <2>2 DEF FirstPosition
    <3>2. Len(lines') = Len(lines)
      BY <1>1, <3>1
    <3>3. QED
      BY <2>2, <3>1, <3>2
  <2>3. CASE ~Blank
    BY <2>1, <2>3 DEF FirstPosition
  <2>4. QED
    BY <2>2, <2>3
<1>6. lines' \in Seq(0..MaxLen) /\ 1 \in 1..Len(lines)
  <2>1. 1 \in 1..Len(lines) /\ 1 \in 0..MaxLen
    BY <1>1, EmptyLength, LineTableAssumption
  <2>2. [lines EXCEPT ![1] = 1] \in Seq(0..MaxLen)
    BY <1>1, <2>1
  <2>3. QED
    BY <1>1, <1>5, <2>1, <2>2
<1>7. ASSUME NEW k \in 1..Len(lines)
      PROVE  lines'[k] = IF Blank /\ k = 1 THEN 1 ELSE Saturating(Width(k))
  BY <1>1, <1>3, <1>5, <1>7
<1>8. Blank' = Blank
  <2>1. \A k \in 1..Len(lines) : Width(k)' = Width(k)
    BY <1>1, <1>2
  <2>2. QED
    BY <1>5, <2>1 DEF Blank
<1>9. EndsInNewline' = EndsInNewline
  BY <1>1 DEF EndsInNewline
<1>10. TableDescribesFile'
  <2>1. {ends[k] : k \in 1..Len(ends)} = {p \in 1..Len(bytes) : bytes[p] = NL}
    <3>1. ASSUME NEW k \in 1..Len(ends) PROVE ends[k] \in {p \in 1..Len(bytes) : bytes[p] = NL}
      BY <1>1 DEF EndsInv
    <3>2. ASSUME NEW p \in 1..Len(bytes), bytes[p] = NL PROVE p \in {ends[k] : k \in 1..Len(ends)}
      BY <1>1, <3>2 DEF EndsInv
    <3>3. QED
      BY <3>1, <3>2
  <2>2. \A j, k \in 1..Len(ends) : j < k => ends[j] < ends[k]
    BY <1>1 DEF EndsInv
  <2>3. Len(lines) = Len(ends) + (IF EndsInNewline THEN 0 ELSE 1)
    BY <1>1 DEF FixInv
  <2>4. ASSUME NEW k \in 1..Len(lines')
        PROVE  lines'[k] = IF Blank' /\ k = 1 THEN 1 ELSE Saturating(Width(k)')
    BY <1>1, <1>2, <1>5, <1>7, <1>8
  <2>5. QED
    BY <1>1, <1>5, <1>9, <2>1, <2>2, <2>3, <2>4 DEF TableDescribesFile
<1>11. TableIsUsable'
  <2>1. CASE Blank
    BY <1>5, <1>6, <1>7, <2>1 DEF TableIsUsable
  <2>2. CASE ~Blank
    <3>1. PICK k \in 1..Len(lines) : lines[k] # 0
      BY <1>4, <2>2
    <3>2. lines[k] > 0 /\ lines' = lines
      BY <1>3, <1>5, <2>2, <3>1, LineTableAssumption
    <3>3. QED
      BY <1>5, <3>1, <3>2 DEF TableIsUsable
  <2>3. QED
    BY <2>1, <2>2
<1>12. EndsInv' /\ TypeOK'
  BY <1>1, <1>5, <1>6 DEF EndsInv, TypeOK
<1>13. QED
  BY <1>5, <1>10, <1>11, <1>12 DEF ScanInv, FixInv

LEMMA ScanInvariant == Spec => []ScanInv
<1>1. ScanInv /\ [Next]_vars => ScanInv'
  <2>1. ASSUME ScanInv, UNCHANGED vars PROVE ScanInv'
    BY <2>1 DEF vars, ScanInv, TypeOK, EndsInv, WidthsInv, FixInv, TableDescribesFile,
                TableIsUsable, Width, LineEnd, LastEnd, Blank, EndsInNewline
  <2>2. QED
    BY <2>1, ScanScanInv, LastLineScanInv, FirstPositionScanInv DEF Next, Finished
<1>2. QED
  BY <1>1, InitScanInv, PTL DEF Spec

(* No width of any line of any file leaves the u32.                        *)
THEOREM WidthsNeverOverflow == Spec => []TypeOK
  BY ScanInvariant, PTL DEF ScanInv

(* The table of every file describes it line by line.                      *)
THEOREM TableDescribesEveryFile == Spec => []TableDescribesFile
  BY ScanInvariant, PTL DEF ScanInv

(* The table of every file, of an empty or blank one too, has a position   *)
(* to give, and the write to lines[0] never panics.                        *)
THEOREM TableIsAlwaysUsable == Spec => []TableIsUsable
  BY ScanInvariant, PTL DEF ScanInv
=============================================================================
