-------------------------- MODULE Admission_proofs --------------------------
(***************************************************************************)
(* The server's decision about a stream, for every address there is and    *)
(* every configuration, and the invariants of Admission that rest on it.   *)
(***************************************************************************)
EXTENDS Admission, WellFoundedInduction, TLAPS

-----------------------------------------------------------------------------
(* Networks.  A network of the table fixes k words and all but f bits of the *)
(* next one; the words behind are free.                                      *)

Fixed(w, l, i) == l - (i - 1) * w
Free(w, l, i) ==
  IF Fixed(w, l, i) >= w THEN 0 ELSE IF Fixed(w, l, i) <= 0 THEN w ELSE w - Fixed(w, l, i)
Same(x, y, free) == x \div 2^free = y \div 2^free

LEMMA NetFields ==
  ASSUME NEW n, NEW l
  PROVE  Net(n, l).net = n /\ Net(n, l).len = l
  BY DEF Net

LEMMA InNetWords ==
  ASSUME NEW a, NEW n, NEW l
  PROVE  InNet(a, Net(n, l)) <=>
           /\ Len(a) = Len(n)
           /\ \A i \in 1 .. Len(a) : Same(a[i], n[i], Free(IF Len(a) = 4 THEN 8 ELSE 16, l, i))
  BY NetFields DEF InNet, Same, Free, Fixed

LEMMA Words4 ==
  ASSUME NEW a \in V4
  PROVE  Len(a) = 4 /\ \A i \in 1 .. 4 : a[i] \in Byte
<1>1. Len(a) = 4
  BY SMT DEF V4
<1>2. \A i \in 1 .. 4 : a[i] \in Byte
  BY SMT DEF V4
<1> QED
  BY <1>1, <1>2

LEMMA Bounds8 ==
  ASSUME NEW x \in Byte
  PROVE  x \in Int /\ 0 <= x /\ x < 256
  BY SMT DEF Byte

LEMMA Same8 ==
  ASSUME NEW x \in Byte, NEW y \in Byte
  PROVE  Same(x, y, 8) /\ (Same(x, y, 0) <=> x = y)
<1>1. 2^0 = 1
  BY SMT
<1>2. 2^8 = 256
  BY SMT
<1>3. \A z \in Int : 0 <= z /\ z < 256 => z \div 256 = 0
  BY SMT
<1>4. x \div 256 = 0 /\ y \div 256 = 0
  BY <1>3, Bounds8, SMT
<1>5. Same(x, y, 8)
  BY <1>2, <1>4, SMT DEF Same
<1>6. Same(x, y, 0) <=> x = y
  BY <1>1, Bounds8, SMT DEF Same
<1> QED
  BY <1>5, <1>6

LEMMA Free8 ==
  ASSUME NEW k \in 0 .. 3, NEW f \in 0 .. 7, NEW i \in 1 .. 4, NEW l, l = 8 * k + 8 - f
  PROVE  Free(8, l, i) = IF i <= k THEN 0 ELSE IF i = k + 1 THEN f ELSE 8
<1>1. Fixed(8, l, i) = 8 * k + 16 - f - 8 * i
  BY SMT DEF Fixed
<1> QED
  BY <1>1, SMT DEF Free

LEMMA Prefix4 ==
  ASSUME NEW a \in V4, NEW n \in V4, NEW k \in 0 .. 3, NEW f \in 0 .. 7, NEW l, l = 8 * k + 8 - f
  PROVE  InNet(a, Net(n, l)) <=> (\A i \in 1 .. k : a[i] = n[i]) /\ Same(a[k + 1], n[k + 1], f)
<1>1. InNet(a, Net(n, l)) <=> \A i \in 1 .. 4 : Same(a[i], n[i], Free(8, l, i))
  <2>1. Len(a) = 4 /\ Len(n) = 4
    BY Words4
  <2>2. InNet(a, Net(n, l)) <=>
          /\ Len(a) = Len(n)
          /\ \A i \in 1 .. Len(a) : Same(a[i], n[i], Free(IF Len(a) = 4 THEN 8 ELSE 16, l, i))
    BY InNetWords
  <2> QED
    BY <2>1, <2>2, SMT
<1>2. \A i \in 1 .. 4 : Same(a[i], n[i], Free(8, l, i)) <=>
        IF i <= k THEN a[i] = n[i] ELSE IF i = k + 1 THEN Same(a[i], n[i], f) ELSE TRUE
  <2> SUFFICES ASSUME NEW i \in 1 .. 4
               PROVE  Same(a[i], n[i], Free(8, l, i)) <=>
                        IF i <= k THEN a[i] = n[i] ELSE IF i = k + 1 THEN Same(a[i], n[i], f) ELSE TRUE
    OBVIOUS
  <2>1. Free(8, l, i) = IF i <= k THEN 0 ELSE IF i = k + 1 THEN f ELSE 8
    BY Free8, SMT
  <2>2. a[i] \in Byte /\ n[i] \in Byte
    BY Words4, SMT
  <2>3. Same(a[i], n[i], 8) /\ (Same(a[i], n[i], 0) <=> a[i] = n[i])
    BY <2>2, Same8, SMT
  <2> QED
    BY <2>1, <2>3, SMT
<1> QED
  BY <1>1, <1>2, SMT

LEMMA Words8 ==
  ASSUME NEW a \in V6
  PROVE  Len(a) = 8 /\ \A i \in 1 .. 8 : a[i] \in U16
<1>1. a \in [1 .. 8 -> U16]
  BY Zenon DEF V6
<1>2. Len(a) = 8
  BY <1>1, SMT
<1>3. \A i \in 1 .. 8 : a[i] \in U16
  BY <1>1, Zenon
<1> QED
  BY <1>2, <1>3

LEMMA Top16 == U16Max \in Int /\ U16Max = 65535
  BY SMT DEF U16Max

LEMMA Bounds16 ==
  ASSUME NEW x \in U16
  PROVE  x \in Int /\ 0 <= x /\ x < 65536
<1>1. U16Max \in Int
  BY Top16
<1>2. x \in Int /\ 0 <= x /\ x <= U16Max
  BY <1>1, SMT DEF U16
<1> QED
  BY <1>2, Top16, SMT

LEMMA Same16 ==
  ASSUME NEW x \in U16, NEW y \in U16
  PROVE  Same(x, y, 16) /\ (Same(x, y, 0) <=> x = y)
<1>1. 2^0 = 1
  BY SMT
<1>2. 2^16 = 65536
  BY SMT
<1>3. \A z \in Int : 0 <= z /\ z < 65536 => z \div 65536 = 0
  BY SMT
<1>4. x \div 65536 = 0 /\ y \div 65536 = 0
  BY <1>3, Bounds16, SMT
<1>5. Same(x, y, 16)
  BY <1>2, <1>4, SMT DEF Same
<1>6. Same(x, y, 0) <=> x = y
  BY <1>1, Bounds16, SMT DEF Same
<1> QED
  BY <1>5, <1>6

LEMMA Free16 ==
  ASSUME NEW k \in 0 .. 7, NEW f \in 0 .. 15, NEW i \in 1 .. 8, NEW l, l = 16 * k + 16 - f
  PROVE  Free(16, l, i) = IF i <= k THEN 0 ELSE IF i = k + 1 THEN f ELSE 16
<1>1. Fixed(16, l, i) = 16 * k + 32 - f - 16 * i
  BY SMT DEF Fixed
<1> QED
  BY <1>1, SMT DEF Free

LEMMA Prefix8 ==
  ASSUME NEW a \in V6, NEW n \in V6, NEW k \in 0 .. 7, NEW f \in 0 .. 15, NEW l, l = 16 * k + 16 - f
  PROVE  InNet(a, Net(n, l)) <=> (\A i \in 1 .. k : a[i] = n[i]) /\ Same(a[k + 1], n[k + 1], f)
<1>1. InNet(a, Net(n, l)) <=> \A i \in 1 .. 8 : Same(a[i], n[i], Free(16, l, i))
  <2>1. Len(a) = 8 /\ Len(n) = 8
    BY Words8
  <2>2. InNet(a, Net(n, l)) <=>
          /\ Len(a) = Len(n)
          /\ \A i \in 1 .. Len(a) : Same(a[i], n[i], Free(IF Len(a) = 4 THEN 8 ELSE 16, l, i))
    BY InNetWords
  <2> QED
    BY <2>1, <2>2, SMT
<1>2. \A i \in 1 .. 8 : Same(a[i], n[i], Free(16, l, i)) <=>
        IF i <= k THEN a[i] = n[i] ELSE IF i = k + 1 THEN Same(a[i], n[i], f) ELSE TRUE
  <2> SUFFICES ASSUME NEW i \in 1 .. 8
               PROVE  Same(a[i], n[i], Free(16, l, i)) <=>
                        IF i <= k THEN a[i] = n[i] ELSE IF i = k + 1 THEN Same(a[i], n[i], f) ELSE TRUE
    OBVIOUS
  <2>1. Free(16, l, i) = IF i <= k THEN 0 ELSE IF i = k + 1 THEN f ELSE 16
    BY Free16, SMT
  <2>2. a[i] \in U16 /\ n[i] \in U16
    BY Words8, SMT
  <2>3. Same(a[i], n[i], 16) /\ (Same(a[i], n[i], 0) <=> a[i] = n[i])
    BY <2>2, Same16, SMT
  <2> QED
    BY <2>1, <2>3, SMT
<1> QED
  BY <1>1, <1>2, SMT

LEMMA Table4 ==
  ASSUME NEW a \in V4
  PROVE  /\ InNet(a, Net(<<0,0,0,0>>, 8)) <=> a[1] = 0
         /\ InNet(a, Net(<<10,0,0,0>>, 8)) <=> a[1] = 10
         /\ InNet(a, Net(<<100,64,0,0>>, 10)) <=> a[1] = 100 /\ a[2] \div 64 = 1
         /\ InNet(a, Net(<<127,0,0,0>>, 8)) <=> a[1] = 127
         /\ InNet(a, Net(<<169,254,0,0>>, 16)) <=> a[1] = 169 /\ a[2] = 254
         /\ InNet(a, Net(<<172,16,0,0>>, 12)) <=> a[1] = 172 /\ a[2] \div 16 = 1
         /\ InNet(a, Net(<<192,0,0,0>>, 24)) <=> a[1] = 192 /\ a[2] = 0 /\ a[3] = 0
         /\ InNet(a, Net(<<192,0,2,0>>, 24)) <=> a[1] = 192 /\ a[2] = 0 /\ a[3] = 2
         /\ InNet(a, Net(<<192,168,0,0>>, 16)) <=> a[1] = 192 /\ a[2] = 168
         /\ InNet(a, Net(<<198,18,0,0>>, 15)) <=> a[1] = 198 /\ a[2] \div 2 = 9
         /\ InNet(a, Net(<<198,51,100,0>>, 24)) <=> a[1] = 198 /\ a[2] = 51 /\ a[3] = 100
         /\ InNet(a, Net(<<203,0,113,0>>, 24)) <=> a[1] = 203 /\ a[2] = 0 /\ a[3] = 113
         /\ InNet(a, Net(<<240,0,0,0>>, 4)) <=> a[1] \div 16 = 15
         /\ InNet(a, Net(<<192,0,0,9>>, 32)) <=> a[1] = 192 /\ a[2] = 0 /\ a[3] = 0 /\ a[4] = 9
         /\ InNet(a, Net(<<192,0,0,10>>, 32)) <=> a[1] = 192 /\ a[2] = 0 /\ a[3] = 0 /\ a[4] = 10
         /\ InNet(a, Net(<<224,0,0,0>>, 4)) <=> a[1] \div 16 = 14
<1>1. InNet(a, Net(<<0,0,0,0>>, 8)) <=> a[1] = 0
  <2> DEFINE n == <<0,0,0,0>>
  <2>0. 0 \in Byte
    BY SMT DEF Byte
  <2>1. n \in V4 /\ n[1] = 0
    BY <2>0, SMT DEF V4
  <2> HIDE DEF n
  <2>2. 0 \in 0 .. 3 /\ 0 \in 0 .. 7 /\ 8 = 8 * 0 + 8 - 0
    BY SMT
  <2>3. InNet(a, Net(n, 8)) <=> (\A i \in 1 .. 0 : a[i] = n[i]) /\ Same(a[1], n[1], 0)
    BY <2>1, <2>2, Prefix4, SMT
  <2>4. Same(a[1], n[1], 0) <=> a[1] = n[1]
    BY <2>1, Words4, Same8, SMT
  <2>5. InNet(a, Net(n, 8)) <=> a[1] = 0
    BY <2>1, <2>3, <2>4, SMT
  <2> QED
    BY <2>5 DEF n
<1>2. InNet(a, Net(<<10,0,0,0>>, 8)) <=> a[1] = 10
  <2> DEFINE n == <<10,0,0,0>>
  <2>0. 0 \in Byte /\ 10 \in Byte
    BY SMT DEF Byte
  <2>1. n \in V4 /\ n[1] = 10
    BY <2>0, SMT DEF V4
  <2> HIDE DEF n
  <2>2. 0 \in 0 .. 3 /\ 0 \in 0 .. 7 /\ 8 = 8 * 0 + 8 - 0
    BY SMT
  <2>3. InNet(a, Net(n, 8)) <=> (\A i \in 1 .. 0 : a[i] = n[i]) /\ Same(a[1], n[1], 0)
    BY <2>1, <2>2, Prefix4, SMT
  <2>4. Same(a[1], n[1], 0) <=> a[1] = n[1]
    BY <2>1, Words4, Same8, SMT
  <2>5. InNet(a, Net(n, 8)) <=> a[1] = 10
    BY <2>1, <2>3, <2>4, SMT
  <2> QED
    BY <2>5 DEF n
<1>3. InNet(a, Net(<<100,64,0,0>>, 10)) <=> a[1] = 100 /\ a[2] \div 64 = 1
  <2> DEFINE n == <<100,64,0,0>>
  <2>0. 0 \in Byte /\ 64 \in Byte /\ 100 \in Byte
    BY SMT DEF Byte
  <2>1. n \in V4 /\ n[1] = 100 /\ n[2] = 64
    BY <2>0, SMT DEF V4
  <2> HIDE DEF n
  <2>2. 1 \in 0 .. 3 /\ 6 \in 0 .. 7 /\ 10 = 8 * 1 + 8 - 6
    BY SMT
  <2>3. InNet(a, Net(n, 10)) <=> (\A i \in 1 .. 1 : a[i] = n[i]) /\ Same(a[2], n[2], 6)
    BY <2>1, <2>2, Prefix4, SMT
  <2>4. Same(a[2], n[2], 6) <=> a[2] \div 64 = 1
    BY <2>1, SMT DEF Same
  <2>5. InNet(a, Net(n, 10)) <=> a[1] = 100 /\ a[2] \div 64 = 1
    BY <2>1, <2>3, <2>4, SMT
  <2> QED
    BY <2>5 DEF n
<1>4. InNet(a, Net(<<127,0,0,0>>, 8)) <=> a[1] = 127
  <2> DEFINE n == <<127,0,0,0>>
  <2>0. 0 \in Byte /\ 127 \in Byte
    BY SMT DEF Byte
  <2>1. n \in V4 /\ n[1] = 127
    BY <2>0, SMT DEF V4
  <2> HIDE DEF n
  <2>2. 0 \in 0 .. 3 /\ 0 \in 0 .. 7 /\ 8 = 8 * 0 + 8 - 0
    BY SMT
  <2>3. InNet(a, Net(n, 8)) <=> (\A i \in 1 .. 0 : a[i] = n[i]) /\ Same(a[1], n[1], 0)
    BY <2>1, <2>2, Prefix4, SMT
  <2>4. Same(a[1], n[1], 0) <=> a[1] = n[1]
    BY <2>1, Words4, Same8, SMT
  <2>5. InNet(a, Net(n, 8)) <=> a[1] = 127
    BY <2>1, <2>3, <2>4, SMT
  <2> QED
    BY <2>5 DEF n
<1>5. InNet(a, Net(<<169,254,0,0>>, 16)) <=> a[1] = 169 /\ a[2] = 254
  <2> DEFINE n == <<169,254,0,0>>
  <2>0. 0 \in Byte /\ 169 \in Byte /\ 254 \in Byte
    BY SMT DEF Byte
  <2>1. n \in V4 /\ n[1] = 169 /\ n[2] = 254
    BY <2>0, SMT DEF V4
  <2> HIDE DEF n
  <2>2. 1 \in 0 .. 3 /\ 0 \in 0 .. 7 /\ 16 = 8 * 1 + 8 - 0
    BY SMT
  <2>3. InNet(a, Net(n, 16)) <=> (\A i \in 1 .. 1 : a[i] = n[i]) /\ Same(a[2], n[2], 0)
    BY <2>1, <2>2, Prefix4, SMT
  <2>4. Same(a[2], n[2], 0) <=> a[2] = n[2]
    BY <2>1, Words4, Same8, SMT
  <2>5. InNet(a, Net(n, 16)) <=> a[1] = 169 /\ a[2] = 254
    BY <2>1, <2>3, <2>4, SMT
  <2> QED
    BY <2>5 DEF n
<1>6. InNet(a, Net(<<172,16,0,0>>, 12)) <=> a[1] = 172 /\ a[2] \div 16 = 1
  <2> DEFINE n == <<172,16,0,0>>
  <2>0. 0 \in Byte /\ 16 \in Byte /\ 172 \in Byte
    BY SMT DEF Byte
  <2>1. n \in V4 /\ n[1] = 172 /\ n[2] = 16
    BY <2>0, SMT DEF V4
  <2> HIDE DEF n
  <2>2. 1 \in 0 .. 3 /\ 4 \in 0 .. 7 /\ 12 = 8 * 1 + 8 - 4
    BY SMT
  <2>3. InNet(a, Net(n, 12)) <=> (\A i \in 1 .. 1 : a[i] = n[i]) /\ Same(a[2], n[2], 4)
    BY <2>1, <2>2, Prefix4, SMT
  <2>4. Same(a[2], n[2], 4) <=> a[2] \div 16 = 1
    BY <2>1, SMT DEF Same
  <2>5. InNet(a, Net(n, 12)) <=> a[1] = 172 /\ a[2] \div 16 = 1
    BY <2>1, <2>3, <2>4, SMT
  <2> QED
    BY <2>5 DEF n
<1>7. InNet(a, Net(<<192,0,0,0>>, 24)) <=> a[1] = 192 /\ a[2] = 0 /\ a[3] = 0
  <2> DEFINE n == <<192,0,0,0>>
  <2>0. 0 \in Byte /\ 192 \in Byte
    BY SMT DEF Byte
  <2>1. n \in V4 /\ n[1] = 192 /\ n[2] = 0 /\ n[3] = 0
    BY <2>0, SMT DEF V4
  <2> HIDE DEF n
  <2>2. 2 \in 0 .. 3 /\ 0 \in 0 .. 7 /\ 24 = 8 * 2 + 8 - 0
    BY SMT
  <2>3. InNet(a, Net(n, 24)) <=> (\A i \in 1 .. 2 : a[i] = n[i]) /\ Same(a[3], n[3], 0)
    BY <2>1, <2>2, Prefix4, SMT
  <2>4. Same(a[3], n[3], 0) <=> a[3] = n[3]
    BY <2>1, Words4, Same8, SMT
  <2>5. InNet(a, Net(n, 24)) <=> a[1] = 192 /\ a[2] = 0 /\ a[3] = 0
    BY <2>1, <2>3, <2>4, SMT
  <2> QED
    BY <2>5 DEF n
<1>8. InNet(a, Net(<<192,0,2,0>>, 24)) <=> a[1] = 192 /\ a[2] = 0 /\ a[3] = 2
  <2> DEFINE n == <<192,0,2,0>>
  <2>0. 0 \in Byte /\ 2 \in Byte /\ 192 \in Byte
    BY SMT DEF Byte
  <2>1. n \in V4 /\ n[1] = 192 /\ n[2] = 0 /\ n[3] = 2
    BY <2>0, SMT DEF V4
  <2> HIDE DEF n
  <2>2. 2 \in 0 .. 3 /\ 0 \in 0 .. 7 /\ 24 = 8 * 2 + 8 - 0
    BY SMT
  <2>3. InNet(a, Net(n, 24)) <=> (\A i \in 1 .. 2 : a[i] = n[i]) /\ Same(a[3], n[3], 0)
    BY <2>1, <2>2, Prefix4, SMT
  <2>4. Same(a[3], n[3], 0) <=> a[3] = n[3]
    BY <2>1, Words4, Same8, SMT
  <2>5. InNet(a, Net(n, 24)) <=> a[1] = 192 /\ a[2] = 0 /\ a[3] = 2
    BY <2>1, <2>3, <2>4, SMT
  <2> QED
    BY <2>5 DEF n
<1>9. InNet(a, Net(<<192,168,0,0>>, 16)) <=> a[1] = 192 /\ a[2] = 168
  <2> DEFINE n == <<192,168,0,0>>
  <2>0. 0 \in Byte /\ 168 \in Byte /\ 192 \in Byte
    BY SMT DEF Byte
  <2>1. n \in V4 /\ n[1] = 192 /\ n[2] = 168
    BY <2>0, SMT DEF V4
  <2> HIDE DEF n
  <2>2. 1 \in 0 .. 3 /\ 0 \in 0 .. 7 /\ 16 = 8 * 1 + 8 - 0
    BY SMT
  <2>3. InNet(a, Net(n, 16)) <=> (\A i \in 1 .. 1 : a[i] = n[i]) /\ Same(a[2], n[2], 0)
    BY <2>1, <2>2, Prefix4, SMT
  <2>4. Same(a[2], n[2], 0) <=> a[2] = n[2]
    BY <2>1, Words4, Same8, SMT
  <2>5. InNet(a, Net(n, 16)) <=> a[1] = 192 /\ a[2] = 168
    BY <2>1, <2>3, <2>4, SMT
  <2> QED
    BY <2>5 DEF n
<1>10. InNet(a, Net(<<198,18,0,0>>, 15)) <=> a[1] = 198 /\ a[2] \div 2 = 9
  <2> DEFINE n == <<198,18,0,0>>
  <2>0. 0 \in Byte /\ 18 \in Byte /\ 198 \in Byte
    BY SMT DEF Byte
  <2>1. n \in V4 /\ n[1] = 198 /\ n[2] = 18
    BY <2>0, SMT DEF V4
  <2> HIDE DEF n
  <2>2. 1 \in 0 .. 3 /\ 1 \in 0 .. 7 /\ 15 = 8 * 1 + 8 - 1
    BY SMT
  <2>3. InNet(a, Net(n, 15)) <=> (\A i \in 1 .. 1 : a[i] = n[i]) /\ Same(a[2], n[2], 1)
    BY <2>1, <2>2, Prefix4, SMT
  <2>4. Same(a[2], n[2], 1) <=> a[2] \div 2 = 9
    BY <2>1, SMT DEF Same
  <2>5. InNet(a, Net(n, 15)) <=> a[1] = 198 /\ a[2] \div 2 = 9
    BY <2>1, <2>3, <2>4, SMT
  <2> QED
    BY <2>5 DEF n
<1>11. InNet(a, Net(<<198,51,100,0>>, 24)) <=> a[1] = 198 /\ a[2] = 51 /\ a[3] = 100
  <2> DEFINE n == <<198,51,100,0>>
  <2>0. 0 \in Byte /\ 51 \in Byte /\ 100 \in Byte /\ 198 \in Byte
    BY SMT DEF Byte
  <2>1. n \in V4 /\ n[1] = 198 /\ n[2] = 51 /\ n[3] = 100
    BY <2>0, SMT DEF V4
  <2> HIDE DEF n
  <2>2. 2 \in 0 .. 3 /\ 0 \in 0 .. 7 /\ 24 = 8 * 2 + 8 - 0
    BY SMT
  <2>3. InNet(a, Net(n, 24)) <=> (\A i \in 1 .. 2 : a[i] = n[i]) /\ Same(a[3], n[3], 0)
    BY <2>1, <2>2, Prefix4, SMT
  <2>4. Same(a[3], n[3], 0) <=> a[3] = n[3]
    BY <2>1, Words4, Same8, SMT
  <2>5. InNet(a, Net(n, 24)) <=> a[1] = 198 /\ a[2] = 51 /\ a[3] = 100
    BY <2>1, <2>3, <2>4, SMT
  <2> QED
    BY <2>5 DEF n
<1>12. InNet(a, Net(<<203,0,113,0>>, 24)) <=> a[1] = 203 /\ a[2] = 0 /\ a[3] = 113
  <2> DEFINE n == <<203,0,113,0>>
  <2>0. 0 \in Byte /\ 113 \in Byte /\ 203 \in Byte
    BY SMT DEF Byte
  <2>1. n \in V4 /\ n[1] = 203 /\ n[2] = 0 /\ n[3] = 113
    BY <2>0, SMT DEF V4
  <2> HIDE DEF n
  <2>2. 2 \in 0 .. 3 /\ 0 \in 0 .. 7 /\ 24 = 8 * 2 + 8 - 0
    BY SMT
  <2>3. InNet(a, Net(n, 24)) <=> (\A i \in 1 .. 2 : a[i] = n[i]) /\ Same(a[3], n[3], 0)
    BY <2>1, <2>2, Prefix4, SMT
  <2>4. Same(a[3], n[3], 0) <=> a[3] = n[3]
    BY <2>1, Words4, Same8, SMT
  <2>5. InNet(a, Net(n, 24)) <=> a[1] = 203 /\ a[2] = 0 /\ a[3] = 113
    BY <2>1, <2>3, <2>4, SMT
  <2> QED
    BY <2>5 DEF n
<1>13. InNet(a, Net(<<240,0,0,0>>, 4)) <=> a[1] \div 16 = 15
  <2> DEFINE n == <<240,0,0,0>>
  <2>0. 0 \in Byte /\ 240 \in Byte
    BY SMT DEF Byte
  <2>1. n \in V4 /\ n[1] = 240
    BY <2>0, SMT DEF V4
  <2> HIDE DEF n
  <2>2. 0 \in 0 .. 3 /\ 4 \in 0 .. 7 /\ 4 = 8 * 0 + 8 - 4
    BY SMT
  <2>3. InNet(a, Net(n, 4)) <=> (\A i \in 1 .. 0 : a[i] = n[i]) /\ Same(a[1], n[1], 4)
    BY <2>1, <2>2, Prefix4, SMT
  <2>4. Same(a[1], n[1], 4) <=> a[1] \div 16 = 15
    BY <2>1, SMT DEF Same
  <2>5. InNet(a, Net(n, 4)) <=> a[1] \div 16 = 15
    BY <2>1, <2>3, <2>4, SMT
  <2> QED
    BY <2>5 DEF n
<1>14. InNet(a, Net(<<192,0,0,9>>, 32)) <=> a[1] = 192 /\ a[2] = 0 /\ a[3] = 0 /\ a[4] = 9
  <2> DEFINE n == <<192,0,0,9>>
  <2>0. 0 \in Byte /\ 9 \in Byte /\ 192 \in Byte
    BY SMT DEF Byte
  <2>1. n \in V4 /\ n[1] = 192 /\ n[2] = 0 /\ n[3] = 0 /\ n[4] = 9
    BY <2>0, SMT DEF V4
  <2> HIDE DEF n
  <2>2. 3 \in 0 .. 3 /\ 0 \in 0 .. 7 /\ 32 = 8 * 3 + 8 - 0
    BY SMT
  <2>3. InNet(a, Net(n, 32)) <=> (\A i \in 1 .. 3 : a[i] = n[i]) /\ Same(a[4], n[4], 0)
    BY <2>1, <2>2, Prefix4, SMT
  <2>4. Same(a[4], n[4], 0) <=> a[4] = n[4]
    BY <2>1, Words4, Same8, SMT
  <2>5. InNet(a, Net(n, 32)) <=> a[1] = 192 /\ a[2] = 0 /\ a[3] = 0 /\ a[4] = 9
    BY <2>1, <2>3, <2>4, SMT
  <2> QED
    BY <2>5 DEF n
<1>15. InNet(a, Net(<<192,0,0,10>>, 32)) <=> a[1] = 192 /\ a[2] = 0 /\ a[3] = 0 /\ a[4] = 10
  <2> DEFINE n == <<192,0,0,10>>
  <2>0. 0 \in Byte /\ 10 \in Byte /\ 192 \in Byte
    BY SMT DEF Byte
  <2>1. n \in V4 /\ n[1] = 192 /\ n[2] = 0 /\ n[3] = 0 /\ n[4] = 10
    BY <2>0, SMT DEF V4
  <2> HIDE DEF n
  <2>2. 3 \in 0 .. 3 /\ 0 \in 0 .. 7 /\ 32 = 8 * 3 + 8 - 0
    BY SMT
  <2>3. InNet(a, Net(n, 32)) <=> (\A i \in 1 .. 3 : a[i] = n[i]) /\ Same(a[4], n[4], 0)
    BY <2>1, <2>2, Prefix4, SMT
  <2>4. Same(a[4], n[4], 0) <=> a[4] = n[4]
    BY <2>1, Words4, Same8, SMT
  <2>5. InNet(a, Net(n, 32)) <=> a[1] = 192 /\ a[2] = 0 /\ a[3] = 0 /\ a[4] = 10
    BY <2>1, <2>3, <2>4, SMT
  <2> QED
    BY <2>5 DEF n
<1>16. InNet(a, Net(<<224,0,0,0>>, 4)) <=> a[1] \div 16 = 14
  <2> DEFINE n == <<224,0,0,0>>
  <2>0. 0 \in Byte /\ 224 \in Byte
    BY SMT DEF Byte
  <2>1. n \in V4 /\ n[1] = 224
    BY <2>0, SMT DEF V4
  <2> HIDE DEF n
  <2>2. 0 \in 0 .. 3 /\ 4 \in 0 .. 7 /\ 4 = 8 * 0 + 8 - 4
    BY SMT
  <2>3. InNet(a, Net(n, 4)) <=> (\A i \in 1 .. 0 : a[i] = n[i]) /\ Same(a[1], n[1], 4)
    BY <2>1, <2>2, Prefix4, SMT
  <2>4. Same(a[1], n[1], 4) <=> a[1] \div 16 = 14
    BY <2>1, SMT DEF Same
  <2>5. InNet(a, Net(n, 4)) <=> a[1] \div 16 = 14
    BY <2>1, <2>3, <2>4, SMT
  <2> QED
    BY <2>5 DEF n
<1> QED
  BY <1>1, <1>2, <1>3, <1>4, <1>5, <1>6, <1>7, <1>8, <1>9, <1>10, <1>11, <1>12, <1>13, <1>14, <1>15, <1>16

LEMMA Table8 ==
  ASSUME NEW a \in V6
  PROVE  /\ InNet(a, Net(<<0,0,0,0,0,0,0,0>>, 127)) <=> a[1] = 0 /\ a[2] = 0 /\ a[3] = 0 /\ a[4] = 0 /\ a[5] = 0 /\ a[6] = 0 /\ a[7] = 0 /\ a[8] \div 2 = 0
         /\ InNet(a, Net(<<0,0,0,0,0,65535,0,0>>, 96)) <=> a[1] = 0 /\ a[2] = 0 /\ a[3] = 0 /\ a[4] = 0 /\ a[5] = 0 /\ a[6] = 65535
         /\ InNet(a, Net(<<100,65435,1,0,0,0,0,0>>, 48)) <=> a[1] = 100 /\ a[2] = 65435 /\ a[3] = 1
         /\ InNet(a, Net(<<256,0,0,0,0,0,0,0>>, 64)) <=> a[1] = 256 /\ a[2] = 0 /\ a[3] = 0 /\ a[4] = 0
         /\ InNet(a, Net(<<8193,0,0,0,0,0,0,0>>, 23)) <=> a[1] = 8193 /\ a[2] \div 512 = 0
         /\ InNet(a, Net(<<8193,3512,0,0,0,0,0,0>>, 32)) <=> a[1] = 8193 /\ a[2] = 3512
         /\ InNet(a, Net(<<8194,0,0,0,0,0,0,0>>, 16)) <=> a[1] = 8194
         /\ InNet(a, Net(<<64512,0,0,0,0,0,0,0>>, 7)) <=> a[1] \div 512 = 126
         /\ InNet(a, Net(<<8193,1,0,0,0,0,0,1>>, 128)) <=> a[1] = 8193 /\ a[2] = 1 /\ a[3] = 0 /\ a[4] = 0 /\ a[5] = 0 /\ a[6] = 0 /\ a[7] = 0 /\ a[8] = 1
         /\ InNet(a, Net(<<8193,1,0,0,0,0,0,2>>, 128)) <=> a[1] = 8193 /\ a[2] = 1 /\ a[3] = 0 /\ a[4] = 0 /\ a[5] = 0 /\ a[6] = 0 /\ a[7] = 0 /\ a[8] = 2
         /\ InNet(a, Net(<<8193,3,0,0,0,0,0,0>>, 32)) <=> a[1] = 8193 /\ a[2] = 3
         /\ InNet(a, Net(<<8193,4,274,0,0,0,0,0>>, 48)) <=> a[1] = 8193 /\ a[2] = 4 /\ a[3] = 274
         /\ InNet(a, Net(<<8193,32,0,0,0,0,0,0>>, 28)) <=> a[1] = 8193 /\ a[2] \div 16 = 2
         /\ InNet(a, Net(<<8193,48,0,0,0,0,0,0>>, 28)) <=> a[1] = 8193 /\ a[2] \div 16 = 3
         /\ InNet(a, Net(<<0,0,0,0,0,0,0,1>>, 128)) <=> a[1] = 0 /\ a[2] = 0 /\ a[3] = 0 /\ a[4] = 0 /\ a[5] = 0 /\ a[6] = 0 /\ a[7] = 0 /\ a[8] = 1
         /\ InNet(a, Net(<<65280,0,0,0,0,0,0,0>>, 8)) <=> a[1] \div 256 = 255
         /\ InNet(a, Net(<<65152,0,0,0,0,0,0,0>>, 10)) <=> a[1] \div 64 = 1018
<1>1. InNet(a, Net(<<0,0,0,0,0,0,0,0>>, 127)) <=> a[1] = 0 /\ a[2] = 0 /\ a[3] = 0 /\ a[4] = 0 /\ a[5] = 0 /\ a[6] = 0 /\ a[7] = 0 /\ a[8] \div 2 = 0
  <2> DEFINE n == <<0,0,0,0,0,0,0,0>>
  <2>0. 0 \in U16
    BY SMT DEF U16, U16Max
  <2>1. n \in V6 /\ n[1] = 0 /\ n[2] = 0 /\ n[3] = 0 /\ n[4] = 0 /\ n[5] = 0 /\ n[6] = 0 /\ n[7] = 0 /\ n[8] = 0
    BY <2>0, SMT DEF V6
  <2> HIDE DEF n
  <2>2. 7 \in 0 .. 7 /\ 1 \in 0 .. 15 /\ 127 = 16 * 7 + 16 - 1
    BY SMT
  <2>3. InNet(a, Net(n, 127)) <=> (\A i \in 1 .. 7 : a[i] = n[i]) /\ Same(a[8], n[8], 1)
    BY <2>1, <2>2, Prefix8, SMT
  <2>4. Same(a[8], n[8], 1) <=> a[8] \div 2 = 0
    BY <2>1, SMT DEF Same
  <2>5. InNet(a, Net(n, 127)) <=> a[1] = 0 /\ a[2] = 0 /\ a[3] = 0 /\ a[4] = 0 /\ a[5] = 0 /\ a[6] = 0 /\ a[7] = 0 /\ a[8] \div 2 = 0
    BY <2>1, <2>3, <2>4, SMT
  <2> QED
    BY <2>5 DEF n
<1>2. InNet(a, Net(<<0,0,0,0,0,65535,0,0>>, 96)) <=> a[1] = 0 /\ a[2] = 0 /\ a[3] = 0 /\ a[4] = 0 /\ a[5] = 0 /\ a[6] = 65535
  <2> DEFINE n == <<0,0,0,0,0,65535,0,0>>
  <2>0. 0 \in U16 /\ 65535 \in U16
    BY SMT DEF U16, U16Max
  <2>1. n \in V6 /\ n[1] = 0 /\ n[2] = 0 /\ n[3] = 0 /\ n[4] = 0 /\ n[5] = 0 /\ n[6] = 65535
    BY <2>0, SMT DEF V6
  <2> HIDE DEF n
  <2>2. 5 \in 0 .. 7 /\ 0 \in 0 .. 15 /\ 96 = 16 * 5 + 16 - 0
    BY SMT
  <2>3. InNet(a, Net(n, 96)) <=> (\A i \in 1 .. 5 : a[i] = n[i]) /\ Same(a[6], n[6], 0)
    BY <2>1, <2>2, Prefix8, SMT
  <2>4. Same(a[6], n[6], 0) <=> a[6] = n[6]
    BY <2>1, Words8, Same16, SMT
  <2>5. InNet(a, Net(n, 96)) <=> a[1] = 0 /\ a[2] = 0 /\ a[3] = 0 /\ a[4] = 0 /\ a[5] = 0 /\ a[6] = 65535
    BY <2>1, <2>3, <2>4, SMT
  <2> QED
    BY <2>5 DEF n
<1>3. InNet(a, Net(<<100,65435,1,0,0,0,0,0>>, 48)) <=> a[1] = 100 /\ a[2] = 65435 /\ a[3] = 1
  <2> DEFINE n == <<100,65435,1,0,0,0,0,0>>
  <2>0. 0 \in U16 /\ 1 \in U16 /\ 100 \in U16 /\ 65435 \in U16
    BY SMT DEF U16, U16Max
  <2>1. n \in V6 /\ n[1] = 100 /\ n[2] = 65435 /\ n[3] = 1
    BY <2>0, SMT DEF V6
  <2> HIDE DEF n
  <2>2. 2 \in 0 .. 7 /\ 0 \in 0 .. 15 /\ 48 = 16 * 2 + 16 - 0
    BY SMT
  <2>3. InNet(a, Net(n, 48)) <=> (\A i \in 1 .. 2 : a[i] = n[i]) /\ Same(a[3], n[3], 0)
    BY <2>1, <2>2, Prefix8, SMT
  <2>4. Same(a[3], n[3], 0) <=> a[3] = n[3]
    BY <2>1, Words8, Same16, SMT
  <2>5. InNet(a, Net(n, 48)) <=> a[1] = 100 /\ a[2] = 65435 /\ a[3] = 1
    BY <2>1, <2>3, <2>4, SMT
  <2> QED
    BY <2>5 DEF n
<1>4. InNet(a, Net(<<256,0,0,0,0,0,0,0>>, 64)) <=> a[1] = 256 /\ a[2] = 0 /\ a[3] = 0 /\ a[4] = 0
  <2> DEFINE n == <<256,0,0,0,0,0,0,0>>
  <2>0. 0 \in U16 /\ 256 \in U16
    BY SMT DEF U16, U16Max
  <2>1. n \in V6 /\ n[1] = 256 /\ n[2] = 0 /\ n[3] = 0 /\ n[4] = 0
    BY <2>0, SMT DEF V6
  <2> HIDE DEF n
  <2>2. 3 \in 0 .. 7 /\ 0 \in 0 .. 15 /\ 64 = 16 * 3 + 16 - 0
    BY SMT
  <2>3. InNet(a, Net(n, 64)) <=> (\A i \in 1 .. 3 : a[i] = n[i]) /\ Same(a[4], n[4], 0)
    BY <2>1, <2>2, Prefix8, SMT
  <2>4. Same(a[4], n[4], 0) <=> a[4] = n[4]
    BY <2>1, Words8, Same16, SMT
  <2>5. InNet(a, Net(n, 64)) <=> a[1] = 256 /\ a[2] = 0 /\ a[3] = 0 /\ a[4] = 0
    BY <2>1, <2>3, <2>4, SMT
  <2> QED
    BY <2>5 DEF n
<1>5. InNet(a, Net(<<8193,0,0,0,0,0,0,0>>, 23)) <=> a[1] = 8193 /\ a[2] \div 512 = 0
  <2> DEFINE n == <<8193,0,0,0,0,0,0,0>>
  <2>0. 0 \in U16 /\ 8193 \in U16
    BY SMT DEF U16, U16Max
  <2>1. n \in V6 /\ n[1] = 8193 /\ n[2] = 0
    BY <2>0, SMT DEF V6
  <2> HIDE DEF n
  <2>2. 1 \in 0 .. 7 /\ 9 \in 0 .. 15 /\ 23 = 16 * 1 + 16 - 9
    BY SMT
  <2>3. InNet(a, Net(n, 23)) <=> (\A i \in 1 .. 1 : a[i] = n[i]) /\ Same(a[2], n[2], 9)
    BY <2>1, <2>2, Prefix8, SMT
  <2>4. Same(a[2], n[2], 9) <=> a[2] \div 512 = 0
    BY <2>1, SMT DEF Same
  <2>5. InNet(a, Net(n, 23)) <=> a[1] = 8193 /\ a[2] \div 512 = 0
    BY <2>1, <2>3, <2>4, SMT
  <2> QED
    BY <2>5 DEF n
<1>6. InNet(a, Net(<<8193,3512,0,0,0,0,0,0>>, 32)) <=> a[1] = 8193 /\ a[2] = 3512
  <2> DEFINE n == <<8193,3512,0,0,0,0,0,0>>
  <2>0. 0 \in U16 /\ 3512 \in U16 /\ 8193 \in U16
    BY SMT DEF U16, U16Max
  <2>1. n \in V6 /\ n[1] = 8193 /\ n[2] = 3512
    BY <2>0, SMT DEF V6
  <2> HIDE DEF n
  <2>2. 1 \in 0 .. 7 /\ 0 \in 0 .. 15 /\ 32 = 16 * 1 + 16 - 0
    BY SMT
  <2>3. InNet(a, Net(n, 32)) <=> (\A i \in 1 .. 1 : a[i] = n[i]) /\ Same(a[2], n[2], 0)
    BY <2>1, <2>2, Prefix8, SMT
  <2>4. Same(a[2], n[2], 0) <=> a[2] = n[2]
    BY <2>1, Words8, Same16, SMT
  <2>5. InNet(a, Net(n, 32)) <=> a[1] = 8193 /\ a[2] = 3512
    BY <2>1, <2>3, <2>4, SMT
  <2> QED
    BY <2>5 DEF n
<1>7. InNet(a, Net(<<8194,0,0,0,0,0,0,0>>, 16)) <=> a[1] = 8194
  <2> DEFINE n == <<8194,0,0,0,0,0,0,0>>
  <2>0. 0 \in U16 /\ 8194 \in U16
    BY SMT DEF U16, U16Max
  <2>1. n \in V6 /\ n[1] = 8194
    BY <2>0, SMT DEF V6
  <2> HIDE DEF n
  <2>2. 0 \in 0 .. 7 /\ 0 \in 0 .. 15 /\ 16 = 16 * 0 + 16 - 0
    BY SMT
  <2>3. InNet(a, Net(n, 16)) <=> (\A i \in 1 .. 0 : a[i] = n[i]) /\ Same(a[1], n[1], 0)
    BY <2>1, <2>2, Prefix8, SMT
  <2>4. Same(a[1], n[1], 0) <=> a[1] = n[1]
    BY <2>1, Words8, Same16, SMT
  <2>5. InNet(a, Net(n, 16)) <=> a[1] = 8194
    BY <2>1, <2>3, <2>4, SMT
  <2> QED
    BY <2>5 DEF n
<1>8. InNet(a, Net(<<64512,0,0,0,0,0,0,0>>, 7)) <=> a[1] \div 512 = 126
  <2> DEFINE n == <<64512,0,0,0,0,0,0,0>>
  <2>0. 0 \in U16 /\ 64512 \in U16
    BY SMT DEF U16, U16Max
  <2>1. n \in V6 /\ n[1] = 64512
    BY <2>0, SMT DEF V6
  <2> HIDE DEF n
  <2>2. 0 \in 0 .. 7 /\ 9 \in 0 .. 15 /\ 7 = 16 * 0 + 16 - 9
    BY SMT
  <2>3. InNet(a, Net(n, 7)) <=> (\A i \in 1 .. 0 : a[i] = n[i]) /\ Same(a[1], n[1], 9)
    BY <2>1, <2>2, Prefix8, SMT
  <2>4. Same(a[1], n[1], 9) <=> a[1] \div 512 = 126
    BY <2>1, SMT DEF Same
  <2>5. InNet(a, Net(n, 7)) <=> a[1] \div 512 = 126
    BY <2>1, <2>3, <2>4, SMT
  <2> QED
    BY <2>5 DEF n
<1>9. InNet(a, Net(<<8193,1,0,0,0,0,0,1>>, 128)) <=> a[1] = 8193 /\ a[2] = 1 /\ a[3] = 0 /\ a[4] = 0 /\ a[5] = 0 /\ a[6] = 0 /\ a[7] = 0 /\ a[8] = 1
  <2> DEFINE n == <<8193,1,0,0,0,0,0,1>>
  <2>0. 0 \in U16 /\ 1 \in U16 /\ 8193 \in U16
    BY SMT DEF U16, U16Max
  <2>1. n \in V6 /\ n[1] = 8193 /\ n[2] = 1 /\ n[3] = 0 /\ n[4] = 0 /\ n[5] = 0 /\ n[6] = 0 /\ n[7] = 0 /\ n[8] = 1
    BY <2>0, SMT DEF V6
  <2> HIDE DEF n
  <2>2. 7 \in 0 .. 7 /\ 0 \in 0 .. 15 /\ 128 = 16 * 7 + 16 - 0
    BY SMT
  <2>3. InNet(a, Net(n, 128)) <=> (\A i \in 1 .. 7 : a[i] = n[i]) /\ Same(a[8], n[8], 0)
    BY <2>1, <2>2, Prefix8, SMT
  <2>4. Same(a[8], n[8], 0) <=> a[8] = n[8]
    BY <2>1, Words8, Same16, SMT
  <2>5. InNet(a, Net(n, 128)) <=> a[1] = 8193 /\ a[2] = 1 /\ a[3] = 0 /\ a[4] = 0 /\ a[5] = 0 /\ a[6] = 0 /\ a[7] = 0 /\ a[8] = 1
    BY <2>1, <2>3, <2>4, SMT
  <2> QED
    BY <2>5 DEF n
<1>10. InNet(a, Net(<<8193,1,0,0,0,0,0,2>>, 128)) <=> a[1] = 8193 /\ a[2] = 1 /\ a[3] = 0 /\ a[4] = 0 /\ a[5] = 0 /\ a[6] = 0 /\ a[7] = 0 /\ a[8] = 2
  <2> DEFINE n == <<8193,1,0,0,0,0,0,2>>
  <2>0. 0 \in U16 /\ 1 \in U16 /\ 2 \in U16 /\ 8193 \in U16
    BY SMT DEF U16, U16Max
  <2>1. n \in V6 /\ n[1] = 8193 /\ n[2] = 1 /\ n[3] = 0 /\ n[4] = 0 /\ n[5] = 0 /\ n[6] = 0 /\ n[7] = 0 /\ n[8] = 2
    BY <2>0, SMT DEF V6
  <2> HIDE DEF n
  <2>2. 7 \in 0 .. 7 /\ 0 \in 0 .. 15 /\ 128 = 16 * 7 + 16 - 0
    BY SMT
  <2>3. InNet(a, Net(n, 128)) <=> (\A i \in 1 .. 7 : a[i] = n[i]) /\ Same(a[8], n[8], 0)
    BY <2>1, <2>2, Prefix8, SMT
  <2>4. Same(a[8], n[8], 0) <=> a[8] = n[8]
    BY <2>1, Words8, Same16, SMT
  <2>5. InNet(a, Net(n, 128)) <=> a[1] = 8193 /\ a[2] = 1 /\ a[3] = 0 /\ a[4] = 0 /\ a[5] = 0 /\ a[6] = 0 /\ a[7] = 0 /\ a[8] = 2
    BY <2>1, <2>3, <2>4, SMT
  <2> QED
    BY <2>5 DEF n
<1>11. InNet(a, Net(<<8193,3,0,0,0,0,0,0>>, 32)) <=> a[1] = 8193 /\ a[2] = 3
  <2> DEFINE n == <<8193,3,0,0,0,0,0,0>>
  <2>0. 0 \in U16 /\ 3 \in U16 /\ 8193 \in U16
    BY SMT DEF U16, U16Max
  <2>1. n \in V6 /\ n[1] = 8193 /\ n[2] = 3
    BY <2>0, SMT DEF V6
  <2> HIDE DEF n
  <2>2. 1 \in 0 .. 7 /\ 0 \in 0 .. 15 /\ 32 = 16 * 1 + 16 - 0
    BY SMT
  <2>3. InNet(a, Net(n, 32)) <=> (\A i \in 1 .. 1 : a[i] = n[i]) /\ Same(a[2], n[2], 0)
    BY <2>1, <2>2, Prefix8, SMT
  <2>4. Same(a[2], n[2], 0) <=> a[2] = n[2]
    BY <2>1, Words8, Same16, SMT
  <2>5. InNet(a, Net(n, 32)) <=> a[1] = 8193 /\ a[2] = 3
    BY <2>1, <2>3, <2>4, SMT
  <2> QED
    BY <2>5 DEF n
<1>12. InNet(a, Net(<<8193,4,274,0,0,0,0,0>>, 48)) <=> a[1] = 8193 /\ a[2] = 4 /\ a[3] = 274
  <2> DEFINE n == <<8193,4,274,0,0,0,0,0>>
  <2>0. 0 \in U16 /\ 4 \in U16 /\ 274 \in U16 /\ 8193 \in U16
    BY SMT DEF U16, U16Max
  <2>1. n \in V6 /\ n[1] = 8193 /\ n[2] = 4 /\ n[3] = 274
    BY <2>0, SMT DEF V6
  <2> HIDE DEF n
  <2>2. 2 \in 0 .. 7 /\ 0 \in 0 .. 15 /\ 48 = 16 * 2 + 16 - 0
    BY SMT
  <2>3. InNet(a, Net(n, 48)) <=> (\A i \in 1 .. 2 : a[i] = n[i]) /\ Same(a[3], n[3], 0)
    BY <2>1, <2>2, Prefix8, SMT
  <2>4. Same(a[3], n[3], 0) <=> a[3] = n[3]
    BY <2>1, Words8, Same16, SMT
  <2>5. InNet(a, Net(n, 48)) <=> a[1] = 8193 /\ a[2] = 4 /\ a[3] = 274
    BY <2>1, <2>3, <2>4, SMT
  <2> QED
    BY <2>5 DEF n
<1>13. InNet(a, Net(<<8193,32,0,0,0,0,0,0>>, 28)) <=> a[1] = 8193 /\ a[2] \div 16 = 2
  <2> DEFINE n == <<8193,32,0,0,0,0,0,0>>
  <2>0. 0 \in U16 /\ 32 \in U16 /\ 8193 \in U16
    BY SMT DEF U16, U16Max
  <2>1. n \in V6 /\ n[1] = 8193 /\ n[2] = 32
    BY <2>0, SMT DEF V6
  <2> HIDE DEF n
  <2>2. 1 \in 0 .. 7 /\ 4 \in 0 .. 15 /\ 28 = 16 * 1 + 16 - 4
    BY SMT
  <2>3. InNet(a, Net(n, 28)) <=> (\A i \in 1 .. 1 : a[i] = n[i]) /\ Same(a[2], n[2], 4)
    BY <2>1, <2>2, Prefix8, SMT
  <2>4. Same(a[2], n[2], 4) <=> a[2] \div 16 = 2
    BY <2>1, SMT DEF Same
  <2>5. InNet(a, Net(n, 28)) <=> a[1] = 8193 /\ a[2] \div 16 = 2
    BY <2>1, <2>3, <2>4, SMT
  <2> QED
    BY <2>5 DEF n
<1>14. InNet(a, Net(<<8193,48,0,0,0,0,0,0>>, 28)) <=> a[1] = 8193 /\ a[2] \div 16 = 3
  <2> DEFINE n == <<8193,48,0,0,0,0,0,0>>
  <2>0. 0 \in U16 /\ 48 \in U16 /\ 8193 \in U16
    BY SMT DEF U16, U16Max
  <2>1. n \in V6 /\ n[1] = 8193 /\ n[2] = 48
    BY <2>0, SMT DEF V6
  <2> HIDE DEF n
  <2>2. 1 \in 0 .. 7 /\ 4 \in 0 .. 15 /\ 28 = 16 * 1 + 16 - 4
    BY SMT
  <2>3. InNet(a, Net(n, 28)) <=> (\A i \in 1 .. 1 : a[i] = n[i]) /\ Same(a[2], n[2], 4)
    BY <2>1, <2>2, Prefix8, SMT
  <2>4. Same(a[2], n[2], 4) <=> a[2] \div 16 = 3
    BY <2>1, SMT DEF Same
  <2>5. InNet(a, Net(n, 28)) <=> a[1] = 8193 /\ a[2] \div 16 = 3
    BY <2>1, <2>3, <2>4, SMT
  <2> QED
    BY <2>5 DEF n
<1>15. InNet(a, Net(<<0,0,0,0,0,0,0,1>>, 128)) <=> a[1] = 0 /\ a[2] = 0 /\ a[3] = 0 /\ a[4] = 0 /\ a[5] = 0 /\ a[6] = 0 /\ a[7] = 0 /\ a[8] = 1
  <2> DEFINE n == <<0,0,0,0,0,0,0,1>>
  <2>0. 0 \in U16 /\ 1 \in U16
    BY SMT DEF U16, U16Max
  <2>1. n \in V6 /\ n[1] = 0 /\ n[2] = 0 /\ n[3] = 0 /\ n[4] = 0 /\ n[5] = 0 /\ n[6] = 0 /\ n[7] = 0 /\ n[8] = 1
    BY <2>0, SMT DEF V6
  <2> HIDE DEF n
  <2>2. 7 \in 0 .. 7 /\ 0 \in 0 .. 15 /\ 128 = 16 * 7 + 16 - 0
    BY SMT
  <2>3. InNet(a, Net(n, 128)) <=> (\A i \in 1 .. 7 : a[i] = n[i]) /\ Same(a[8], n[8], 0)
    BY <2>1, <2>2, Prefix8, SMT
  <2>4. Same(a[8], n[8], 0) <=> a[8] = n[8]
    BY <2>1, Words8, Same16, SMT
  <2>5. InNet(a, Net(n, 128)) <=> a[1] = 0 /\ a[2] = 0 /\ a[3] = 0 /\ a[4] = 0 /\ a[5] = 0 /\ a[6] = 0 /\ a[7] = 0 /\ a[8] = 1
    BY <2>1, <2>3, <2>4, SMT
  <2> QED
    BY <2>5 DEF n
<1>16. InNet(a, Net(<<65280,0,0,0,0,0,0,0>>, 8)) <=> a[1] \div 256 = 255
  <2> DEFINE n == <<65280,0,0,0,0,0,0,0>>
  <2>0. 0 \in U16 /\ 65280 \in U16
    BY SMT DEF U16, U16Max
  <2>1. n \in V6 /\ n[1] = 65280
    BY <2>0, SMT DEF V6
  <2> HIDE DEF n
  <2>2. 0 \in 0 .. 7 /\ 8 \in 0 .. 15 /\ 8 = 16 * 0 + 16 - 8
    BY SMT
  <2>3. InNet(a, Net(n, 8)) <=> (\A i \in 1 .. 0 : a[i] = n[i]) /\ Same(a[1], n[1], 8)
    BY <2>1, <2>2, Prefix8, SMT
  <2>4. Same(a[1], n[1], 8) <=> a[1] \div 256 = 255
    BY <2>1, SMT DEF Same
  <2>5. InNet(a, Net(n, 8)) <=> a[1] \div 256 = 255
    BY <2>1, <2>3, <2>4, SMT
  <2> QED
    BY <2>5 DEF n
<1>17. InNet(a, Net(<<65152,0,0,0,0,0,0,0>>, 10)) <=> a[1] \div 64 = 1018
  <2> DEFINE n == <<65152,0,0,0,0,0,0,0>>
  <2>0. 0 \in U16 /\ 65152 \in U16
    BY SMT DEF U16, U16Max
  <2>1. n \in V6 /\ n[1] = 65152
    BY <2>0, SMT DEF V6
  <2> HIDE DEF n
  <2>2. 0 \in 0 .. 7 /\ 6 \in 0 .. 15 /\ 10 = 16 * 0 + 16 - 6
    BY SMT
  <2>3. InNet(a, Net(n, 10)) <=> (\A i \in 1 .. 0 : a[i] = n[i]) /\ Same(a[1], n[1], 6)
    BY <2>1, <2>2, Prefix8, SMT
  <2>4. Same(a[1], n[1], 6) <=> a[1] \div 64 = 1018
    BY <2>1, SMT DEF Same
  <2>5. InNet(a, Net(n, 10)) <=> a[1] \div 64 = 1018
    BY <2>1, <2>3, <2>4, SMT
  <2> QED
    BY <2>5 DEF n
<1> QED
  BY <1>1, <1>2, <1>3, <1>4, <1>5, <1>6, <1>7, <1>8, <1>9, <1>10, <1>11, <1>12, <1>13, <1>14, <1>15, <1>16,
     <1>17

-----------------------------------------------------------------------------
(* The classes of addresses that the code computes with masks are the        *)
(* networks of the table.                                                    *)

LEMMA Families ==
  /\ \A n \in NotGlobal4 \cup GlobalParts4 : Len(n.net) = 4
  /\ \A n \in NotGlobal6 \cup GlobalParts6 : Len(n.net) = 8
<1>1. \A n \in NotGlobal4 : Len(n.net) = 4
  BY SMT DEF NotGlobal4, Net
<1>2. \A n \in GlobalParts4 : Len(n.net) = 4
  BY SMT DEF GlobalParts4, Net
<1>3. \A n \in NotGlobal6 : Len(n.net) = 8
  BY SMT DEF NotGlobal6, LinkLocal6, Net
<1>4. \A n \in GlobalParts6 : Len(n.net) = 8
  BY SMT DEF GlobalParts6, Net
<1> QED
  BY <1>1, <1>2, <1>3, <1>4

LEMMA OtherFamily ==
  ASSUME NEW a, NEW n, Len(a) # Len(n.net)
  PROVE  ~InNet(a, n)
  BY SMT DEF InNet

LEMMA Reachable4 ==
  ASSUME NEW a \in V4
  PROVE  Reachable(a) <=> ((\E n \in NotGlobal4 : InNet(a, n)) => \E n \in GlobalParts4 : InNet(a, n))
<1>1. Len(a) = 4
  BY Words4
<1>2. \A n \in NotGlobal6 \cup GlobalParts6 : Len(a) # Len(n.net)
  BY <1>1, Families, SMT
<1>3. \A n \in NotGlobal6 \cup GlobalParts6 : ~InNet(a, n)
  BY <1>2, OtherFamily
<1> QED
  BY <1>3, Zenon DEF Reachable

LEMMA Reachable8 ==
  ASSUME NEW a \in V6
  PROVE  Reachable(a) <=> ((\E n \in NotGlobal6 : InNet(a, n)) => \E n \in GlobalParts6 : InNet(a, n))
<1>1. Len(a) = 8
  BY Words8
<1>2. \A n \in NotGlobal4 \cup GlobalParts4 : Len(a) # Len(n.net)
  BY <1>1, Families, SMT
<1>3. \A n \in NotGlobal4 \cup GlobalParts4 : ~InNet(a, n)
  BY <1>2, OtherFamily
<1> QED
  BY <1>3, Zenon DEF Reachable

\* For every IPv4 address there is, ipv4_is_global answers as the table does.
LEMMA Global4 ==
  ASSUME NEW a \in V4
  PROVE  Ipv4IsGlobal(a) <=> Reachable(a)
<1>1. (\E n \in NotGlobal4 : InNet(a, n)) <=>
        \/ a[1] = 0 \/ a[1] = 10 \/ (a[1] = 100 /\ a[2] \div 64 = 1) \/ a[1] = 127
        \/ (a[1] = 169 /\ a[2] = 254) \/ (a[1] = 172 /\ a[2] \div 16 = 1)
        \/ (a[1] = 192 /\ a[2] = 0 /\ a[3] = 0) \/ (a[1] = 192 /\ a[2] = 0 /\ a[3] = 2)
        \/ (a[1] = 192 /\ a[2] = 168) \/ (a[1] = 198 /\ a[2] \div 2 = 9)
        \/ (a[1] = 198 /\ a[2] = 51 /\ a[3] = 100) \/ (a[1] = 203 /\ a[2] = 0 /\ a[3] = 113)
        \/ a[1] \div 16 = 15
  BY Table4, SMT DEF NotGlobal4
<1>2. (\E n \in GlobalParts4 : InNet(a, n)) <=>
        a[1] = 192 /\ a[2] = 0 /\ a[3] = 0 /\ (a[4] = 9 \/ a[4] = 10)
  BY Table4, SMT DEF GlobalParts4
<1>3. a[1] = 192 => a[1] \div 16 # 15
  BY SMT
<1> QED
  BY <1>1, <1>2, <1>3, Reachable4, SMT DEF Ipv4IsGlobal, Ipv4Shared

\* The same for ipv6_is_global and every IPv6 address, but that it takes the
\* link-local ones for global.
LEMMA Global8 ==
  ASSUME NEW a \in V6
  PROVE  (Ipv6IsGlobal(a) <=> Reachable(a) \/ LinkLocal(a)) /\ (LinkLocal(a) => ~Reachable(a))
<1>0. \A i \in 1 .. 8 : a[i] \in Int /\ 0 <= a[i]
  BY Words8, Bounds16, SMT
<1> DEFINE special ==
        \/ a[1] = 0 /\ a[2] = 0 /\ a[3] = 0 /\ a[4] = 0 /\ a[5] = 0 /\ a[6] = 0 /\ a[7] = 0 /\ a[8] \div 2 = 0
        \/ a[1] = 0 /\ a[2] = 0 /\ a[3] = 0 /\ a[4] = 0 /\ a[5] = 0 /\ a[6] = 65535
        \/ a[1] = 100 /\ a[2] = 65435 /\ a[3] = 1
        \/ a[1] = 256 /\ a[2] = 0 /\ a[3] = 0 /\ a[4] = 0
        \/ a[1] = 8193 /\ a[2] \div 512 = 0
        \/ a[1] = 8193 /\ a[2] = 3512
        \/ a[1] = 8194
        \/ a[1] \div 512 = 126
<1>1. (\E n \in NotGlobal6 : InNet(a, n)) <=> special \/ LinkLocal(a)
  BY Table8, SMT DEF NotGlobal6, LinkLocal, LinkLocal6
<1>2. (\E n \in GlobalParts6 : InNet(a, n)) <=>
        \/ /\ a[1] = 8193 /\ a[2] = 1 /\ a[3] = 0 /\ a[4] = 0 /\ a[5] = 0 /\ a[6] = 0 /\ a[7] = 0
           /\ a[8] = 1 \/ a[8] = 2
        \/ a[1] = 8193 /\ a[2] = 3
        \/ a[1] = 8193 /\ a[2] = 4 /\ a[3] = 274
        \/ a[1] = 8193 /\ (a[2] \div 16 = 2 \/ a[2] \div 16 = 3)
  BY Table8, SMT DEF GlobalParts6
<1>3. a[8] \div 2 = 0 <=> a[8] = 0 \/ a[8] = 1
  BY <1>0, SMT
<1>4. a[2] \div 512 = 0 <=> a[2] < 512
  BY <1>0, SMT
<1>5. a[2] \div 16 = 2 \/ a[2] \div 16 = 3 <=> a[2] \in 32 .. 63
  BY <1>0, SMT
<1>6. a[1] = 8193 => a[1] \div 512 # 126
  BY SMT
<1>7. LinkLocal(a) <=> a[1] \div 64 = 1018
  BY Table8, SMT DEF LinkLocal, LinkLocal6
<1>8. LinkLocal(a) => a[1] \notin {0, 100, 256, 8193, 8194} /\ a[1] \div 512 # 126
  BY <1>0, <1>7, SMT
<1>9. special /\ ~(\E n \in GlobalParts6 : InNet(a, n)) <=> ~Ipv6IsGlobal(a)
  BY <1>2, <1>3, <1>4, <1>5, <1>6, SMT DEF Ipv6IsGlobal
<1>10. LinkLocal(a) => Ipv6IsGlobal(a)
  BY <1>8, SMT DEF Ipv6IsGlobal
<1>11. LinkLocal(a) => ~(\E n \in GlobalParts6 : InNet(a, n))
  BY <1>2, <1>8, SMT
<1> HIDE DEF special
<1> QED
  BY <1>1, <1>9, <1>10, <1>11, Reachable8

LEMMA LinkLocalIs ==
  ASSUME NEW a \in Address, LinkLocal(a)
  PROVE  a \in V6 /\ Len(a) = 8 /\ a[1] \div 64 = 1018
<1>1. LinkLocal6 \in NotGlobal6
  BY SMT DEF NotGlobal6
<1>2. Len(LinkLocal6.net) = 8
  BY <1>1, Families
<1>3. Len(a) = 8
  BY <1>2, OtherFamily, SMT DEF LinkLocal
<1>4. a \in V6
  BY <1>3, Words4, SMT DEF Address
<1> QED
  BY <1>3, <1>4, Table8, SMT DEF LinkLocal, LinkLocal6

LEMMA Loopback ==
  ASSUME NEW a \in Address
  PROVE  IsLoopback(a) <=> InNet(a, Net(<<127,0,0,0>>, 8)) \/ InNet(a, Net(<<0,0,0,0,0,0,0,1>>, 128))
<1>1. CASE a \in V4
  <2>1. Len(a) = 4
    BY <1>1, Words4
  <2>2. Len(a) # Len(Net(<<0,0,0,0,0,0,0,1>>, 128).net)
    BY <2>1, SMT DEF Net
  <2>3. ~InNet(a, Net(<<0,0,0,0,0,0,0,1>>, 128))
    BY <2>2, SMT DEF InNet
  <2> QED
    BY <1>1, <2>1, <2>3, Table4, SMT DEF IsLoopback, IsV4
<1>2. CASE a \in V6
  <2>1. Len(a) = 8
    BY <1>2, Words8
  <2>2. Len(a) # Len(Net(<<127,0,0,0>>, 8).net)
    BY <2>1, SMT DEF Net
  <2>3. ~InNet(a, Net(<<127,0,0,0>>, 8))
    BY <2>2, SMT DEF InNet
  <2>4. a = <<0,0,0,0,0,0,0,1>> <=>
          /\ a[1] = 0 /\ a[2] = 0 /\ a[3] = 0 /\ a[4] = 0 /\ a[5] = 0 /\ a[6] = 0 /\ a[7] = 0 /\ a[8] = 1
    BY <1>2, SMT DEF V6
  <2> QED
    BY <1>2, <2>1, <2>3, <2>4, Table8, SMT DEF IsLoopback, IsV4
<1> QED
  BY <1>1, <1>2 DEF Address

LEMMA Multicast ==
  ASSUME NEW a \in Address
  PROVE  IsMulticast(a) <=> InNet(a, Net(<<224,0,0,0>>, 4)) \/ InNet(a, Net(<<65280,0,0,0,0,0,0,0>>, 8))
<1>1. CASE a \in V4
  <2>1. Len(a) = 4
    BY <1>1, Words4
  <2>2. Len(a) # Len(Net(<<65280,0,0,0,0,0,0,0>>, 8).net)
    BY <2>1, SMT DEF Net
  <2>3. ~InNet(a, Net(<<65280,0,0,0,0,0,0,0>>, 8))
    BY <2>2, SMT DEF InNet
  <2> QED
    BY <1>1, <2>1, <2>3, Table4, SMT DEF IsMulticast, IsV4
<1>2. CASE a \in V6
  <2>1. Len(a) = 8
    BY <1>2, Words8
  <2>2. Len(a) # Len(Net(<<224,0,0,0>>, 4).net)
    BY <2>1, SMT DEF Net
  <2>3. ~InNet(a, Net(<<224,0,0,0>>, 4))
    BY <2>2, SMT DEF InNet
  <2> QED
    BY <1>2, <2>1, <2>3, Table8, SMT DEF IsMulticast, IsV4
<1> QED
  BY <1>1, <1>2 DEF Address

LEMMA LenAddress ==
  ASSUME NEW a \in Address
  PROVE  (IsV4(a) <=> a \in V4) /\ (~IsV4(a) <=> Len(a) = 8)
<1>1. a \in V4 => Len(a) = 4
  BY Words4
<1>2. a \in V6 => Len(a) = 8
  BY Words8
<1> QED
  BY <1>1, <1>2, SMT DEF Address, IsV4

\* What is refused for its address is what the operator's switches forbid, for
\* every configuration and every address the server may use but the link-local
\* ones of IPv6, which allow_global decides about instead of allow_non_global.
THEOREM AddressDecision ==
  ASSUME NEW c, NEW a \in Address, IsV4(a) \/ c.resolve_ipv6
  PROVE  /\ ~LinkLocal(a) => (BlockedByAddress(c, a) <=> ~AddressPermitted(c, a))
         /\ LinkLocal(a) => /\ BlockedByAddress(c, a) <=> ~c.allow_global
                            /\ AddressPermitted(c, a) <=> c.allow_non_global
<1>2. Len(a) = 8 => c.resolve_ipv6
  BY LenAddress
<1>3. CASE ~LinkLocal(a)
  <2>1. IsGlobal(a) <=> Reachable(a)
    BY <1>3, LenAddress, Global4, Global8, SMT DEF IsGlobal, Address
  <2> QED
    BY <1>2, <1>3, <2>1, Loopback, Multicast, SMT DEF BlockedByAddress, AddressPermitted
<1>4. CASE LinkLocal(a)
  <2>1. a \in V6 /\ Len(a) = 8 /\ a[1] \div 64 = 1018
    BY <1>4, LinkLocalIs
  <2>2. IsGlobal(a) /\ ~Reachable(a)
    BY <1>4, <2>1, Global8 DEF IsGlobal, IsV4
  <2>3. a[1] \in Int
    BY <2>1, Words8, Bounds16, SMT
  <2>4. a[1] # 0 /\ a[1] \div 256 # 255
    BY ONLY <2>1, <2>3, SMT
  <2>5. ~IsLoopback(a) /\ ~IsMulticast(a)
    BY <2>1, <2>4, SMT DEF IsLoopback, IsMulticast, IsV4
  <2>6. /\ ~(InNet(a, Net(<<127,0,0,0>>, 8)) \/ InNet(a, Net(<<0,0,0,0,0,0,0,1>>, 128)))
        /\ ~(InNet(a, Net(<<224,0,0,0>>, 4)) \/ InNet(a, Net(<<65280,0,0,0,0,0,0,0>>, 8)))
    BY <2>5, Loopback, Multicast
  <2>7. BlockedByAddress(c, a) <=> ~c.allow_global
    BY <2>2, <2>5 DEF BlockedByAddress
  <2>8. AddressPermitted(c, a) <=> c.allow_non_global
    BY <1>2, <2>2, <2>6 DEF AddressPermitted
  <2> QED
    BY <1>4, <2>7, <2>8
<1> QED
  BY <1>3, <1>4

\* What is refused for the request alone is what the lists and switches forbid.
THEOREM RequestDecision ==
  ASSUME NEW c, NEW p, TypeName(p) \in {"Tcp", "Udp"}
  PROVE  BlockedByRequest(c, p) <=> ~RequestPermitted(c, p)
  BY SMT DEF BlockedByRequest, RequestPermitted, InRanges, MatchAddr, AllowedSet, BlockedSet

-----------------------------------------------------------------------------
(* The endpoint of the index page. *)

LEMMA SuffixOfAppend ==
  ASSUME NEW S, NEW p \in Seq(S), NEW q \in Seq(S)
  PROVE  IsSuffix(p, q \o p)
<1> DEFINE t == q \o p
<1>1. t \in Seq(S) /\ Len(t) = Len(q) + Len(p) /\ \A i \in 1 .. Len(p) : t[Len(q) + i] = p[i]
  OBVIOUS
<1> HIDE DEF t
<1>2. Reverse(p) \in Seq(S) /\ Len(Reverse(p)) = Len(p) /\ \A i \in 1 .. Len(p) : Reverse(p)[i] = p[Len(p) - i + 1]
  BY DEF Reverse
<1>3. Reverse(t) \in Seq(S) /\ Len(Reverse(t)) = Len(t) /\ \A i \in 1 .. Len(t) : Reverse(t)[i] = t[Len(t) - i + 1]
  BY <1>1 DEF Reverse
<1>4. \A i \in 1 .. Len(p) : Reverse(p)[i] = Reverse(t)[i]
  <2> SUFFICES ASSUME NEW i \in 1 .. Len(p) PROVE Reverse(p)[i] = Reverse(t)[i]
    OBVIOUS
  <2>1. Len(p) - i + 1 \in 1 .. Len(p) /\ Len(t) - i + 1 = Len(q) + (Len(p) - i + 1) /\ i \in 1 .. Len(t)
    BY <1>1
  <2>2. t[Len(q) + (Len(p) - i + 1)] = p[Len(p) - i + 1]
    BY <1>1, <2>1
  <2> QED
    BY <1>2, <1>3, <2>1, <2>2
<1> DEFINE rp == Reverse(p)
           rt == Reverse(t)
<1> HIDE DEF rp, rt
<1>5. SubSeq(rp, 1, Len(rp)) = SubSeq(rt, 1, Len(rp))
  BY <1>1, <1>2, <1>3, <1>4 DEF rp, rt
<1>6. Len(rp) <= Len(rt)
  BY <1>1, <1>2, <1>3 DEF rp, rt
<1> QED
  BY <1>5, <1>6 DEF IsSuffix, IsPrefix, rp, rt, t

(* What paths are made of. *)
Part == STRING \cup {"/"}

LEMMA Slash == <<"/">> \in Seq(Part) /\ <<>> \in Seq(Part)
<1>1. "/" \in Part
  BY DEF Part
<1> QED
  BY <1>1

LEMMA Joined ==
  ASSUME NEW S, NEW p \in Seq(S), NEW q \in Seq(S), NEW r \in Seq(S)
  PROVE  /\ p \o q \in Seq(S)
         /\ p \o q \o r = p \o (q \o r)
         /\ <<>> \o p = p
  OBVIOUS

Tidy(prefix) == prefix # <<>> => prefix[Len(prefix)] # "/"

LEMMA TidyEndpoint ==
  ASSUME NEW c, c.prefix \in Seq(Part), Tidy(c.prefix)
  PROVE  \E q \in Seq(Part) : Endpoint(c) = q \o (c.prefix \o <<"/">>)
<1> DEFINE p == c.prefix
           cut == {n \in 0 .. Len(p) : \A i \in n + 1 .. Len(p) : p[i] = "/"}
           m == CHOOSE n \in cut : \A x \in cut : n <= x
<1>1. cut = {Len(p)}
  BY DEF Tidy
<1>2. m = Len(p)
  BY <1>1
<1>3. SubSeq(p, 1, Len(p)) = p
  OBVIOUS
<1>4. Endpoint(c) = IF p = <<>> THEN <<"/">>
                    ELSE (IF p[1] = "/" THEN <<>> ELSE <<"/">>) \o p \o <<"/">>
  <2>1. Endpoint(c) = LET prefix == SubSeq(p, 1, m)
                      IN IF prefix = <<>> THEN <<"/">>
                         ELSE (IF prefix[1] = "/" THEN <<>> ELSE <<"/">>) \o prefix \o <<"/">>
    BY DEF Endpoint
  <2>2. SubSeq(p, 1, m) = p
    BY <1>2, <1>3
  <2> HIDE DEF p, m
  <2> QED
    BY <2>1, <2>2, Zenon
<1> HIDE DEF p
<1>5. p \in Seq(Part) /\ p \o <<"/">> \in Seq(Part)
  BY Slash, Joined DEF p
<1>6. \A q \in Seq(Part) : q \o p \o <<"/">> = q \o (p \o <<"/">>)
  BY <1>5, Slash, Joined
<1>7. CASE p = <<>>
  <2>1. Endpoint(c) = <<>> \o (p \o <<"/">>)
    BY <1>4, <1>7, Slash, Joined
  <2> QED
    BY <2>1, Slash DEF p
<1>8. CASE p # <<>> /\ p[1] = "/"
  <2>1. Endpoint(c) = <<>> \o (p \o <<"/">>)
    BY <1>4, <1>6, <1>8, Slash
  <2> QED
    BY <2>1, Slash DEF p
<1>9. CASE p # <<>> /\ p[1] # "/"
  <2>1. Endpoint(c) = <<"/">> \o (p \o <<"/">>)
    BY <1>4, <1>6, <1>9, Slash
  <2> QED
    BY <2>1, Slash DEF p
<1> QED
  BY <1>7, <1>8, <1>9

EndpointInv ==
  /\ cfg.prefix \in Seq(Part)
  /\ phase = "off" => shown = <<>>
  /\ shown # <<>> => shown = Endpoint(cfg)

LEMMA DefaultPrefix ==
  /\ DefaultConfig.prefix \in Seq(Part) /\ "prefix" \in DOMAIN DefaultConfig
  /\ WasixDefaults.prefix \in Seq(Part) /\ "prefix" \in DOMAIN WasixDefaults
<1>1. "prefix" \in DOMAIN DefaultServer /\ DefaultServer.prefix = <<>>
  BY DEF DefaultServer
<1>2. DefaultConfig.prefix \in Seq(Part) /\ "prefix" \in DOMAIN DefaultConfig
  BY <1>1, Slash DEF DefaultConfig
<1>3. WasixDefaults.prefix \in Seq(Part) /\ "prefix" \in DOMAIN WasixDefaults
  <2> DEFINE new ==
        [bind |-> "tcp", transport |-> "websocket", allow_wsproxy |-> FALSE, prefix |-> <<>>,
         wisp_v2 |-> TRUE, extensions |-> {"motd"}, allow_udp |-> FALSE,
         allow_wsproxy_udp |-> FALSE, allow_direct_ip |-> FALSE, allow_loopback |-> FALSE,
         allow_multicast |-> FALSE, allow_global |-> TRUE, allow_non_global |-> FALSE,
         allow_ports |-> {<<80, 80>>, <<443, 443>>}]
  <2>1. WasixDefaults = Overlay(DefaultConfig, new)
    BY DEF WasixDefaults
  <2>2. new.prefix = <<>>
    OBVIOUS
  <2> HIDE DEF new
  <2> QED
    BY <1>2, <2>1, <2>2, Slash DEF Overlay
<1> QED
  BY <1>2, <1>3

LEMMA OverlayPrefix ==
  ASSUME NEW old, old.prefix \in Seq(Part), "prefix" \in DOMAIN old,
         NEW new \in Files \cup Envs
  PROVE  Overlay(old, new).prefix \in Seq(Part) /\ "prefix" \in DOMAIN Overlay(old, new)
<1>1. "prefix" \in DOMAIN new => new.prefix \in Seq(STRING)
  BY AdmissionAssumption
<1>2. Seq(STRING) \subseteq Seq(Part)
  BY DEF Part
<1> QED
  BY <1>1, <1>2 DEF Overlay

LEMMA EndpointInvariant == Spec => []EndpointInv
<1>1. Init => EndpointInv
  BY DefaultPrefix DEF Init, EndpointInv
<1>2. EndpointInv /\ [Next]_vars => EndpointInv'
  <2> SUFFICES ASSUME EndpointInv, [Next]_vars
               PROVE  EndpointInv'
    OBVIOUS
  <2> USE DEF EndpointInv
  <2>1. CASE Boot
    <3>1. PICK base \in {DefaultConfig, WasixDefaults} \cup {Overlay(DefaultConfig, f) : f \in Files},
               env \in Envs : cfg' = Overlay(base, env)
      BY <2>1 DEF Boot, ApplyTo
    <3>2. base.prefix \in Seq(Part) /\ "prefix" \in DOMAIN base
      BY DefaultPrefix, OverlayPrefix
    <3>3. cfg'.prefix \in Seq(Part)
      BY <3>1, <3>2, OverlayPrefix
    <3>4. shown' = <<>>
      BY <2>1 DEF Boot
    <3> QED
      BY <3>3, <3>4
  <2>2. CASE Plain
    BY <2>2 DEF Plain, NonWs
  <2>3. CASE Unserved
    BY <2>3 DEF Unserved, NonWs
  <2>4. CASE UNCHANGED <<cfg, shown, phase>>
    BY <2>4
  <2>5. CASE UNCHANGED <<cfg, shown>> /\ phase' # "off"
    BY <2>5
  <2> QED
    <3>1. CASE Bind
      BY <2>5, <3>1 DEF Bind
    <3>2. CASE AcceptFails \/ Accept
      BY <2>5, <3>2 DEF AcceptFails, Accept, Begin
    <3>3. CASE BadUpgrade
      BY <2>5, <3>3 DEF BadUpgrade
    <3>4. CASE Upgrade
      BY <2>5, <3>4 DEF Upgrade, Begin
    <3>5. CASE ClientSends \/ ReadInfo \/ Checked
      BY <2>5, <3>5 DEF ClientSends, ReadInfo, Checked
    <3>6. CASE ReadPacket
      BY <2>5, <3>6 DEF ReadPacket
    <3>7. CASE Resolving
      BY <2>5, <3>7 DEF Resolving, Refuse
    <3>8. CASE Connect \/ ClientReads
      BY <2>5, <3>8 DEF Connect, ClientReads
    <3>9. CASE ConnectFails
      BY <2>5, <3>9 DEF ConnectFails, Refuse
    <3>10. CASE UNCHANGED vars
      BY <2>4, <3>10 DEF vars
    <3> QED
      BY <2>1, <2>2, <2>3, <3>1, <3>2, <3>3, <3>4, <3>5, <3>6, <3>7, <3>8, <3>9, <3>10 DEF Next
<1> QED
  BY <1>1, <1>2, PTL DEF Spec

\* Whatever prefix is configured, as long as it does not end with a slash, the
\* endpoint on the index page is served as a wisp client.
THEOREM EndpointServes == Spec => []AdvertisedEndpointServes
<1>1. EndpointInv => AdvertisedEndpointServes
  <2> SUFFICES ASSUME EndpointInv, shown # <<>>, Tidy(cfg.prefix)
               PROVE  RouteOf(cfg, shown, "none") = "wisp"
    BY DEF AdvertisedEndpointServes, Tidy
  <2>1. cfg.prefix \in Seq(Part) /\ shown = Endpoint(cfg)
    BY DEF EndpointInv
  <2>2. PICK q \in Seq(Part) : shown = q \o (cfg.prefix \o <<"/">>)
    BY <2>1, TidyEndpoint
  <2>3. cfg.prefix \o <<"/">> \in Seq(Part)
    BY <2>1, Slash, Joined
  <2>4. IsSuffix(cfg.prefix \o <<"/">>, shown)
    BY <2>2, <2>3, SuffixOfAppend
  <2> QED
    BY <2>4 DEF RouteOf
<1> QED
  BY <1>1, EndpointInvariant, PTL

-----------------------------------------------------------------------------
(* resolve says what the operator means. *)

LEMMA Least ==
  ASSUME NEW T, T \subseteq Nat, T # {}
  PROVE  \E x \in T : \A y \in T : x <= y
<1> DEFINE R == OpToRel(<, Nat)
<1>1. IsWellFoundedOn(R, Nat)
  BY NatLessThanWellFounded
<1>2. \A x, y \in Nat : y < x => <<y, x>> \in R
  BY DEF OpToRel
<1> HIDE DEF R
<1>3. \E x \in T : \A y \in T : ~(<<y, x>> \in R)
  BY <1>1, WFMin
<1>4. PICK x \in T : \A y \in T : ~(<<y, x>> \in R)
  BY <1>3
<1>5. \A y \in T : x <= y
  <2> SUFFICES ASSUME NEW y \in T PROVE x <= y
    OBVIOUS
  <2>1. x \in Nat /\ y \in Nat
    OBVIOUS
  <2>2. ~(y < x)
    BY <1>2, <1>4, <2>1
  <2> QED
    BY <2>1, <2>2
<1> QED
  BY <1>5

\* The address that is looked at is the first usable one of the answer.
LEMMA FirstIsUsable ==
  ASSUME NEW c, NEW ans \in Seq(Address), Usable(c, ans) # {}
  PROVE  \E i \in Usable(c, ans) : FirstUsable(c, ans) = ans[i] /\ \A j \in Usable(c, ans) : i <= j
<1>1. Usable(c, ans) \subseteq Nat
  BY DEF Usable
<1>2. \E i \in Usable(c, ans) : \A j \in Usable(c, ans) : i <= j
  BY <1>1, Least
<1> DEFINE i == CHOOSE i \in Usable(c, ans) : \A j \in Usable(c, ans) : i <= j
<1>3. i \in Usable(c, ans) /\ \A j \in Usable(c, ans) : i <= j
  BY <1>2
<1> QED
  BY <1>3 DEF FirstUsable

LEMMA ForbidsFirst ==
  ASSUME NEW c, NEW p, RequestPermitted(c, p), NEW ans \in Seq(Address), Usable(c, ans) # {}
  PROVE  LET first == FirstUsable(c, ans)
         IN /\ Forbids(c, p, ans) <=> ~AddressPermitted(c, first)
            /\ Misjudged(c, ans) <=> LinkLocal(first) /\ c.allow_global # c.allow_non_global
            /\ LinkLocal(first) => /\ BlockedByAddress(c, first) <=> ~c.allow_global
                                   /\ Forbids(c, p, ans) <=> ~c.allow_non_global
                                   /\ c.resolve_ipv6
            /\ ~LinkLocal(first) => (Forbids(c, p, ans) <=> BlockedByAddress(c, first))
<1>1. PICK i \in Usable(c, ans) : FirstUsable(c, ans) = ans[i] /\ \A j \in Usable(c, ans) : i <= j
  BY FirstIsUsable
<1>2. DOMAIN ans = 1 .. Len(ans) /\ \A k \in 1 .. Len(ans) : ans[k] \in Address
  OBVIOUS
<1>3. \A k \in 1 .. Len(ans) : Len(ans[k]) = 8 <=> ~IsV4(ans[k])
  BY <1>2, LenAddress
<1>4. i \in 1 .. Len(ans) /\ (c.resolve_ipv6 \/ IsV4(ans[i]))
  BY <1>1, <1>2 DEF Usable
<1>5. \A j \in 1 .. i - 1 : Len(ans[j]) = 8 /\ ~c.resolve_ipv6
  BY <1>1, <1>2, <1>3, <1>4 DEF Usable
<1>6. \A k \in 1 .. Len(ans) :
        (Len(ans[k]) = 8 => c.resolve_ipv6) /\ (\A j \in 1 .. k - 1 : Len(ans[j]) = 8 /\ ~c.resolve_ipv6) <=> k = i
  <2> SUFFICES ASSUME NEW k \in 1 .. Len(ans)
               PROVE  (Len(ans[k]) = 8 => c.resolve_ipv6) /\ (\A j \in 1 .. k - 1 : Len(ans[j]) = 8 /\ ~c.resolve_ipv6) <=> k = i
    OBVIOUS
  <2>1. CASE k = i
    BY <1>3, <1>4, <1>5, <2>1
  <2>2. CASE k < i
    <3>1. Len(ans[k]) = 8 /\ ~c.resolve_ipv6
      BY <1>4, <1>5, <2>2
    <3> QED
      BY <3>1, <2>2
  <2>3. CASE k > i
    <3>1. i \in 1 .. k - 1
      BY <1>4, <2>3
    <3>2. ~(Len(ans[i]) = 8 /\ ~c.resolve_ipv6)
      BY <1>3, <1>4
    <3> QED
      BY <2>3, <3>1, <3>2
  <2> QED
    BY <1>4, <2>1, <2>2, <2>3
<1>7. \A k \in DOMAIN ans : Decisive(c, ans, k) <=> k = i
  BY <1>2, <1>6 DEF Decisive
<1>8. Forbids(c, p, ans) <=> ~AddressPermitted(c, ans[i])
  BY <1>2, <1>4, <1>7 DEF Forbids
<1>9. Misjudged(c, ans) <=> LinkLocal(ans[i]) /\ c.allow_global # c.allow_non_global
  BY <1>2, <1>4, <1>7 DEF Misjudged
<1>10. ans[i] \in Address /\ (IsV4(ans[i]) \/ c.resolve_ipv6)
  BY <1>2, <1>4
<1>11. /\ ~LinkLocal(ans[i]) => (BlockedByAddress(c, ans[i]) <=> ~AddressPermitted(c, ans[i]))
       /\ LinkLocal(ans[i]) => /\ BlockedByAddress(c, ans[i]) <=> ~c.allow_global
                               /\ AddressPermitted(c, ans[i]) <=> c.allow_non_global
  BY <1>10, AddressDecision
<1>12. LinkLocal(ans[i]) => c.resolve_ipv6
  BY <1>2, <1>3, <1>4, <1>10, LinkLocalIs
<1> QED
  BY <1>1, <1>8, <1>9, <1>11, <1>12

StreamNames == {"Tcp", "Udp", "Other"}
Outcomes == {"wispnet", "command", "address", "error", "noaddrs", "blocked", "invalid"}

(* What the outcome of resolve says about the request. *)
Verdict(c, p, ans, r) ==
  /\ r.is \in Outcomes
  /\ ~Misjudged(c, ans) =>
       (r.is = "blocked" <=> ~ToWispnet(c, p) /\ TypeName(p) # "Other" /\ Forbids(c, p, ans))
  /\ Misjudged(c, ans) =>
       (r.is = "blocked" <=>
          ~ToWispnet(c, p) /\ TypeName(p) # "Other" /\ (~RequestPermitted(c, p) \/ ~c.allow_global))
  /\ r.is = "invalid" <=>
       /\ ~ToWispnet(c, p) /\ TypeName(p) = "Other"
       /\ p.stream_type.byte = TwispType => ~c.allow_twisp \/ ~c.wisp_v2
  /\ r.is = "address" =>
       /\ RequestPermitted(c, p)
       /\ AddressPermitted(c, r.addr) \/ (LinkLocal(r.addr) /\ c.resolve_ipv6 /\ c.allow_global)

\* resolve's outcome is the operator's will, for every configuration, request
\* and answer of the resolver, but where a link-local IPv6 address decides and
\* the operator treats global and other addresses differently: that address is
\* then refused if and only if global ones are.
THEOREM ResolveDecides ==
  ASSUME NEW c, NEW p, TypeName(p) \in StreamNames, NEW failed \in BOOLEAN, NEW ans \in Seq(Address),
         failed => ans = <<>>
  PROVE  Verdict(c, p, ans, Resolve(c, p, failed, ans))
<1> DEFINE r == Resolve(c, p, failed, ans)
<1>1. CASE ToWispnet(c, p)
  BY <1>1 DEF Verdict, Resolve, Outcomes
<1>2. CASE ~ToWispnet(c, p) /\ TypeName(p) = "Other"
  BY <1>2 DEF Verdict, Resolve, Outcomes
<1>3. CASE ~ToWispnet(c, p) /\ TypeName(p) # "Other"
  <2>1. TypeName(p) \in {"Tcp", "Udp"}
    BY <1>3 DEF StreamNames
  <2>2. BlockedByRequest(c, p) <=> ~RequestPermitted(c, p)
    BY <2>1, RequestDecision
  <2>3. CASE BlockedByRequest(c, p)
    <3>1. r = [is |-> "blocked"]
      BY <1>3, <2>3 DEF Resolve
    <3>2. Forbids(c, p, ans) /\ ~RequestPermitted(c, p)
      BY <2>2, <2>3 DEF Forbids
    <3> QED
      BY <1>3, <3>1, <3>2 DEF Verdict, Outcomes
  <2>4. CASE ~BlockedByRequest(c, p) /\ Usable(c, ans) = {}
    <3>1. r.is \in {"error", "noaddrs"}
      BY <1>3, <2>4 DEF Resolve
    <3>2. ~Forbids(c, p, ans) /\ ~Misjudged(c, ans)
      <4>1. DOMAIN ans = 1 .. Len(ans) /\ \A k \in 1 .. Len(ans) : ans[k] \in Address
        OBVIOUS
      <4>2. \A k \in 1 .. Len(ans) : ~c.resolve_ipv6 /\ Len(ans[k]) = 8
        BY <2>4, <4>1, LenAddress DEF Usable
      <4> QED
        BY <2>2, <2>4, <4>1, <4>2 DEF Forbids, Misjudged, Decisive
    <3> QED
      BY <1>3, <3>1, <3>2 DEF Verdict, Outcomes
  <2>5. CASE ~BlockedByRequest(c, p) /\ Usable(c, ans) # {}
    <3>1. ~failed
      BY <2>5 DEF Usable
    <3>2. r = IF BlockedByAddress(c, FirstUsable(c, ans)) THEN [is |-> "blocked"]
              ELSE [is |-> "address", addr |-> FirstUsable(c, ans)]
      BY <1>3, <2>5, <3>1 DEF Resolve
    <3> DEFINE first == FirstUsable(c, ans)
    <3>3. /\ Forbids(c, p, ans) <=> ~AddressPermitted(c, first)
          /\ Misjudged(c, ans) <=> LinkLocal(first) /\ c.allow_global # c.allow_non_global
          /\ LinkLocal(first) => /\ BlockedByAddress(c, first) <=> ~c.allow_global
                                 /\ Forbids(c, p, ans) <=> ~c.allow_non_global
                                 /\ c.resolve_ipv6
          /\ ~LinkLocal(first) => (Forbids(c, p, ans) <=> BlockedByAddress(c, first))
      BY <2>2, <2>5, ForbidsFirst
    <3>4. r = IF BlockedByAddress(c, first) THEN [is |-> "blocked"] ELSE [is |-> "address", addr |-> first]
      BY <3>2
    <3>5. RequestPermitted(c, p)
      BY <2>2, <2>5
    <3> HIDE DEF first, r
    <3>6. CASE BlockedByAddress(c, first)
      <4>1. r.is = "blocked"
        BY <3>4, <3>6
      <4>2. ~Misjudged(c, ans) => Forbids(c, p, ans)
        BY <3>3, <3>6
      <4>3. Misjudged(c, ans) => ~c.allow_global
        BY <3>3, <3>6
      <4> QED
        BY <1>3, <4>1, <4>2, <4>3 DEF Verdict, Outcomes, r
    <3>7. CASE ~BlockedByAddress(c, first)
      <4>1. r.is = "address" /\ r.addr = first
        BY <3>4, <3>7
      <4>2. ~Misjudged(c, ans) => ~Forbids(c, p, ans)
        BY <3>3, <3>7
      <4>3. Misjudged(c, ans) => c.allow_global
        BY <3>3, <3>7
      <4>4. AddressPermitted(c, first) \/ (LinkLocal(first) /\ c.resolve_ipv6 /\ c.allow_global)
        BY <3>3, <3>7
      <4> QED
        BY <1>3, <3>5, <4>1, <4>2, <4>3, <4>4 DEF Verdict, Outcomes, r
    <3> QED
      BY <3>6, <3>7
  <2> QED
    BY <2>3, <2>4, <2>5
<1> QED
  BY <1>1, <1>2, <1>3

-----------------------------------------------------------------------------
(* Packets as bytes. *)

LEMMA InByte ==
  ASSUME NEW x \in Int, 0 <= x, x <= 255
  PROVE  x \in Byte
  BY SMT DEF Byte

LEMMA InU16 ==
  ASSUME NEW x \in Int, 0 <= x, x <= 65535
  PROVE  x \in U16
<1>1. U16Max \in Int /\ x <= U16Max
  BY Top16, SMT
<1> QED
  BY <1>1, SMT DEF U16

LEMMA Halves ==
  ASSUME NEW n \in U16
  PROVE  /\ n % 256 \in Byte /\ n \div 256 \in Byte
         /\ (n % 256) + 256 * (n \div 256) = n
<1>1. n \in Int /\ 0 <= n /\ n < 65536
  BY Bounds16
<1>2. 0 <= n % 256 /\ n % 256 <= 255 /\ n % 256 \in Int
  BY <1>1, SMT
<1>3. 0 <= n \div 256 /\ n \div 256 <= 255 /\ n \div 256 \in Int
  BY <1>1, SMT
<1>4. (n % 256) + 256 * (n \div 256) = n
  BY <1>1, SMT
<1> QED
  BY <1>2, <1>3, <1>4, InByte, SMT

LEMMA Whole ==
  ASSUME NEW x \in Byte, NEW y \in Byte
  PROVE  x + 256 * y \in U16
<1>1. x \in Int /\ 0 <= x /\ x < 256 /\ y \in Int /\ 0 <= y /\ y < 256
  BY Bounds8
<1>2. 0 <= x + 256 * y /\ x + 256 * y <= 65535 /\ x + 256 * y \in Int
  BY <1>1, SMT
<1> QED
  BY <1>2, InU16, SMT

LEMMA PutU32Bytes ==
  ASSUME NEW u \in U32
  PROVE  /\ PutU32(u) \in Bytes /\ Len(PutU32(u)) = 4
         /\ PutU32(u)[1] = u[2] % 256 /\ PutU32(u)[2] = u[2] \div 256
         /\ PutU32(u)[3] = u[1] % 256 /\ PutU32(u)[4] = u[1] \div 256
<1>1. u[1] \in U16 /\ u[2] \in U16
  BY DEF U32
<1>2. u[1] % 256 \in Byte /\ u[1] \div 256 \in Byte /\ u[2] % 256 \in Byte /\ u[2] \div 256 \in Byte
  BY <1>1, Halves
<1> QED
  BY <1>2, SMT DEF PutU32, PutU16, Bytes

LEMMA GetU32Bytes ==
  ASSUME NEW b \in Bytes, Len(b) >= 4
  PROVE  /\ GetU32(b) = <<b[3] + 256 * b[4], b[1] + 256 * b[2]>>
         /\ GetU32(b) \in U32
<1>1. b[1] \in Byte /\ b[2] \in Byte /\ b[3] \in Byte /\ b[4] \in Byte
  BY DEF Bytes
<1>2. SubSeq(b, 3, 4)[1] = b[3] /\ SubSeq(b, 3, 4)[2] = b[4]
  BY DEF Bytes
<1>3. GetU32(b) = <<b[3] + 256 * b[4], b[1] + 256 * b[2]>>
  BY <1>2 DEF GetU32, GetU16
<1>4. b[3] + 256 * b[4] \in U16 /\ b[1] + 256 * b[2] \in U16
  BY <1>1, Whole
<1> QED
  BY <1>3, <1>4 DEF U32

\* A number that is written in four bytes is read as itself.
LEMMA U32RoundTrip ==
  ASSUME NEW u \in U32, NEW b \in Bytes, Len(b) >= 4, \A i \in 1 .. 4 : b[i] = PutU32(u)[i]
  PROVE  GetU32(b) = u
<1>1. u[1] \in U16 /\ u[2] \in U16 /\ u = <<u[1], u[2]>>
  BY DEF U32
<1>2. b[1] = u[2] % 256 /\ b[2] = u[2] \div 256 /\ b[3] = u[1] % 256 /\ b[4] = u[1] \div 256
  BY PutU32Bytes
<1>3. (u[1] % 256) + 256 * (u[1] \div 256) = u[1] /\ (u[2] % 256) + 256 * (u[2] \div 256) = u[2]
  BY <1>1, Halves
<1> QED
  BY <1>1, <1>2, <1>3, GetU32Bytes

LEMMA FromBytes ==
  ASSUME NEW b \in Bytes, NEW k \in 1 .. Len(b) + 1
  PROVE  /\ From(b, k) \in Bytes /\ Len(From(b, k)) = Len(b) - k + 1
         /\ \A i \in 1 .. Len(b) - k + 1 : From(b, k)[i] = b[k - 1 + i]
  BY DEF From, Bytes

LEMMA FromByteByte ==
  ASSUME NEW names, NEW b
  PROVE  FromByte(names, b).byte = b
  BY DEF FromByte, Named

LEMMA StreamTypeNames ==
  ASSUME NEW b
  PROVE  FromByte(StreamTypes, b).name \in StreamNames
  BY DEF FromByte, Named, StreamTypes, StreamNames

LEMMA CloseReasonRead ==
  ASSUME NEW n \in {"ServerStreamUnreachable", "ServerStreamBlockedAddress", "ServerStreamInvalidInfo"}
  PROVE  FromByte(CloseReasons, CloseReasons[n]) = Named(CloseReasons, n) /\ CloseReasons[n] \in Byte
<1>1. CloseReasons[n] \in {65, 66, 72} /\ n \in DOMAIN CloseReasons
  BY SMT DEF CloseReasons
<1>2. \A m \in DOMAIN CloseReasons : CloseReasons[m] = CloseReasons[n] => m = n
  BY SMT DEF CloseReasons
<1>3. CloseReasons[n] \in Byte
  BY <1>1, SMT DEF Byte
<1> QED
  BY <1>1, <1>2, <1>3 DEF FromByte

LEMMA Concat ==
  ASSUME NEW p \in Bytes, NEW q \in Bytes
  PROVE  /\ p \o q \in Bytes /\ Len(p \o q) = Len(p) + Len(q)
         /\ \A i \in 1 .. Len(p) : (p \o q)[i] = p[i]
         /\ \A i \in 1 .. Len(q) : (p \o q)[Len(p) + i] = q[i]
<1>1. p \o q \in Bytes /\ Len(p \o q) = Len(p) + Len(q)
  BY DEF Bytes
<1>2. \A i \in 1 .. Len(p) : (p \o q)[i] = p[i]
  BY DEF Bytes
<1>3. \A i \in 1 .. Len(q) : (p \o q)[Len(p) + i] = q[i]
  BY DEF Bytes
<1> QED
  BY <1>1, <1>2, <1>3

LEMMA EncodeShape ==
  ASSUME NEW p, p.type \in DOMAIN PacketTypes, p.id \in U32, EncodeBody(p) \in Bytes
  PROVE  /\ Encode(p) \in Bytes /\ Len(Encode(p)) = 5 + Len(EncodeBody(p))
         /\ Encode(p)[1] = PacketTypes[p.type]
         /\ \A i \in 1 .. 4 : Encode(p)[1 + i] = PutU32(p.id)[i]
         /\ \A i \in 1 .. Len(EncodeBody(p)) : Encode(p)[5 + i] = EncodeBody(p)[i]
<1> DEFINE u == PutU32(p.id)
           ty == PacketTypes[p.type]
           body == EncodeBody(p)
<1>1. u \in Bytes /\ Len(u) = 4
  BY PutU32Bytes
<1>2. ty \in Byte
  BY SMT DEF PacketTypes, Byte
<1>3. Encode(p) = <<ty>> \o u \o body
  BY DEF Encode
<1>4. body \in Bytes
  OBVIOUS
<1> HIDE DEF u, ty, body
<1> DEFINE h == <<ty>> \o u
<1>5. h \in Bytes /\ Len(h) = 5 /\ h[1] = ty /\ \A i \in 1 .. 4 : h[1 + i] = u[i]
  <2>1. <<ty>> \in Bytes /\ Len(<<ty>>) = 1 /\ <<ty>>[1] = ty
    BY <1>2 DEF Bytes
  <2>2. /\ h \in Bytes /\ Len(h) = Len(<<ty>>) + Len(u)
        /\ \A i \in 1 .. Len(<<ty>>) : h[i] = <<ty>>[i]
        /\ \A i \in 1 .. Len(u) : h[Len(<<ty>>) + i] = u[i]
    BY <1>1, <2>1, Concat
  <2> HIDE DEF h
  <2> QED
    BY <1>1, <2>1, <2>2
<1> HIDE DEF h
<1>6. /\ h \o body \in Bytes /\ Len(h \o body) = 5 + Len(body)
      /\ \A i \in 1 .. 5 : (h \o body)[i] = h[i]
      /\ \A i \in 1 .. Len(body) : (h \o body)[5 + i] = body[i]
  <2>1. /\ h \o body \in Bytes /\ Len(h \o body) = Len(h) + Len(body)
        /\ \A i \in 1 .. Len(h) : (h \o body)[i] = h[i]
        /\ \A i \in 1 .. Len(body) : (h \o body)[Len(h) + i] = body[i]
    BY <1>4, <1>5, Concat
  <2> DEFINE t == h \o body
  <2> HIDE DEF t
  <2>2. /\ t \in Bytes /\ Len(t) = 5 + Len(body)
        /\ \A i \in 1 .. 5 : t[i] = h[i]
        /\ \A i \in 1 .. Len(body) : t[5 + i] = body[i]
    BY <1>5, <2>1 DEF t
  <2> QED
    BY <2>2 DEF t
<1>7. (h \o body)[1] = ty /\ \A i \in 1 .. 4 : (h \o body)[1 + i] = u[i]
  BY <1>5, <1>6
<1>8. Encode(p) = h \o body
  BY <1>3 DEF h
<1> QED
  BY <1>6, <1>7, <1>8 DEF u, ty, body

LEMMA DecodeHead ==
  ASSUME NEW b \in Bytes, Len(b) >= 5, NEW u \in U32, \A i \in 1 .. 4 : b[1 + i] = PutU32(u)[i]
  PROVE  Decode(b) = DecodeBody(b[1], u, From(b, 6))
<1>1. From(b, 2) \in Bytes /\ Len(From(b, 2)) = Len(b) - 1 /\ \A i \in 1 .. Len(b) - 1 : From(b, 2)[i] = b[1 + i]
  <2>1. Len(b) \in Nat /\ 2 \in 1 .. Len(b) + 1
    BY DEF Bytes
  <2> QED
    BY <2>1, FromBytes
<1>2. Len(b) \in Nat
  BY DEF Bytes
<1>3. \A i \in 1 .. 4 : From(b, 2)[i] = PutU32(u)[i]
  BY <1>1, <1>2
<1>4. GetU32(From(b, 2)) = u
  BY <1>1, <1>2, <1>3, U32RoundTrip
<1> QED
  BY <1>2, <1>4 DEF Decode

Close(u, n) == [type |-> "close", id |-> u, reason |-> Named(CloseReasons, n)]
Told == {"ServerStreamUnreachable", "ServerStreamBlockedAddress", "ServerStreamInvalidInfo"}

\* The reason a CLOSE carries is the reason that is read from it.
LEMMA CloseRead ==
  ASSUME NEW u \in U32, NEW n \in Told
  PROVE  Decode(Encode(Close(u, n))) = Close(u, n)
<1> DEFINE p == Close(u, n)
           b == Encode(p)
           byte == CloseReasons[n]
<1>1. p.type = "close" /\ p.id = u /\ p.reason.byte = byte
  BY DEF Close, Named
<1>2. byte \in Byte /\ FromByte(CloseReasons, byte) = Named(CloseReasons, n)
  BY CloseReasonRead DEF Told
<1>3. EncodeBody(p) = <<byte>>
  BY <1>1 DEF EncodeBody
<1>4. PacketTypes["close"] = 4 /\ "close" \in DOMAIN PacketTypes
  BY DEF PacketTypes
<1> HIDE DEF p, byte
<1>5. <<byte>> \in Bytes /\ Len(<<byte>>) = 1 /\ <<byte>>[1] = byte
  BY <1>2 DEF Bytes
<1>6. /\ b \in Bytes /\ Len(b) = 6 /\ b[1] = 4
      /\ \A i \in 1 .. 4 : b[1 + i] = PutU32(u)[i]
      /\ b[6] = byte
  <2>1. /\ b \in Bytes /\ Len(b) = 5 + Len(<<byte>>) /\ b[1] = PacketTypes["close"]
        /\ \A i \in 1 .. 4 : b[1 + i] = PutU32(u)[i]
        /\ \A i \in 1 .. Len(<<byte>>) : b[5 + i] = <<byte>>[i]
    <3>1. EncodeBody(p) \in Bytes /\ p.type \in DOMAIN PacketTypes /\ p.id \in U32
      BY <1>1, <1>3, <1>4, <1>5
    <3>2. /\ Encode(p) \in Bytes /\ Len(Encode(p)) = 5 + Len(EncodeBody(p))
          /\ Encode(p)[1] = PacketTypes[p.type]
          /\ \A i \in 1 .. 4 : Encode(p)[1 + i] = PutU32(p.id)[i]
          /\ \A i \in 1 .. Len(EncodeBody(p)) : Encode(p)[5 + i] = EncodeBody(p)[i]
      BY <3>1, EncodeShape
    <3> QED
      BY <1>1, <1>3, <3>2
  <2> HIDE DEF b
  <2> QED
    BY <1>4, <1>5, <2>1
<1> HIDE DEF b
<1>7. From(b, 6) \in Bytes /\ Len(From(b, 6)) = 1 /\ From(b, 6)[1] = byte
  <2>1. 6 \in 1 .. Len(b) + 1
    BY <1>6
  <2>2. /\ From(b, 6) \in Bytes /\ Len(From(b, 6)) = Len(b) - 6 + 1
        /\ \A i \in 1 .. Len(b) - 6 + 1 : From(b, 6)[i] = b[6 - 1 + i]
    BY <1>6, <2>1, FromBytes
  <2> QED
    BY <1>6, <2>2
<1>8. Decode(b) = DecodeBody(4, u, From(b, 6))
  <2>1. b \in Bytes /\ Len(b) >= 5 /\ \A i \in 1 .. 4 : b[1 + i] = PutU32(u)[i]
    BY <1>6
  <2>2. Decode(b) = DecodeBody(b[1], u, From(b, 6))
    BY <2>1, DecodeHead
  <2> QED
    BY <1>6, <2>2
<1>9. DecodeBody(4, u, From(b, 6)) = DecodeClose(u, From(b, 6))
  BY DEF DecodeBody
<1>10. DecodeClose(u, From(b, 6)) = Close(u, n)
  BY <1>2, <1>7 DEF DecodeClose, Close
<1> QED
  BY <1>8, <1>9, <1>10 DEF b, p

\* A CONNECT that is read, of whatever bytes, has a stream type and an id.
LEMMA ReadConnect ==
  ASSUME NEW b \in Bytes, DecodeMaybeExtension(b, {}).type = "connect"
  PROVE  /\ TypeName(DecodeMaybeExtension(b, {})) \in StreamNames
         /\ DecodeMaybeExtension(b, {}).id \in U32
<1> DEFINE u == GetU32(From(b, 2))
           g == DecodeMaybeExtension(b, {})
           body == From(b, 6)
<1>1. Len(b) >= 5 /\ b[1] \in 1 .. 4 /\ g = Decode(b)
  BY DEF DecodeMaybeExtension, TooSmall, Error
<1>2. g = DecodeBody(b[1], u, body)
  BY <1>1 DEF Decode
<1>3. u \in U32
  <2>1. Len(b) \in Nat /\ 2 \in 1 .. Len(b) + 1
    BY <1>1 DEF Bytes
  <2>2. From(b, 2) \in Bytes /\ Len(From(b, 2)) >= 4
    BY <1>1, <2>1, FromBytes
  <2> QED
    BY <2>2, GetU32Bytes
<1> HIDE DEF u, body
<1>4. b[1] = 1 /\ g = DecodeConnect(u, body)
  BY <1>1, <1>2 DEF DecodeBody, DecodeContinue, DecodeClose, TooSmall, Error
<1> QED
  BY <1>3, <1>4, StreamTypeNames DEF DecodeConnect, TypeName, TooSmall, Error

LEMMA BodyBytes ==
  ASSUME NEW p \in PacketValues
  PROVE  p.type \in DOMAIN PacketTypes /\ p.id \in U32 /\ EncodeBody(p) \in Bytes
<1>1. CASE p \in [type : {"connect"}, id : U32, stream_type : {FromByte(StreamTypes, b) : b \in Byte}, port : U16,
                  host : Seq(Byte \ {BadText})]
  <2>1. p.type = "connect" /\ p.id \in U32 /\ p.port \in U16 /\ p.host \in Seq(Byte \ {BadText})
    BY <1>1
  <2>2. PICK b \in Byte : p.stream_type = FromByte(StreamTypes, b)
    BY <1>1
  <2>3. p.stream_type.byte \in Byte
    BY <2>2, FromByteByte
  <2>4. p.port % 256 \in Byte /\ p.port \div 256 \in Byte
    BY <2>1, Halves
  <2>5. <<p.stream_type.byte>> \in Bytes /\ PutU16(p.port) \in Bytes /\ p.host \in Bytes
    BY <2>1, <2>3, <2>4 DEF Bytes, PutU16
  <2>6. EncodeConnect(p) \in Bytes
    BY <2>5, Concat DEF EncodeConnect
  <2> QED
    BY <2>1, <2>6 DEF EncodeBody, PacketTypes
<1>2. CASE p \in [type : {"data"}, id : U32, data : Bytes]
  BY <1>2 DEF EncodeBody, PacketTypes
<1>3. CASE p \in [type : {"continue"}, id : U32, buffer_remaining : U32]
  BY <1>3, PutU32Bytes DEF EncodeBody, PacketTypes
<1>4. CASE p \in [type : {"close"}, id : U32, reason : {FromByte(CloseReasons, b) : b \in Byte}]
  <2>1. PICK b \in Byte : p.reason = FromByte(CloseReasons, b)
    BY <1>4
  <2>2. p.reason.byte \in Byte
    BY <2>1, FromByteByte
  <2>3. <<p.reason.byte>> \in Bytes
    BY <2>2 DEF Bytes
  <2> QED
    BY <1>4, <2>3 DEF EncodeBody, PacketTypes
<1> QED
  BY <1>1, <1>2, <1>3, <1>4 DEF PacketValues

-----------------------------------------------------------------------------
(* From the request to the open socket or the refusal.  The decision is made  *)
(* in one step; that nothing it was made from changes until the socket is     *)
(* opened or the client has read its CLOSE is what the invariant adds.        *)

Deciding == {"read", "resolve", "connect", "open", "refused", "told"}
Accepted == {"address", "command", "wispnet"}
Refusals == {"error", "noaddrs", "blocked", "invalid"}

Request(p) == TypeName(p) \in StreamNames /\ (p.type = "connect" => p.id \in U32)

(* The refusal is resolve's, or the destination of what it accepted is down. *)
Cause(is) == is = result.is \/ (is = "error" /\ result.is \in Accepted)

DecisionInv ==
  /\ phase = "read" => wire \in Bytes
  /\ phase \in {"resolve", "connect", "open", "refused", "told"} => Request(asked)
  /\ phase \in {"connect", "open", "refused", "told"} => Verdict(cfg, asked, answer, result)
  /\ phase = "connect" => result.is \in Accepted
  /\ phase = "refused" => /\ asked.type = "connect"
                          /\ \E is \in Refusals : Cause(is) /\ wire = Encode(Close(asked.id, ReasonFor(is)))
  /\ phase = "told" => \E is \in Refusals : Cause(is) /\ told = ReasonFor(is)

LEMMA Elsewhere ==
  ASSUME phase' \notin Deciding
  PROVE  DecisionInv'
  BY DEF DecisionInv, Deciding

LEMMA ReasonsTold ==
  ASSUME NEW is \in Refusals
  PROVE  ReasonFor(is) \in Told
  BY DEF ReasonFor, Refusals, Told

LEMMA RefuseStep ==
  ASSUME NEW is \in Refusals, Refuse(is), asked' = asked, Request(asked),
         Verdict(cfg', asked', answer', result'), Cause(is)'
  PROVE  DecisionInv'
<1>1. CASE asked.type = "connect"
  <2>1. phase' = "refused" /\ wire' = Encode(Close(asked'.id, ReasonFor(is)))
    BY <1>1 DEF Refuse, Close
  <2> QED
    BY <1>1, <2>1 DEF DecisionInv, Request
<1>2. CASE asked.type # "connect"
  BY <1>2, Elsewhere DEF Refuse, Deciding
<1> QED
  BY <1>1, <1>2

LEMMA AnswerTypes ==
  ASSUME NEW host
  PROVE  AnswersFor(host) \subseteq Seq(Address) /\ <<>> \in Seq(Address)
<1>1. CASE host \in DOMAIN Literals
  <2>1. Literals[host] \in Address
    BY <1>1, PolicyAssumption
  <2> QED
    BY <1>1, <2>1 DEF AnswersFor
<1>2. CASE host \notin DOMAIN Literals
  BY <1>2, AdmissionAssumption DEF AnswersFor
<1> QED
  BY <1>1, <1>2

LEMMA DecisionInvariant == Spec => []DecisionInv
<1>1. Init => DecisionInv
  BY DEF Init, DecisionInv
<1>2. DecisionInv /\ [Next]_vars => DecisionInv'
  <2> SUFFICES ASSUME DecisionInv, [Next]_vars
               PROVE  DecisionInv'
    OBVIOUS
  <2>1. CASE Boot \/ Bind \/ AcceptFails \/ Accept \/ Plain \/ BadUpgrade \/ Unserved \/ ReadInfo \/ Checked
    <3>1. phase' \notin Deciding
      BY <2>1 DEF Boot, Bind, AcceptFails, Accept, Begin, Plain, BadUpgrade, Unserved, ReadInfo, Checked, Deciding
    <3> QED
      BY <3>1, Elsewhere
  <2>2. CASE Upgrade
    <3>1. CASE phase' = "resolve"
      <4>1. PICK req \in Requests, t \in Targets :
              asked' = [type |-> "wsproxy",
                        stream_type |-> Named(StreamTypes, IF req.query = "udp" THEN "Udp" ELSE "Tcp"),
                        port |-> t.port, host |-> t.host]
        BY <2>2, <3>1 DEF Upgrade
      <4>2. Request(asked')
        BY <4>1 DEF Request, TypeName, Named, StreamNames
      <4> QED
        BY <3>1, <4>2 DEF DecisionInv
    <3>2. CASE phase' # "resolve"
      <4>1. phase' \notin Deciding
        BY <2>2, <3>2 DEF Upgrade, Begin, Deciding
      <4> QED
        BY <4>1, Elsewhere
    <3> QED
      BY <3>1, <3>2
  <2>3. CASE ClientSends
    <3>1. CASE phase = "info"
      BY <2>3, <3>1, Elsewhere DEF ClientSends, Deciding
    <3>2. CASE phase # "info"
      <4>1. phase' = "read"
        BY <2>3, <3>2 DEF ClientSends
      <4>2. PICK p \in Packets : \E n \in 0 .. Len(Encode(p)) : wire' = SubSeq(Encode(p), 1, n)
        BY <2>3, <3>2 DEF ClientSends
      <4>3. Encode(p) \in Bytes
        BY AdmissionAssumption, BodyBytes, EncodeShape
      <4>4. wire' \in Bytes
        BY <4>2, <4>3 DEF Bytes
      <4> QED
        BY <4>1, <4>4 DEF DecisionInv
    <3> QED
      BY <3>1, <3>2
  <2>4. CASE ReadPacket
    <3>1. CASE got'.type = "connect"
      <4>1. phase' = "resolve" /\ asked' = DecodeMaybeExtension(wire, {}) /\ asked'.type = "connect"
        BY <2>4, <3>1 DEF ReadPacket
      <4>2. wire \in Bytes
        BY <2>4 DEF ReadPacket, DecisionInv
      <4>3. Request(asked')
        BY <4>1, <4>2, ReadConnect DEF Request
      <4> QED
        BY <4>1, <4>3 DEF DecisionInv
    <3>2. CASE got'.type # "connect"
      <4>1. phase' \notin Deciding
        BY <2>4, <3>2 DEF ReadPacket, Deciding
      <4> QED
        BY <4>1, Elsewhere
    <3> QED
      BY <3>1, <3>2
  <2>5. CASE Resolving
    <3>1. PICK failed \in BOOLEAN :
            /\ answer' \in IF NeedsAddress(cfg, asked) /\ ~failed THEN AnswersFor(asked.host) ELSE {<<>>}
            /\ result' = Resolve(cfg, asked, failed, answer')
            /\ IF result'.is \in {"address", "command", "wispnet"}
               THEN phase' = "connect" /\ UNCHANGED <<told, wire>>
               ELSE Refuse(result'.is)
      BY <2>5 DEF Resolving
    <3>2. answer' \in Seq(Address) /\ (failed => answer' = <<>>)
      BY <3>1, AnswerTypes
    <3>3. Request(asked) /\ UNCHANGED <<cfg, asked>>
      BY <2>5 DEF Resolving, DecisionInv
    <3>4. Verdict(cfg, asked, answer', result')
      BY <3>1, <3>2, <3>3, ResolveDecides DEF Request
    <3>5. Verdict(cfg', asked', answer', result')
      BY <3>3, <3>4
    <3>6. CASE result'.is \in Accepted
      BY <3>1, <3>3, <3>5, <3>6 DEF DecisionInv, Accepted
    <3>7. CASE result'.is \notin Accepted
      <4>1. result'.is \in Refusals
        BY <3>4, <3>7 DEF Verdict, Outcomes, Accepted, Refusals
      <4>2. Refuse(result'.is) /\ Cause(result.is)'
        BY <3>1, <3>7 DEF Accepted, Cause
      <4> QED
        BY <3>3, <3>5, <4>1, <4>2, RefuseStep
    <3> QED
      BY <3>6, <3>7
  <2>6. CASE Connect
    BY <2>6 DEF Connect, DecisionInv
  <2>7. CASE ConnectFails
    <3>1. UNCHANGED <<cfg, asked, answer, result>> /\ phase = "connect"
      BY <2>7 DEF ConnectFails
    <3>2. Request(asked) /\ Verdict(cfg', asked', answer', result') /\ result.is \in Accepted
      BY <3>1 DEF DecisionInv
    <3>3. CASE phase' = "task panic"
      BY <3>3, Elsewhere DEF Deciding
    <3>4. CASE Refuse("error")
      <4>1. "error" \in Refusals /\ Cause("error")'
        BY <3>1, <3>2 DEF Refusals, Cause
      <4> QED
        BY <3>1, <3>2, <3>4, <4>1, RefuseStep
    <3> QED
      BY <2>7, <3>3, <3>4 DEF ConnectFails
  <2>8. CASE ClientReads
    <3>1. phase = "refused" /\ phase' = "told" /\ UNCHANGED <<cfg, asked, answer, result>>
      BY <2>8 DEF ClientReads
    <3>2. PICK is \in Refusals : Cause(is) /\ wire = Encode(Close(asked.id, ReasonFor(is)))
      BY <3>1 DEF DecisionInv
    <3>3. asked.id \in U32
      BY <3>1 DEF DecisionInv, Request
    <3>4. Decode(wire) = Close(asked.id, ReasonFor(is))
      BY <3>2, <3>3, ReasonsTold, CloseRead
    <3>5. told' = ReasonFor(is)
      BY <2>8, <3>4 DEF ClientReads, Close, Named
    <3>6. Cause(is)'
      BY <3>1, <3>2 DEF Cause
    <3> QED
      BY <3>1, <3>5, <3>6 DEF DecisionInv
  <2>9. CASE UNCHANGED vars
    BY <2>9 DEF vars, wireVars, DecisionInv, Cause
  <2> QED
    BY <2>1, <2>2, <2>3, <2>4, <2>5, <2>6, <2>7, <2>8, <2>9 DEF Next
<1> QED
  BY <1>1, <1>2, PTL DEF Spec

\* A socket is opened only for a request and to an address that the operator
\* permits, whatever the configuration, the request and the resolver's answer;
\* to a link-local IPv6 address also if he permits only global ones.
THEOREM OnlyPermittedOpened == Spec => []AdmittedIsPermitted
<1>1. DecisionInv => AdmittedIsPermitted
  BY DEF DecisionInv, AdmittedIsPermitted, Verdict
<1> QED
  BY <1>1, DecisionInvariant, PTL

\* The reason a client reads in its CLOSE is the true one.
THEOREM RefusalsAreTrue == Spec => []RefusalExplained
<1>1. DecisionInv => RefusalExplained
  <2> SUFFICES ASSUME DecisionInv, phase = "told"
               PROVE  /\ told \in Told
                      /\ ~Misjudged(cfg, answer) =>
                           (told = "ServerStreamBlockedAddress" <=>
                              /\ ~ToWispnet(cfg, asked) /\ TypeName(asked) # "Other"
                              /\ Forbids(cfg, asked, answer))
                      /\ told = "ServerStreamInvalidInfo" <=>
                           /\ ~ToWispnet(cfg, asked) /\ TypeName(asked) = "Other"
                           /\ asked.stream_type.byte = TwispType => ~cfg.allow_twisp \/ ~cfg.wisp_v2
    BY DEF RefusalExplained, Told
  <2>1. PICK is \in Refusals : Cause(is) /\ told = ReasonFor(is)
    BY DEF DecisionInv
  <2>2. Verdict(cfg, asked, answer, result)
    BY DEF DecisionInv
  <2>3. told \in Told
    BY <2>1, ReasonsTold
  <2>4. /\ told = "ServerStreamBlockedAddress" <=> is = "blocked"
        /\ told = "ServerStreamInvalidInfo" <=> is = "invalid"
    BY <2>1 DEF ReasonFor, Refusals
  <2>5. (is = "blocked" <=> result.is = "blocked") /\ (is = "invalid" <=> result.is = "invalid")
    BY <2>1 DEF Cause, Accepted
  <2> QED
    BY <2>2, <2>3, <2>4, <2>5 DEF Verdict
<1> QED
  BY <1>1, DecisionInvariant, PTL

-----------------------------------------------------------------------------
(* A packet, or a piece of one, is read as what was sent. *)

Piece(b, n) == SubSeq(b, 1, n)

LEMMA PieceBytes ==
  ASSUME NEW b \in Bytes, NEW n \in 0 .. Len(b)
  PROVE  /\ Piece(b, n) \in Bytes /\ Len(Piece(b, n)) = n
         /\ \A i \in 1 .. n : Piece(b, n)[i] = b[i]
         /\ n = Len(b) => Piece(b, n) = b
  BY DEF Piece, Bytes

LEMMA SameBytes ==
  ASSUME NEW b \in Bytes, NEW c \in Bytes, Len(b) = Len(c), \A i \in 1 .. Len(b) : b[i] = c[i]
  PROVE  b = c
  BY DEF Bytes

\* Whoever reads at least the header hands the right id and the rest of the
\* piece to the decoder of the packet's type.
LEMMA ReadPiece ==
  ASSUME NEW p \in PacketValues, NEW n \in 0 .. Len(Encode(p))
  PROVE  LET g == DecodeMaybeExtension(Piece(Encode(p), n), {})
         IN IF n < 5 THEN g = TooSmall
            ELSE /\ n - 5 \in 0 .. Len(EncodeBody(p))
                 /\ g = DecodeBody(PacketTypes[p.type], p.id, Piece(EncodeBody(p), n - 5))
<1> DEFINE e == Encode(p)
           w == Piece(e, n)
           body == EncodeBody(p)
<1>1. p.type \in DOMAIN PacketTypes /\ p.id \in U32 /\ body \in Bytes
  BY BodyBytes
<1>2. /\ e \in Bytes /\ Len(e) = 5 + Len(body) /\ e[1] = PacketTypes[p.type]
      /\ \A i \in 1 .. 4 : e[1 + i] = PutU32(p.id)[i]
      /\ \A i \in 1 .. Len(body) : e[5 + i] = body[i]
  BY <1>1, EncodeShape
<1>3. n \in 0 .. Len(e) /\ n \in Nat /\ Len(body) \in Nat
  BY <1>1, <1>2 DEF Bytes
<1> HIDE DEF e, body
<1>4. w \in Bytes /\ Len(w) = n /\ \A i \in 1 .. n : w[i] = e[i]
  BY <1>2, <1>3, PieceBytes
<1> HIDE DEF w
<1>5. CASE n < 5
  <2>1. DecodeMaybeExtension(w, {}) = TooSmall
    BY <1>3, <1>4, <1>5 DEF DecodeMaybeExtension
  <2> QED
    BY <1>5, <2>1 DEF w, e
<1>6. CASE n >= 5
  <2>1. n - 5 \in 0 .. Len(body)
    BY <1>2, <1>3, <1>6
  <2>2. w[1] = PacketTypes[p.type] /\ \A i \in 1 .. 4 : w[1 + i] = PutU32(p.id)[i]
    BY <1>2, <1>3, <1>4, <1>6
  <2>3. PacketTypes[p.type] \in 1 .. 4
    BY <1>1 DEF PacketTypes
  <2>4. DecodeMaybeExtension(w, {}) = Decode(w)
    BY <1>3, <1>4, <1>6, <2>2, <2>3 DEF DecodeMaybeExtension
  <2>5. Decode(w) = DecodeBody(PacketTypes[p.type], p.id, From(w, 6))
    BY <1>1, <1>4, <1>6, <2>2, DecodeHead
  <2>6. From(w, 6) = Piece(body, n - 5)
    <3>1. 6 \in 1 .. Len(w) + 1
      BY <1>3, <1>4, <1>6
    <3>2. /\ From(w, 6) \in Bytes /\ Len(From(w, 6)) = Len(w) - 6 + 1
          /\ \A i \in 1 .. Len(w) - 6 + 1 : From(w, 6)[i] = w[6 - 1 + i]
      BY <1>4, <3>1, FromBytes
    <3>3. /\ Piece(body, n - 5) \in Bytes /\ Len(Piece(body, n - 5)) = n - 5
          /\ \A i \in 1 .. n - 5 : Piece(body, n - 5)[i] = body[i]
      BY <1>1, <2>1, PieceBytes
    <3>4. Len(From(w, 6)) = n - 5
      BY <1>3, <1>4, <3>2
    <3>5. \A i \in 1 .. n - 5 : From(w, 6)[i] = Piece(body, n - 5)[i]
      <4> SUFFICES ASSUME NEW i \in 1 .. n - 5
                   PROVE  From(w, 6)[i] = Piece(body, n - 5)[i]
        OBVIOUS
      <4>1. i \in 1 .. Len(w) - 6 + 1 /\ 6 - 1 + i = 5 + i /\ 5 + i \in 1 .. n /\ i \in 1 .. Len(body)
        BY <1>2, <1>3, <1>4, <2>1
      <4>2. From(w, 6)[i] = w[5 + i] /\ w[5 + i] = e[5 + i] /\ e[5 + i] = body[i]
        BY <1>2, <1>4, <3>2, <4>1
      <4> QED
        BY <3>3, <4>2
    <3> QED
      BY <3>2, <3>3, <3>4, <3>5, SameBytes
  <2>7. DecodeMaybeExtension(w, {}) = DecodeBody(PacketTypes[p.type], p.id, Piece(body, n - 5))
    BY <2>4, <2>5, <2>6
  <2>8. ~(n < 5)
    BY <1>3, <1>6
  <2> QED
    BY <2>1, <2>7, <2>8 DEF w, e, body
<1> QED
  BY <1>3, <1>5, <1>6

(* DecodedAsSent without INFO. *)
ReadsAs(s, w, g) ==
  IF w = Encode(s) THEN g = s
  ELSE g.type = "error" \/ (g.type = s.type /\ g.id = s.id /\ s.type \in {"data", "connect"})

LEMMA ConnectBody ==
  ASSUME NEW p, p.type = "connect", p.port \in U16, p.host \in Bytes, p.stream_type.byte \in Byte
  PROVE  LET b == EncodeBody(p)
         IN /\ b \in Bytes /\ Len(b) = 3 + Len(p.host) /\ b[1] = p.stream_type.byte
            /\ b[2] = p.port % 256 /\ b[3] = p.port \div 256
            /\ \A i \in 1 .. Len(p.host) : b[3 + i] = p.host[i]
<1> DEFINE ty == p.stream_type.byte
           lo == p.port % 256
           hi == p.port \div 256
           host == p.host
           h == <<ty>> \o <<lo, hi>>
<1>1. ty \in Byte /\ lo \in Byte /\ hi \in Byte /\ host \in Bytes
  BY Halves
<1>2. EncodeBody(p) = h \o host
  BY DEF EncodeBody, EncodeConnect, PutU16
<1> HIDE DEF ty, lo, hi, host
<1>3. h \in Bytes /\ Len(h) = 3 /\ h[1] = ty /\ h[2] = lo /\ h[3] = hi
  BY <1>1 DEF Bytes
<1> HIDE DEF h
<1>4. /\ h \o host \in Bytes /\ Len(h \o host) = Len(h) + Len(host)
      /\ \A i \in 1 .. Len(h) : (h \o host)[i] = h[i]
      /\ \A i \in 1 .. Len(host) : (h \o host)[Len(h) + i] = host[i]
  BY <1>1, <1>3, Concat
<1> DEFINE t == h \o host
<1> HIDE DEF t
<1>5. /\ t \in Bytes /\ Len(t) = 3 + Len(host) /\ t[1] = ty /\ t[2] = lo /\ t[3] = hi
      /\ \A i \in 1 .. Len(host) : t[3 + i] = host[i]
  BY <1>3, <1>4 DEF t
<1> QED
  BY <1>2, <1>5 DEF t, ty, lo, hi, host

\* Stream type, port and host of a CONNECT survive the wire.
LEMMA ConnectRead ==
  ASSUME NEW p, p \in [type : {"connect"}, id : U32, stream_type : {FromByte(StreamTypes, b) : b \in Byte}, port : U16,
                       host : Seq(Byte \ {BadText})]
  PROVE  DecodeConnect(p.id, EncodeBody(p)) = p
<1> DEFINE b == EncodeBody(p)
<1>1. p.type = "connect" /\ p.port \in U16 /\ p.host \in Seq(Byte \ {BadText})
  OBVIOUS
<1>2. PICK ty \in Byte : p.stream_type = FromByte(StreamTypes, ty)
  OBVIOUS
<1>3. p.stream_type.byte = ty
  BY <1>2, FromByteByte
<1>4. p.host \in Bytes /\ Len(p.host) \in Nat
  BY <1>1 DEF Bytes
<1>5. /\ b \in Bytes /\ Len(b) = 3 + Len(p.host) /\ b[1] = ty
      /\ b[2] = p.port % 256 /\ b[3] = p.port \div 256
      /\ \A i \in 1 .. Len(p.host) : b[3 + i] = p.host[i]
  BY <1>1, <1>3, <1>4, ConnectBody
<1> HIDE DEF b
<1> b \in Bytes
  BY <1>5
<1>6. GetU16(From(b, 2)) = p.port
  <2>1. 2 \in 1 .. Len(b) + 1
    BY <1>4, <1>5
  <2>2. \A i \in 1 .. Len(b) - 2 + 1 : From(b, 2)[i] = b[2 - 1 + i]
    BY <2>1, FromBytes, Zenon
  <2>3. From(b, 2)[1] = b[2] /\ From(b, 2)[2] = b[3]
    BY <1>4, <1>5, <2>2
  <2> QED
    BY <1>1, <1>5, <2>3, Halves DEF GetU16
<1>7. From(b, 4) = p.host
  <2>1. 4 \in 1 .. Len(b) + 1
    BY <1>4, <1>5
  <2>2. /\ From(b, 4) \in Bytes /\ Len(From(b, 4)) = Len(b) - 4 + 1
        /\ \A i \in 1 .. Len(b) - 4 + 1 : From(b, 4)[i] = b[4 - 1 + i]
    BY <2>1, FromBytes, Zenon
  <2>3. Len(From(b, 4)) = Len(p.host)
    BY <1>4, <1>5, <2>2
  <2>4. \A i \in 1 .. Len(p.host) : From(b, 4)[i] = p.host[i]
    BY <1>4, <1>5, <2>2
  <2> QED
    BY <1>4, <2>2, <2>3, <2>4, SameBytes
<1>8. BadText \notin {b[i] : i \in 4 .. Len(b)}
  <2> SUFFICES ASSUME NEW i \in 4 .. Len(b)
               PROVE  b[i] # BadText
    OBVIOUS
  <2>1. i - 3 \in 1 .. Len(p.host) /\ 3 + (i - 3) = i
    BY <1>4, <1>5
  <2>2. b[i] = p.host[i - 3]
    BY <1>5, <2>1
  <2>3. p.host[i - 3] \in Byte \ {BadText}
    BY <1>1, <2>1
  <2> QED
    BY <2>2, <2>3
<1>9. ~(Len(b) < 3)
  BY <1>4, <1>5
<1>10. DecodeConnect(p.id, b) = [type |-> "connect", id |-> p.id, stream_type |-> p.stream_type,
                                 port |-> p.port, host |-> p.host]
  BY <1>2, <1>5, <1>6, <1>7, <1>8, <1>9 DEF DecodeConnect
<1> QED
  BY <1>10 DEF b

\* Whatever packet is sent and wherever it is cut, it is read as itself, or the
\* piece is refused, or read as the same packet with less text or data.
THEOREM PacketRead ==
  ASSUME NEW p \in PacketValues, NEW n \in 0 .. Len(Encode(p))
  PROVE  ReadsAs(p, Piece(Encode(p), n), DecodeMaybeExtension(Piece(Encode(p), n), {}))
<1> DEFINE e == Encode(p)
           w == Piece(e, n)
           g == DecodeMaybeExtension(w, {})
           body == EncodeBody(p)
           part == Piece(body, n - 5)
<1>1. p.type \in DOMAIN PacketTypes /\ p.id \in U32 /\ body \in Bytes /\ Len(body) \in Nat
  BY BodyBytes DEF Bytes
<1>2. e \in Bytes /\ Len(e) = 5 + Len(body)
  BY <1>1, EncodeShape
<1>3. IF n < 5 THEN g = TooSmall
      ELSE n - 5 \in 0 .. Len(body) /\ g = DecodeBody(PacketTypes[p.type], p.id, part)
  BY ReadPiece
<1>4. n \in Nat /\ n <= Len(e) /\ Len(w) = n
  BY <1>2, PieceBytes DEF Bytes
<1>5. w = e => n = 5 + Len(body)
  BY <1>2, <1>4
<1>6. TooSmall.type = "error"
  BY DEF TooSmall, Error
<1>7. CASE n < 5
  BY <1>1, <1>3, <1>5, <1>6, <1>7 DEF ReadsAs
<1>8. ASSUME ~(n < 5)
      PROVE  ReadsAs(p, w, g)
  <2>1. /\ n - 5 \in 0 .. Len(body) /\ g = DecodeBody(PacketTypes[p.type], p.id, part)
        /\ part \in Bytes /\ Len(part) = n - 5
    BY <1>1, <1>3, <1>8, PieceBytes
  <2>2. w = e => part = body
    BY <1>1, <1>5, <2>1, PieceBytes
  <2> HIDE DEF e, w, g, body, part
  <2>3. w # e => n - 5 < Len(body)
    <3>1. n = Len(e) => w = e
      BY <1>2, <1>4, PieceBytes DEF w, e
    <3> QED
      BY <1>1, <1>2, <1>4, <3>1
  <2>4. CASE p \in [type : {"connect"}, id : U32, stream_type : {FromByte(StreamTypes, b) : b \in Byte}, port : U16,
                    host : Seq(Byte \ {BadText})]
    <3>1. p.type = "connect" /\ g = DecodeConnect(p.id, part)
      BY <2>1, <2>4 DEF DecodeBody, PacketTypes
    <3>2. w = e => g = p
      BY <2>2, <2>4, <3>1, ConnectRead DEF body
    <3>3. g.type = "error" \/ (g.type = "connect" /\ g.id = p.id)
      BY <3>1 DEF DecodeConnect, TooSmall, Error
    <3> QED
      BY <3>1, <3>2, <3>3 DEF ReadsAs, e
  <2>5. CASE p \in [type : {"data"}, id : U32, data : Bytes]
    <3>1. p.type = "data" /\ g = [type |-> "data", id |-> p.id, data |-> part]
      BY <2>1, <2>5 DEF DecodeBody, PacketTypes
    <3>2. body = p.data
      BY <3>1 DEF body, EncodeBody
    <3>3. w = e => g = p
      BY <2>2, <2>5, <3>1, <3>2
    <3> QED
      BY <3>1, <3>3 DEF ReadsAs, e
  <2>6. CASE p \in [type : {"continue"}, id : U32, buffer_remaining : U32]
    <3>1. p.type = "continue" /\ p.buffer_remaining \in U32 /\ g = DecodeContinue(p.id, part)
      BY <2>1, <2>6 DEF DecodeBody, PacketTypes
    <3>2. body = PutU32(p.buffer_remaining) /\ Len(body) = 4
      BY <3>1, PutU32Bytes DEF body, EncodeBody
    <3>3. w # e => g.type = "error"
      BY <1>6, <2>1, <2>3, <3>1, <3>2 DEF DecodeContinue
    <3>4. w = e => g = p
      <4> SUFFICES ASSUME w = e PROVE g = p
        OBVIOUS
      <4>1. part \in Bytes /\ Len(part) >= 4 /\ \A i \in 1 .. 4 : part[i] = PutU32(p.buffer_remaining)[i]
        <5>1. part = body
          BY <2>2
        <5>2. Len(part) = 4 /\ \A i \in 1 .. 4 : part[i] = PutU32(p.buffer_remaining)[i]
          BY <3>2, <5>1
        <5>3. Len(part) >= 4
          BY <5>2
        <5>4. part \in Bytes
          BY <2>1
        <5> QED
          BY <5>2, <5>3, <5>4, Zenon
      <4>2. GetU32(part) = p.buffer_remaining
        BY <3>1, <4>1, U32RoundTrip
      <4>3. ~(Len(part) < 4)
        <5>1. Len(part) = 4
          BY <2>2, <3>2
        <5> QED
          BY <5>1
      <4>4. g = [type |-> "continue", id |-> p.id, buffer_remaining |-> p.buffer_remaining]
        BY <3>1, <4>2, <4>3 DEF DecodeContinue
      <4> QED
        BY <2>6, <4>4
    <3> QED
      BY <3>3, <3>4 DEF ReadsAs, e
  <2>7. CASE p \in [type : {"close"}, id : U32, reason : {FromByte(CloseReasons, b) : b \in Byte}]
    <3>1. p.type = "close" /\ g = DecodeClose(p.id, part)
      BY <2>1, <2>7 DEF DecodeBody, PacketTypes
    <3>2. PICK b \in Byte : p.reason = FromByte(CloseReasons, b)
      BY <2>7
    <3>3. body = <<b>> /\ Len(body) = 1 /\ body[1] = b
      BY <3>1, <3>2, FromByteByte DEF body, EncodeBody
    <3>4. w # e => g.type = "error"
      BY <1>6, <2>1, <2>3, <3>1, <3>3 DEF DecodeClose
    <3>5. w = e => g = [type |-> "close", id |-> p.id, reason |-> p.reason]
      <4>1. w = e => Len(part) = 1 /\ part[1] = b
        BY <2>2, <3>3
      <4> QED
        BY <3>1, <3>2, <4>1 DEF DecodeClose
    <3>6. w = e => g = p
      BY <2>7, <3>5
    <3> QED
      BY <3>4, <3>6 DEF ReadsAs, e
  <2> QED
    BY <2>4, <2>5, <2>6, <2>7 DEF PacketValues
<1> QED
  BY <1>7, <1>8

(* What is on the wire is a piece of what was sent until it is read. *)
PacketsAsSent == got # Nothing /\ sent # Nothing /\ sent.type # "info" => ReadsAs(sent, wire, got)

ReadInv ==
  /\ phase = "read info" => sent.type = "info"
  /\ phase = "read" => /\ sent \in PacketValues
                       /\ \E n \in 0 .. Len(Encode(sent)) : wire = Piece(Encode(sent), n)
  /\ phase \in {"connect", "refused"} => got = Nothing
  /\ PacketsAsSent

LEMMA ReadInvariant == Spec => []ReadInv
<1>1. Init => ReadInv
  BY DEF Init, ReadInv, PacketsAsSent
<1>2. ReadInv /\ [Next]_vars => ReadInv'
  <2> SUFFICES ASSUME ReadInv, [Next]_vars
               PROVE  ReadInv'
    OBVIOUS
  <2>1. ASSUME UNCHANGED wireVars, phase' \notin {"read info", "read", "connect", "refused"}
        PROVE  ReadInv'
    BY <2>1 DEF ReadInv, PacketsAsSent, wireVars
  <2>2. CASE Boot \/ Bind \/ AcceptFails \/ Accept \/ Plain \/ BadUpgrade \/ Unserved
    <3>1. UNCHANGED wireVars /\ phase' \notin {"read info", "read", "connect", "refused"}
      BY <2>2 DEF Boot, Bind, AcceptFails, Accept, Begin, Plain, BadUpgrade, Unserved
    <3> QED
      BY <2>1, <3>1
  <2>3. CASE Upgrade
    <3>1. UNCHANGED wireVars /\ phase' \notin {"read info", "read", "connect", "refused"}
      BY <2>3 DEF Upgrade, Begin
    <3> QED
      BY <2>1, <3>1
  <2>4. CASE ClientSends
    <3>1. got' = Nothing
      BY <2>4 DEF ClientSends
    <3>2. CASE phase = "info"
      <4>1. phase' = "read info" /\ sent' \in Infos
        BY <2>4, <3>2 DEF ClientSends
      <4>2. sent'.type = "info"
        BY <4>1, AdmissionAssumption
      <4> QED
        BY <3>1, <4>1, <4>2 DEF ReadInv, PacketsAsSent
    <3>3. CASE phase # "info"
      <4>1. phase' = "read"
        BY <2>4, <3>3 DEF ClientSends
      <4>2. PICK p \in Packets : sent' = p /\ \E n \in 0 .. Len(Encode(p)) : wire' = Piece(Encode(p), n)
        BY <2>4, <3>3 DEF ClientSends, Piece
      <4>3. sent' \in PacketValues
        BY <4>2, AdmissionAssumption
      <4> QED
        BY <3>1, <4>1, <4>2, <4>3 DEF ReadInv, PacketsAsSent
    <3> QED
      BY <3>2, <3>3
  <2>5. CASE ReadInfo
    <3>1. sent'.type = "info" /\ phase' \notin {"read info", "read", "connect", "refused"}
      BY <2>5 DEF ReadInfo, ReadInv
    <3> QED
      BY <3>1 DEF ReadInv, PacketsAsSent
  <2>6. CASE ReadPacket
    <3>1. phase' \notin {"read info", "read", "connect", "refused"}
      BY <2>6 DEF ReadPacket
    <3>2. sent' = sent /\ wire' = wire /\ got' = DecodeMaybeExtension(wire, {}) /\ sent \in PacketValues
      BY <2>6 DEF ReadPacket, ReadInv
    <3>3. PICK n \in 0 .. Len(Encode(sent)) : wire = Piece(Encode(sent), n)
      BY <2>6 DEF ReadPacket, ReadInv
    <3>4. ReadsAs(sent, wire, DecodeMaybeExtension(wire, {}))
      BY <3>2, <3>3, PacketRead
    <3>5. ReadsAs(sent', wire', got')
      BY <3>2, <3>4
    <3> QED
      BY <3>1, <3>5 DEF ReadInv, PacketsAsSent
  <2>7. CASE Checked \/ Resolving
    <3>1. got' = Nothing /\ phase' \notin {"read info", "read"}
      BY <2>7 DEF Checked, Resolving, Refuse
    <3> QED
      BY <3>1 DEF ReadInv, PacketsAsSent
  <2>8. CASE Connect \/ ConnectFails \/ ClientReads
    <3>1. got' = Nothing /\ phase' \notin {"read info", "read"}
      BY <2>8 DEF Connect, ConnectFails, ClientReads, Refuse, ReadInv, wireVars
    <3> QED
      BY <3>1 DEF ReadInv, PacketsAsSent
  <2>9. CASE UNCHANGED vars
    BY <2>9 DEF vars, wireVars, ReadInv, PacketsAsSent
  <2> QED
    BY <2>2, <2>3, <2>4, <2>5, <2>6, <2>7, <2>8, <2>9 DEF Next
<1> QED
  BY <1>1, <1>2, PTL DEF Spec

\* DecodedAsSent for every packet but INFO: numbers, text and data of any
\* length arrive as they were sent, and no piece of a packet is taken for
\* another packet.
THEOREM PacketsReadAsSent == Spec => [](sent # Nothing /\ sent.type # "info" => DecodedAsSent)
<1>1. ReadInv => (sent # Nothing /\ sent.type # "info" => DecodedAsSent)
  BY DEF ReadInv, PacketsAsSent, ReadsAs, DecodedAsSent
<1> QED
  BY <1>1, ReadInvariant, PTL
=============================================================================
