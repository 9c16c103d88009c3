--------------------------- MODULE StorageProofs ----------------------------
(***************************************************************************)
(* Proofs about Storage and the blocks it is built on, for any number of   *)
(* addresses, storages and sizes: the state keeps its types, and the       *)
(* allocator's list is exactly the blocks in use; every block in use has   *)
(* one owner, what a storage hands out is apart from everything else, and  *)
(* a damaged block stays where it is.                                      *)
(***************************************************************************)
EXTENDS Storage, LeastNumber, SequenceTheorems

AnyHeader == Header(Pointers \union {Filled})
Chains == [first : Pointers, header : [Addresses -> AnyHeader]]

\* o[1] .. o[n] are different addresses.
Listing(o, n) ==
  /\ \A i \in 1 .. n : o[i] \in Addresses
  /\ \A i, j \in 1 .. n : o[i] = o[j] => i = j

\* The chain c links o[1] .. o[n] both ways.
Linked(c, o, n) ==
  /\ c.first = IF n = 0 THEN Null ELSE o[1]
  /\ \A i \in 1 .. n :
       /\ c.header[o[i]].next = IF i = n THEN Null ELSE o[i + 1]
       /\ c.header[o[i]].prev = IF i = 1 THEN Null ELSE o[i - 1]

-----------------------------------------------------------------------------
(* The three changes of the list.                                          *)

Headers == [Addresses -> AnyHeader]

\* What SetPrev and SetNext change in the blocks' headers.
LEMMA PrevSet ==
  ASSUME NEW h \in Headers, NEW a \in Pointers, NEW p \in Pointers
  PROVE  /\ SetPrev(h, a, p) \in Headers
         /\ \A b \in Addresses :
              /\ SetPrev(h, a, p)[b].prev = IF b = a THEN p ELSE h[b].prev
              /\ SetPrev(h, a, p)[b].next = h[b].next
              /\ SetPrev(h, a, p)[b].mark = h[b].mark
              /\ SetPrev(h, a, p)[b].size = h[b].size
BY NullAssumption DEF SetPrev, Headers, AnyHeader, Header, Pointers

LEMMA NextSet ==
  ASSUME NEW h \in Headers, NEW a \in Pointers, NEW p \in Pointers
  PROVE  /\ SetNext(h, a, p) \in Headers
         /\ \A b \in Addresses :
              /\ SetNext(h, a, p)[b].next = IF b = a THEN p ELSE h[b].next
              /\ SetNext(h, a, p)[b].prev = h[b].prev
              /\ SetNext(h, a, p)[b].mark = h[b].mark
              /\ SetNext(h, a, p)[b].size = h[b].size
BY NullAssumption DEF SetNext, Headers, AnyHeader, Header, Pointers

LEMMA ChainMade ==
  ASSUME NEW f \in Pointers, NEW h \in Headers, NEW c, c = [first |-> f, header |-> h]
  PROVE  c \in Chains /\ c.first = f /\ c.header = h
BY DEF Chains, Headers

LEMMA HeaderSet ==
  ASSUME NEW c \in Chains, NEW a \in Addresses, NEW h \in AnyHeader
  PROVE  /\ SetHeader(c, a, h) \in Chains
         /\ SetHeader(c, a, h).first = c.first
         /\ SetHeader(c, a, h).header[a] = h
         /\ \A b \in Addresses \ {a} : SetHeader(c, a, h).header[b] = c.header[b]
BY DEF SetHeader, Chains

LEMMA NoHeaderType == NoHeader \in AnyHeader
BY DEF NoHeader, AnyHeader, Header

\* A new block becomes the first one.
LEMMA Chained ==
  ASSUME NEW c \in Chains, NEW o, NEW n \in Nat, Listing(o, n), Linked(c, o, n),
         NEW a \in Addresses, \A i \in 1 .. n : o[i] # a,
         NEW h \in AnyHeader,
         NEW o2, o2[1] = a, \A i \in 1 .. n : o2[i + 1] = o[i]
  PROVE  /\ ChainBlock(SetHeader(c, a, h), a) \in Chains
         /\ Listing(o2, n + 1)
         /\ Linked(ChainBlock(SetHeader(c, a, h), a), o2, n + 1)
<1> DEFINE d == SetHeader(c, a, h)
           e == ChainBlock(d, a)
<1>1. /\ d \in Chains /\ d.first = c.first /\ d.first # a
      /\ \A b \in Addresses \ {a} : d.header[b] = c.header[b]
  <2>1. d = [first |-> c.first, header |-> [c.header EXCEPT ![a] = h]]
    BY DEF SetHeader, Chains
  <2>2. d \in Chains /\ d.first = c.first /\ \A b \in Addresses \ {a} : d.header[b] = c.header[b]
    BY <2>1 DEF Chains
  <2>3. c.first # a
    BY NullAssumption DEF Linked
  <2>. QED BY <2>2, <2>3
<1>2. /\ e \in Chains /\ e.first = a
      /\ e.header[a].prev = Null /\ e.header[a].next = c.first
      /\ \A b \in Addresses \ {a} :
           /\ e.header[b].next = c.header[b].next
           /\ e.header[b].prev = IF b = c.first THEN a ELSE c.header[b].prev
  <2>1. d.header \in Headers /\ d.first \in Pointers /\ a \in Pointers
    BY <1>1 DEF Chains, Pointers, Headers
  <2> HIDE DEF d
  <2>2. SetPrev(d.header, d.first, a) \in Headers
    BY <2>1, PrevSet
  <2>3. \A b \in Addresses \ {a} :
           /\ SetPrev(d.header, d.first, a)[b].next = c.header[b].next
           /\ SetPrev(d.header, d.first, a)[b].prev = IF b = c.first THEN a ELSE c.header[b].prev
    <3>1. \A b \in Addresses :
             /\ SetPrev(d.header, d.first, a)[b].next = d.header[b].next
             /\ SetPrev(d.header, d.first, a)[b].prev = IF b = d.first THEN a ELSE d.header[b].prev
      BY <2>1, PrevSet, SMTT(30)
    <3>. QED BY ONLY <1>1, <3>1
  <2>4. /\ e \in Chains /\ e.first = a
        /\ e.header[a].prev = Null /\ e.header[a].next = d.first
        /\ \A b \in Addresses \ {a} : e.header[b] = SetPrev(d.header, d.first, a)[b]
    BY <2>1, <2>2 DEF ChainBlock, Chains, Headers, AnyHeader, Header, Pointers
  <2>. QED BY <1>1, <2>3, <2>4
<1>3. \A i \in 2 .. n + 1 : i - 1 \in 1 .. n /\ o2[i] = o[i - 1]
  OBVIOUS
<1>4. Listing(o2, n + 1)
  BY <1>3 DEF Listing
<1>5. Linked(e, o2, n + 1)
  <2>1. e.first = o2[1]
    BY <1>2
  <2>2. /\ e.header[o2[1]].next = IF 1 = n + 1 THEN Null ELSE o2[2]
        /\ e.header[o2[1]].prev = Null
    BY <1>2, <1>3 DEF Linked
  <2>3. ASSUME NEW i \in 2 .. n + 1
        PROVE  /\ e.header[o2[i]].next = IF i = n + 1 THEN Null ELSE o2[i + 1]
               /\ e.header[o2[i]].prev = o2[i - 1]
    <3>1. o2[i] = o[i - 1] /\ o[i - 1] \in Addresses \ {a} /\ i - 1 \in 1 .. n
      BY <1>3 DEF Listing
    <3>2. e.header[o2[i]].next = IF i = n + 1 THEN Null ELSE o2[i + 1]
      BY <1>2, <1>3, <3>1 DEF Linked
    <3>3. CASE i = 2
      BY <1>2, <3>1, <3>2, <3>3 DEF Linked
    <3>4. CASE i > 2
      <4>1. o[i - 1] # c.first /\ o2[i - 1] = o[i - 2]
        BY <1>3, <3>1, <3>4 DEF Linked, Listing
      <4>2. c.header[o[i - 1]].prev = o[i - 2]
        BY <3>1, <3>4 DEF Linked
      <4>. QED BY <1>2, <3>1, <3>2, <4>1, <4>2
    <3>. QED BY <3>3, <3>4
  <2>. QED BY <2>1, <2>2, <2>3 DEF Linked
<1>. QED BY <1>2, <1>4, <1>5

\* What UnchainBlock does to a block of the list, and to all the others.
LEMMA Unchained ==
  ASSUME NEW c \in Chains, NEW o, NEW n \in Nat, Listing(o, n), Linked(c, o, n),
         NEW k \in 1 .. n, NEW p, p = o[k]
  PROVE  /\ UnchainBlock(c, p) \in Chains
         /\ p \in Addresses
         /\ c.header[p].prev = (IF k = 1 THEN Null ELSE o[k - 1])
         /\ c.header[p].next = (IF k = n THEN Null ELSE o[k + 1])
         /\ c.header[p].prev \in Pointers /\ c.header[p].next \in Pointers
         /\ UnchainBlock(c, p).first = IF k = 1 THEN c.header[p].next ELSE c.first
         /\ \A b \in Addresses :
              /\ UnchainBlock(c, p).header[b].next =
                   IF b = c.header[p].prev THEN c.header[p].next ELSE c.header[b].next
              /\ UnchainBlock(c, p).header[b].prev =
                   IF b = c.header[p].next THEN c.header[p].prev ELSE c.header[b].prev
<1>1. PICK before, after : before = c.header[p].prev /\ after = c.header[p].next
  OBVIOUS
<1>2. /\ p \in Addresses
      /\ before = (IF k = 1 THEN Null ELSE o[k - 1])
      /\ after = (IF k = n THEN Null ELSE o[k + 1])
      /\ before \in Pointers /\ after \in Pointers /\ (before = Null <=> k = 1)
  BY <1>1, NullAssumption DEF Linked, Listing, Pointers
<1>3. PICK h : h = SetPrev(c.header, after, before)
  OBVIOUS
<1>4. c.header \in Headers /\ c.first \in Pointers
  BY DEF Chains, Headers
<1>5. /\ h \in Headers
      /\ \A b \in Addresses :
           h[b].next = c.header[b].next /\ h[b].prev = IF b = after THEN before ELSE c.header[b].prev
  BY <1>2, <1>3, <1>4, PrevSet, SMTT(30)
<1>6. PICK g : g = SetNext(h, before, after)
  OBVIOUS
<1>7. /\ g \in Headers
      /\ \A b \in Addresses :
           g[b].prev = h[b].prev /\ g[b].next = IF b = before THEN after ELSE h[b].next
  BY <1>2, <1>5, <1>6, NextSet
<1>8. UnchainBlock(c, p) = [first |-> IF before = Null THEN after ELSE c.first, header |-> g]
  BY <1>1, <1>3, <1>6 DEF UnchainBlock
<1>9. /\ UnchainBlock(c, p) \in Chains /\ UnchainBlock(c, p).header = g
      /\ UnchainBlock(c, p).first = IF k = 1 THEN after ELSE c.first
  <2>1. PICK first : first = IF before = Null THEN after ELSE c.first
    OBVIOUS
  <2>2. first \in Pointers /\ first = IF k = 1 THEN after ELSE c.first
    BY <1>2, <1>4, <2>1
  <2>3. UnchainBlock(c, p) = [first |-> first, header |-> g]
    BY ONLY <1>8, <2>1
  <2>4. g \in Headers
    BY <1>7
  <2>5. PICK u : u = UnchainBlock(c, p)
    OBVIOUS
  <2>6. u \in Chains /\ u.first = first /\ u.header = g
    BY <2>2, <2>3, <2>4, <2>5, ChainMade
  <2>. QED BY ONLY <2>2, <2>5, <2>6
<1>. QED BY <1>1, <1>2, <1>5, <1>7, <1>9

\* A block leaves the list.
LEMMA Removed ==
  ASSUME NEW c \in Chains, NEW o, NEW n \in Nat, Listing(o, n), Linked(c, o, n),
         NEW k \in 1 .. n, NEW p, p = o[k],
         NEW o2, \A i \in 1 .. n - 1 : o2[i] = o[IF i < k THEN i ELSE i + 1]
  PROVE  /\ SetHeader(UnchainBlock(c, p), p, NoHeader) \in Chains
         /\ Listing(o2, n - 1)
         /\ Linked(SetHeader(UnchainBlock(c, p), p, NoHeader), o2, n - 1)
<1>1. PICK before, after : before = c.header[p].prev /\ after = c.header[p].next
  OBVIOUS
<1>2. PICK d : d = UnchainBlock(c, p)
  OBVIOUS
<1>3. /\ d \in Chains /\ p \in Addresses
      /\ before = (IF k = 1 THEN Null ELSE o[k - 1])
      /\ after = (IF k = n THEN Null ELSE o[k + 1])
      /\ d.first = IF k = 1 THEN after ELSE c.first
      /\ \A b \in Addresses :
           /\ d.header[b].next = IF b = before THEN after ELSE c.header[b].next
           /\ d.header[b].prev = IF b = after THEN before ELSE c.header[b].prev
  BY <1>1, <1>2, Unchained
<1>4. PICK e : e = SetHeader(d, p, NoHeader)
  OBVIOUS
<1>5. e \in Chains /\ e.first = d.first /\ \A b \in Addresses \ {p} : e.header[b] = d.header[b]
  BY <1>3, <1>4 DEF SetHeader, Chains, NoHeader, AnyHeader, Header
<1>6. Listing(o2, n - 1)
  BY DEF Listing
<1>7. ASSUME NEW i \in 1 .. n, i # k
      PROVE  /\ o[i] \in Addresses \ {p}
             /\ e.header[o[i]].next = (IF i = k - 1 THEN after ELSE IF i = n THEN Null ELSE o[i + 1])
             /\ e.header[o[i]].prev = (IF i = k + 1 THEN before ELSE IF i = 1 THEN Null ELSE o[i - 1])
  <2>1. o[i] \in Addresses \ {p}
    BY <1>7 DEF Listing
  <2>2. /\ c.header[o[i]].next = IF i = n THEN Null ELSE o[i + 1]
        /\ c.header[o[i]].prev = IF i = 1 THEN Null ELSE o[i - 1]
    BY DEF Linked
  <2>3. o[i] = before <=> i = k - 1
    BY <1>3, <2>1, NullAssumption DEF Listing
  <2>4. o[i] = after <=> i = k + 1
    BY <1>3, <2>1, NullAssumption DEF Listing
  <2>. QED BY <1>3, <1>5, <2>1, <2>2, <2>3, <2>4
<1>8. e.first = IF n - 1 = 0 THEN Null ELSE o2[1]
  BY <1>3, <1>5 DEF Linked
<1>9. ASSUME NEW i \in 1 .. n - 1
      PROVE  /\ e.header[o2[i]].next = IF i = n - 1 THEN Null ELSE o2[i + 1]
             /\ e.header[o2[i]].prev = IF i = 1 THEN Null ELSE o2[i - 1]
  <2>1. CASE i < k
    <3>1. o2[i] = o[i] /\ i \in 1 .. n /\ i # k /\ i # k + 1
      BY <2>1
    <3>2. e.header[o2[i]].prev = IF i = 1 THEN Null ELSE o2[i - 1]
      BY <1>7, <2>1, <3>1
    <3>3. e.header[o2[i]].next = IF i = n - 1 THEN Null ELSE o2[i + 1]
      BY <1>3, <1>7, <2>1, <3>1
    <3>. QED BY <3>2, <3>3
  <2>2. CASE i >= k
    <3>1. o2[i] = o[i + 1] /\ i + 1 \in 1 .. n /\ i + 1 # k /\ i + 1 # k - 1
      BY <2>2
    <3>2. e.header[o2[i]].next = IF i = n - 1 THEN Null ELSE o2[i + 1]
      BY <1>7, <2>2, <3>1
    <3>3. e.header[o2[i]].prev = IF i = 1 THEN Null ELSE o2[i - 1]
      BY <1>3, <1>7, <2>2, <3>1
    <3>. QED BY <3>2, <3>3
  <2>. QED BY <2>1, <2>2
<1>. QED BY <1>2, <1>4, <1>5, <1>6, <1>8, <1>9 DEF Linked

\* A block has got a new header, at a new place or where it was, that is not
\* in the list yet.
LEMMA Moved ==
  ASSUME NEW c \in Chains, NEW o, NEW n \in Nat, Listing(o, n), Linked(c, o, n),
         NEW k \in 1 .. n, NEW p, p = o[k], NEW a \in Addresses,
         NEW new \in AnyHeader
  PROVE  LET u == UnchainBlock(c, p)
             d == SetHeader(SetHeader(u, p, NoHeader), a, new)
         IN  /\ d \in Chains /\ d.first = u.first /\ d.header[a] = new
             /\ \A b \in Addresses \ {a, p} : d.header[b] = u.header[b]
<1>1. PICK u : u = UnchainBlock(c, p)
  OBVIOUS
<1>2. u \in Chains /\ p \in Addresses
  BY <1>1, Unchained
<1>3. PICK e : e = SetHeader(u, p, NoHeader)
  OBVIOUS
<1>4. e \in Chains /\ e.first = u.first /\ \A b \in Addresses \ {p} : e.header[b] = u.header[b]
  <2>1. u \in Chains /\ p \in Addresses /\ NoHeader \in AnyHeader
    BY <1>2, NoHeaderType
  <2>2. /\ SetHeader(u, p, NoHeader) \in Chains
        /\ SetHeader(u, p, NoHeader).first = u.first
        /\ \A b \in Addresses \ {p} : SetHeader(u, p, NoHeader).header[b] = u.header[b]
    BY ONLY <2>1, HeaderSet
  <2>. QED BY ONLY <1>3, <2>2
<1>5. PICK d : d = SetHeader(e, a, new)
  OBVIOUS
<1>6. /\ d \in Chains /\ d.first = e.first /\ d.header[a] = new
      /\ \A b \in Addresses \ {a} : d.header[b] = e.header[b]
  BY <1>4, <1>5, HeaderSet
<1>. QED BY <1>1, <1>3, <1>4, <1>5, <1>6

\* Its neighbours are made to point to it.
LEMMA Replaced ==
  ASSUME NEW c \in Chains, NEW o, NEW n \in Nat, Listing(o, n), Linked(c, o, n),
         NEW k \in 1 .. n, NEW p, p = o[k],
         NEW a \in Addresses, \A i \in 1 .. n : o[i] = a => i = k,
         NEW new, new.prev = c.header[p].prev, new.next = c.header[p].next,
         NEW d \in Chains, d.first = UnchainBlock(c, p).first, d.header[a] = new,
         \A b \in Addresses \ {a, p} : d.header[b] = UnchainBlock(c, p).header[b],
         NEW o2, \A i \in 1 .. n : o2[i] = IF i = k THEN a ELSE o[i]
  PROVE  /\ RechainBlock(d, a) \in Chains
         /\ Listing(o2, n)
         /\ Linked(RechainBlock(d, a), o2, n)
<1>1. PICK before, after : before = c.header[p].prev /\ after = c.header[p].next
  OBVIOUS
<1>2. PICK u : u = UnchainBlock(c, p)
  OBVIOUS
<1>3. /\ u \in Chains /\ p \in Addresses
      /\ before = (IF k = 1 THEN Null ELSE o[k - 1])
      /\ after = (IF k = n THEN Null ELSE o[k + 1])
      /\ before \in Pointers /\ after \in Pointers
      /\ u.first = IF k = 1 THEN after ELSE c.first
      /\ \A b \in Addresses :
           /\ u.header[b].next = IF b = before THEN after ELSE c.header[b].next
           /\ u.header[b].prev = IF b = after THEN before ELSE c.header[b].prev
  BY <1>1, <1>2, Unchained
<1>5. new.prev = before /\ new.next = after
  BY <1>1
<1>6. /\ d.first = u.first /\ d.header[a] = new
      /\ \A b \in Addresses \ {a, p} : d.header[b] = u.header[b]
  BY <1>2
<1>7. d.header \in Headers /\ d.first \in Pointers /\ a \in Pointers
  BY DEF Chains, Headers, Pointers
<1>8. PICK h : h = SetPrev(d.header, after, a)
  OBVIOUS
<1>9. /\ h \in Headers
      /\ \A b \in Addresses :
           h[b].next = d.header[b].next /\ h[b].prev = IF b = after THEN a ELSE d.header[b].prev
  <2>1. after \in Pointers /\ d.header \in Headers /\ a \in Pointers
    BY <1>3, <1>7
  <2>. QED BY ONLY <1>8, <2>1, PrevSet, SMTT(30)
<1>10. PICK g : g = SetNext(h, before, a)
  OBVIOUS
<1>11. /\ g \in Headers
       /\ \A b \in Addresses :
            g[b].prev = h[b].prev /\ g[b].next = IF b = before THEN a ELSE h[b].next
  <2>1. before \in Pointers /\ h \in Headers /\ a \in Pointers
    BY <1>3, <1>7, <1>9
  <2>. QED BY ONLY <1>10, <2>1, NextSet
<1>12. PICK f : f = RechainBlock(d, a)
  OBVIOUS
<1>13. /\ f \in Chains /\ f.header = g
       /\ f.first = IF k = 1 THEN a ELSE c.first
  <2>1. PICK first : first = IF before = Null THEN a ELSE d.first
    OBVIOUS
  <2>2. first \in Pointers /\ first = IF k = 1 THEN a ELSE c.first
    BY <1>3, <1>6, <1>7, <2>1, NullAssumption DEF Listing
  <2>3. f = [first |-> first, header |-> g]
    BY <1>5, <1>6, <1>8, <1>10, <1>12, <2>1 DEF RechainBlock
  <2>4. f \in Chains /\ f.first = first /\ f.header = g
    BY <1>11, <2>2, <2>3, ChainMade
  <2>. QED BY ONLY <2>2, <2>4
<1>14. Listing(o2, n)
  BY DEF Listing
<1>15. /\ f.header[a].next = (IF k = n THEN Null ELSE o[k + 1])
       /\ f.header[a].prev = (IF k = 1 THEN Null ELSE o[k - 1])
  <2>1. a # before /\ a # after
    BY <1>3, NullAssumption
  <2>. QED BY <1>3, <1>5, <1>6, <1>9, <1>11, <1>13, <2>1
<1>16. ASSUME NEW i \in 1 .. n, i # k
       PROVE  /\ f.header[o[i]].next = (IF i = k - 1 THEN a ELSE IF i = n THEN Null ELSE o[i + 1])
              /\ f.header[o[i]].prev = (IF i = k + 1 THEN a ELSE IF i = 1 THEN Null ELSE o[i - 1])
  <2>1. o[i] \in Addresses \ {a, p}
    BY <1>16 DEF Listing
  <2>2. /\ c.header[o[i]].next = IF i = n THEN Null ELSE o[i + 1]
        /\ c.header[o[i]].prev = IF i = 1 THEN Null ELSE o[i - 1]
    BY DEF Linked
  <2>3. o[i] = before <=> i = k - 1
    BY <1>3, <2>1, NullAssumption DEF Listing
  <2>4. o[i] = after <=> i = k + 1
    BY <1>3, <2>1, NullAssumption DEF Listing
  <2>5. /\ u.header[o[i]].next = IF i = k - 1 THEN after ELSE c.header[o[i]].next
        /\ u.header[o[i]].prev = IF i = k + 1 THEN before ELSE c.header[o[i]].prev
    BY <1>3, <2>1, <2>3, <2>4
  <2>6. d.header[o[i]] = u.header[o[i]]
    BY <1>6, <2>1
  <2>. QED BY <1>9, <1>11, <1>13, <2>1, <2>2, <2>3, <2>4, <2>5, <2>6
<1>17. f.first = IF n = 0 THEN Null ELSE o2[1]
  BY <1>13 DEF Linked
<1>18. ASSUME NEW i \in 1 .. n
       PROVE  /\ f.header[o2[i]].next = IF i = n THEN Null ELSE o2[i + 1]
              /\ f.header[o2[i]].prev = IF i = 1 THEN Null ELSE o2[i - 1]
  <2>1. CASE i = k
    BY <1>15, <2>1
  <2>2. CASE i # k
    BY <1>16, <2>2
  <2>. QED BY <2>1, <2>2
<1>. QED BY <1>12, <1>13, <1>14, <1>17, <1>18 DEF Linked

-----------------------------------------------------------------------------
(* The operations on blocks.                                               *)

BlocksInv == BlocksTypeOK /\ ChainIsExact

LEMMA HeadersInUse ==
  ASSUME NEW c \in Chains, NEW o, NEW n \in Nat, Listing(o, n), Linked(c, o, n)
  PROVE  \A i \in 1 .. n : c.header[o[i]] \in Header(Pointers)
<1> SUFFICES ASSUME NEW i \in 1 .. n PROVE c.header[o[i]] \in Header(Pointers)
  OBVIOUS
<1>1. c.header[o[i]] \in Header(Pointers \union {Filled})
  BY DEF Chains, AnyHeader, Listing
<1>2. c.header[o[i]].next \in Pointers /\ c.header[o[i]].prev \in Pointers
  BY DEF Linked, Listing, Pointers
<1>. QED BY <1>1, <1>2 DEF Header

\* The invariant, in terms of Listing and Linked.
LEMMA BlocksFacts ==
  ASSUME BlocksInv
  PROVE  /\ chain \in Chains /\ Len(order) \in Nat
         /\ Listing(order, Len(order)) /\ Linked(chain, order, Len(order))
         /\ \A b : b \in used <=> \E i \in 1 .. Len(order) : order[i] = b
<1>1. chain \in Chains /\ order \in Seq(Addresses)
  BY DEF BlocksInv, BlocksTypeOK, Chains, AnyHeader
<1>2. Len(order) \in Nat /\ \A i \in 1 .. Len(order) : order[i] \in Addresses
  BY <1>1, ElementOfSeq, LenProperties
<1>3. Listing(order, Len(order))
  BY <1>2 DEF BlocksInv, ChainIsExact, Listing
<1>4. order = <<>> <=> Len(order) = 0
  BY <1>1, <1>2, EmptySeq
<1>5. Linked(chain, order, Len(order))
  BY <1>4 DEF BlocksInv, ChainIsExact, Linked, Follows, Precedes
<1>. QED BY <1>1, <1>2, <1>3, <1>5 DEF BlocksInv, ChainIsExact

LEMMA BlocksRecognized ==
  ASSUME chain' \in Chains, order' \in Seq(Addresses), NEW n \in Nat, n = Len(order'),
         Listing(order', n), Linked(chain', order', n),
         \A b : b \in used' <=> \E i \in 1 .. n : order'[i] = b,
         mode' \in {"run", "exit", "abort"}
  PROVE  BlocksInv'
<1>1. \A i \in 1 .. n : order'[i] \in Addresses /\ chain'.header[order'[i]] \in Header(Pointers)
  BY HeadersInUse DEF Listing
<1>2. BlocksTypeOK'
  BY <1>1 DEF BlocksTypeOK, Chains, AnyHeader
<1>3. order' = <<>> <=> n = 0
  BY EmptySeq
<1>4. used' = {order'[i] : i \in 1 .. n}
  OBVIOUS
<1>5. ChainIsExact'
  <2>1. chain'.first = IF order' = <<>> THEN Null ELSE order'[1]
    BY <1>3 DEF Linked
  <2>2. \A i \in 1 .. n :
          /\ chain'.header[order'[i]].next = Follows(i)'
          /\ chain'.header[order'[i]].prev = Precedes(i)'
    BY DEF Linked, Follows, Precedes
  <2>3. \A i, j \in 1 .. n : order'[i] = order'[j] => i = j
    BY DEF Listing
  <2>. QED BY <1>4, <2>1, <2>2, <2>3 DEF ChainIsExact
<1>. QED BY <1>2, <1>5 DEF BlocksInv

LEMMA MallocInv ==
  ASSUME BlocksInv, NEW a, NEW size \in Nat, MallocBlock(a, size)
  PROVE  BlocksInv'
<1> DEFINE n == Len(order)
<1>1. /\ a \in Addresses /\ a \notin used /\ mode' = "run" /\ order \in Seq(Addresses)
      /\ order' = <<a>> \o order /\ used' = used \union {a}
      /\ chain' = ChainBlock(SetHeader(chain, a, NewHeader(size)), a)
  BY DEF MallocBlock, BlocksInv, BlocksTypeOK
<1>2. /\ chain \in Chains /\ n \in Nat /\ Listing(order, n) /\ Linked(chain, order, n)
      /\ \A b : b \in used <=> \E i \in 1 .. n : order[i] = b
  BY BlocksFacts
<1>3. /\ order' \in Seq(Addresses) /\ Len(order') = n + 1
      /\ order'[1] = a /\ \A i \in 1 .. n : order'[i + 1] = order[i]
  <2>1. <<a>> \in Seq(Addresses) /\ Len(<<a>>) = 1 /\ <<a>>[1] = a
    BY <1>1
  <2>. QED BY <1>1, <1>2, <2>1, ConcatProperties
<1>4. NewHeader(size) \in AnyHeader
  BY DEF NewHeader, AnyHeader, Header
<1>5. \A i \in 1 .. n : order[i] # a
  BY <1>1, <1>2
<1>6. chain' \in Chains /\ Listing(order', n + 1) /\ Linked(chain', order', n + 1)
  <2>1. PICK h, o, o2, m : h = NewHeader(size) /\ o = order /\ o2 = order' /\ m = n
    OBVIOUS
  <2>2. /\ h \in AnyHeader /\ m \in Nat
        /\ Listing(o, m) /\ Linked(chain, o, m) /\ a \in Addresses /\ \A i \in 1 .. m : o[i] # a
        /\ o2[1] = a /\ \A i \in 1 .. m : o2[i + 1] = o[i]
        /\ chain \in Chains
    BY <1>1, <1>2, <1>3, <1>4, <1>5, <2>1
  <2>3. /\ ChainBlock(SetHeader(chain, a, h), a) \in Chains
        /\ Listing(o2, m + 1) /\ Linked(ChainBlock(SetHeader(chain, a, h), a), o2, m + 1)
    BY ONLY <2>2, Chained, Zenon
  <2>. QED BY <1>1, <2>1, <2>3
<1>7. \A b : b \in used' <=> \E i \in 1 .. n + 1 : order'[i] = b
  <2>1. ASSUME NEW i \in 1 .. n + 1 PROVE order'[i] \in used'
    <3>1. i = 1 \/ (i - 1 \in 1 .. n /\ i = (i - 1) + 1)
      BY <1>2
    <3>. QED BY <1>1, <1>2, <1>3, <3>1
  <2>2. ASSUME NEW b \in used' PROVE \E i \in 1 .. n + 1 : order'[i] = b
    <3>1. CASE b = a
      BY <1>2, <1>3, <3>1
    <3>2. CASE b \in used
      <4>1. PICK i \in 1 .. n : order[i] = b
        BY <1>2, <3>2
      <4>2. i + 1 \in 1 .. n + 1 /\ order'[i + 1] = b
        BY <1>2, <1>3, <4>1
      <4>. QED BY <4>2
    <3>. QED BY <1>1, <3>1, <3>2
  <2>. QED BY <2>1, <2>2
<1>. QED BY <1>1, <1>2, <1>3, <1>6, <1>7, BlocksRecognized, SMTT(30)

\* The place of a block in use.
LEMMA PlaceInUse ==
  ASSUME BlocksInv, NEW p \in used
  PROVE  Place(p) \in 1 .. Len(order) /\ order[Place(p)] = p
<1>1. \E i \in 1 .. Len(order) : order[i] = p
  BY BlocksFacts, SMTT(30)
<1>. QED BY <1>1 DEF Place

LEMMA ReallocInv ==
  ASSUME BlocksInv, NEW p, NEW a, NEW size \in Nat, ReallocBlock(p, a, size)
  PROVE  BlocksInv'
<1> DEFINE n == Len(order)
           k == Place(p)
<1>1. PICK new, d :
        /\ new = [chain.header[p] EXCEPT !.size = size, !.mark = TRUE]
        /\ d = SetHeader(SetHeader(UnchainBlock(chain, p), p, NoHeader), a, new)
  OBVIOUS
<1>2. /\ p \in used /\ a \in {p} \union (Addresses \ used) /\ mode' = "run"
      /\ order \in Seq(Addresses) /\ order' = [order EXCEPT ![k] = a]
      /\ used' = (used \ {p}) \union {a} /\ used \subseteq Addresses
      /\ chain' = RechainBlock(d, a)
  BY <1>1 DEF ReallocBlock, BlocksInv, BlocksTypeOK, ReplaceAt
<1>3. /\ chain \in Chains /\ n \in Nat /\ Listing(order, n) /\ Linked(chain, order, n)
      /\ \A b : b \in used <=> \E i \in 1 .. n : order[i] = b
  BY BlocksFacts
<1>4. k \in 1 .. n /\ order[k] = p
  BY <1>2, PlaceInUse
<1>5. a \in Addresses
  BY <1>2
<1>6. /\ order' \in Seq(Addresses) /\ Len(order') = n
      /\ \A i \in 1 .. n : order'[i] = IF i = k THEN a ELSE order[i]
  BY <1>2, <1>4, <1>5, ExceptSeq
<1>7. new \in AnyHeader /\ new.prev = chain.header[p].prev /\ new.next = chain.header[p].next
  <2>1. chain.header[p] \in AnyHeader
    BY <1>2, <1>3 DEF Chains
  <2>. QED BY <1>1, <2>1 DEF AnyHeader, Header
<1>8. \A i \in 1 .. n : order[i] = a => i = k
  BY <1>2, <1>3, <1>4 DEF Listing
<1>9. PICK c, o, o2, m, l : c = chain /\ o = order /\ o2 = order' /\ m = n /\ l = k
  OBVIOUS
<1>10. /\ c \in Chains /\ m \in Nat /\ Listing(o, m) /\ Linked(c, o, m)
       /\ l \in 1 .. m /\ p = o[l] /\ a \in Addresses /\ new \in AnyHeader
  BY <1>3, <1>4, <1>5, <1>7, <1>9
<1>11. /\ d \in Chains /\ d.first = UnchainBlock(c, p).first /\ d.header[a] = new
       /\ \A b \in Addresses \ {a, p} : d.header[b] = UnchainBlock(c, p).header[b]
  BY ONLY <1>1, <1>9, <1>10, Moved
<1>12. /\ \A i \in 1 .. m : o[i] = a => i = l
       /\ new.prev = c.header[p].prev /\ new.next = c.header[p].next
       /\ \A i \in 1 .. m : o2[i] = IF i = l THEN a ELSE o[i]
  BY <1>6, <1>7, <1>8, <1>9
<1>13. RechainBlock(d, a) \in Chains /\ Listing(o2, m) /\ Linked(RechainBlock(d, a), o2, m)
  BY ONLY <1>10, <1>11, <1>12, Replaced
<1>14. chain' \in Chains /\ Listing(order', n) /\ Linked(chain', order', n)
  BY <1>2, <1>9, <1>13
<1>15. \A b : b \in used' <=> \E i \in 1 .. n : order'[i] = b
  <2>1. ASSUME NEW i \in 1 .. n PROVE order'[i] \in used'
    <3>1. CASE i = k
      BY <1>2, <1>6, <3>1
    <3>2. CASE i # k
      BY <1>2, <1>3, <1>4, <1>6, <3>2 DEF Listing
    <3>. QED BY <3>1, <3>2
  <2>2. ASSUME NEW b \in used' PROVE \E i \in 1 .. n : order'[i] = b
    <3>1. CASE b = a
      BY <1>4, <1>6, <3>1
    <3>2. CASE b \in used \ {p}
      BY <1>3, <1>4, <1>6, <3>2
    <3>. QED BY <1>2, <3>1, <3>2
  <2>. QED BY <2>1, <2>2
<1>. QED BY <1>2, <1>3, <1>6, <1>14, <1>15, BlocksRecognized

LEMMA FreeInv ==
  ASSUME BlocksInv, NEW p, FreeBlock(p)
  PROVE  BlocksInv'
<1> DEFINE n == Len(order)
           k == Place(p)
<1>2. /\ p \in used /\ mode' = "run" /\ order \in Seq(Addresses)
      /\ order' = SubSeq(order, 1, k - 1) \o SubSeq(order, k + 1, n)
      /\ used' = used \ {p}
      /\ chain' = SetHeader(UnchainBlock(chain, p), p, NoHeader)
  BY DEF FreeBlock, BlocksInv, BlocksTypeOK, RemoveAt
<1>3. /\ chain \in Chains /\ n \in Nat /\ Listing(order, n) /\ Linked(chain, order, n)
      /\ \A b : b \in used <=> \E i \in 1 .. n : order[i] = b
  BY BlocksFacts
<1>4. k \in 1 .. n /\ order[k] = p
  BY <1>2, PlaceInUse
<1>5. PICK m, l, front, rear :
        /\ m = n /\ l = k
        /\ front = SubSeq(order, 1, l - 1) /\ rear = SubSeq(order, l + 1, m)
  OBVIOUS
<1>6. m \in Nat /\ l \in Nat \ {0} /\ l \in 1 .. m /\ \A i \in 1 .. m : order[i] \in Addresses
  BY <1>3, <1>4, <1>5 DEF Listing
<1>7. /\ front \in Seq(Addresses) /\ Len(front) = l - 1
      /\ \A i \in 1 .. l - 1 : front[i] = order[i]
  <2>1. 1 \in Int /\ l - 1 \in Int /\ \A i \in 1 .. l - 1 : order[i] \in Addresses
    BY <1>6
  <2>2. /\ front \in Seq(Addresses) /\ Len(front) = (IF 1 <= l - 1 THEN (l - 1) - 1 + 1 ELSE 0)
        /\ \A i \in 1 .. (l - 1) - 1 + 1 : front[i] = order[1 + i - 1]
    BY ONLY <1>5, <2>1, SubSeqProperties
  <2>. QED BY <1>6, <2>2
<1>8. /\ rear \in Seq(Addresses) /\ Len(rear) = m - l
      /\ \A i \in 1 .. m - l : rear[i] = order[l + i]
  <2>1. l + 1 \in Int /\ m \in Int /\ \A i \in l + 1 .. m : order[i] \in Addresses
    BY <1>6
  <2>2. /\ rear \in Seq(Addresses) /\ Len(rear) = (IF l + 1 <= m THEN m - (l + 1) + 1 ELSE 0)
        /\ \A i \in 1 .. m - (l + 1) + 1 : rear[i] = order[(l + 1) + i - 1]
    BY ONLY <1>5, <2>1, SubSeqProperties
  <2>. QED BY <1>6, <2>2
<1>9. /\ order' \in Seq(Addresses) /\ Len(order') = m - 1
      /\ \A i \in 1 .. m - 1 : order'[i] = order[IF i < l THEN i ELSE i + 1]
  <2>1. /\ front \o rear \in Seq(Addresses) /\ Len(front \o rear) = Len(front) + Len(rear)
        /\ \A i \in 1 .. Len(front) + Len(rear) :
             (front \o rear)[i] = IF i <= Len(front) THEN front[i] ELSE rear[i - Len(front)]
    BY <1>7, <1>8, ConcatProperties
  <2>2. order' = front \o rear
    BY <1>2, <1>5
  <2>3. /\ order' \in Seq(Addresses) /\ Len(order') = m - 1
        /\ \A i \in 1 .. m - 1 : order'[i] = IF i <= l - 1 THEN front[i] ELSE rear[i - (l - 1)]
    <3>1. Len(front) + Len(rear) = m - 1 /\ Len(front) = l - 1
      BY <1>6, <1>7, <1>8
    <3>. QED BY ONLY <2>1, <2>2, <3>1
  <2>4. ASSUME NEW i \in 1 .. m - 1 PROVE order'[i] = order[IF i < l THEN i ELSE i + 1]
    <3>1. CASE i < l
      BY <1>6, <1>7, <2>3, <3>1
    <3>2. CASE i >= l
      <4>1. i - (l - 1) \in 1 .. m - l /\ l + (i - (l - 1)) = i + 1 /\ ~(i <= l - 1) /\ ~(i < l)
        BY <1>6, <3>2
      <4>. QED BY <1>8, <2>3, <4>1
    <3>. QED BY <1>6, <3>1, <3>2
  <2>. QED BY <2>3, <2>4
<1>10. PICK c, o, o2 : c = chain /\ o = order /\ o2 = order'
  OBVIOUS
<1>11. /\ c \in Chains /\ m \in Nat /\ Listing(o, m) /\ Linked(c, o, m)
       /\ l \in 1 .. m /\ p = o[l] /\ \A i \in 1 .. m - 1 : o2[i] = o[IF i < l THEN i ELSE i + 1]
  BY <1>3, <1>4, <1>5, <1>9, <1>10
<1>12. /\ SetHeader(UnchainBlock(c, p), p, NoHeader) \in Chains
       /\ Listing(o2, m - 1) /\ Linked(SetHeader(UnchainBlock(c, p), p, NoHeader), o2, m - 1)
  BY ONLY <1>11, Removed
<1>13. chain' \in Chains /\ Listing(order', m - 1) /\ Linked(chain', order', m - 1)
  BY <1>2, <1>10, <1>12
<1>14. \A b : b \in used' <=> \E i \in 1 .. m - 1 : order'[i] = b
  <2>1. ASSUME NEW i \in 1 .. m - 1 PROVE order'[i] \in used'
    <3>1. PICK j \in 1 .. m : j # l /\ order'[i] = order[j]
      BY <1>6, <1>9
    <3>. QED BY <1>2, <1>3, <1>4, <1>5, <3>1 DEF Listing
  <2>2. ASSUME NEW b \in used' PROVE \E i \in 1 .. m - 1 : order'[i] = b
    <3>1. PICK j \in 1 .. m : order[j] = b /\ j # l
      BY <1>2, <1>3, <1>4, <1>5
    <3>2. CASE j < l
      BY <1>6, <1>9, <3>1, <3>2
    <3>3. CASE j > l
      <4>1. j - 1 \in 1 .. m - 1 /\ ~(j - 1 < l) /\ (j - 1) + 1 = j
        BY <1>6, <3>3
      <4>. QED BY <1>9, <3>1, <4>1
    <3>. QED BY <1>6, <3>1, <3>2, <3>3
  <2>. QED BY <2>1, <2>2
<1>15. m - 1 \in Nat
  BY <1>6
<1>. QED BY <1>2, <1>9, <1>13, <1>14, <1>15, BlocksRecognized

LEMMA SameBlocks ==
  ASSUME BlocksInv, UNCHANGED <<chain, used, order>>, mode' \in {"run", "exit", "abort"}
  PROVE  BlocksInv'
<1>1. order \in Seq(Addresses)
  BY DEF BlocksInv, BlocksTypeOK
<1>. QED BY <1>1, BlocksFacts, BlocksRecognized

\* An overrun damages a mark; a bad mark or a failing malloc ends the program.
LEMMA FaultInv ==
  ASSUME BlocksInv, BadMark \/ OutOfMemory \/ Overrun
  PROVE  BlocksInv'
<1>1. CASE BadMark \/ OutOfMemory
  <2>1. UNCHANGED <<chain, used, order>> /\ mode' \in {"run", "exit", "abort"}
    BY <1>1 DEF BadMark, OutOfMemory
  <2>. QED BY <2>1, SameBlocks
<1>2. CASE Overrun
  <2>1. PICK a \in used : chain' = [chain EXCEPT !.header[a].mark = FALSE]
    BY <1>2 DEF Overrun
  <2>2. UNCHANGED <<used, order, mode>> /\ a \in Addresses
    BY <1>2 DEF Overrun, BlocksInv, BlocksTypeOK
  <2>3. chain \in Chains
    BY BlocksFacts
  <2>4. chain.header[a] \in AnyHeader
    BY <2>2, <2>3 DEF Chains
  <2>5. /\ chain' \in Chains /\ chain'.first = chain.first
        /\ \A b \in Addresses :
             chain'.header[b].next = chain.header[b].next /\ chain'.header[b].prev = chain.header[b].prev
    <3>1. PICK new : new = [chain.header[a] EXCEPT !.mark = FALSE]
      OBVIOUS
    <3>2. new \in AnyHeader /\ new.next = chain.header[a].next /\ new.prev = chain.header[a].prev
      BY <2>4, <3>1 DEF AnyHeader, Header
    <3>3. chain' = SetHeader(chain, a, new)
      BY <2>1, <3>1 DEF SetHeader
    <3>. QED BY <2>2, <2>3, <3>2, <3>3, HeaderSet
  <2>6. Linked(chain', order, Len(order))
    BY <2>5, BlocksFacts DEF Linked, Listing
  <2>7. order \in Seq(Addresses) /\ mode \in {"run", "exit", "abort"}
    BY DEF BlocksInv, BlocksTypeOK
  <2>. QED BY <2>2, <2>5, <2>6, <2>7, BlocksFacts, BlocksRecognized
<1>. QED BY <1>1, <1>2

-----------------------------------------------------------------------------
(* The specification.                                                      *)

\* What the storages and the rest of the program keep has its types.
Owners ==
  /\ self \in [Storages -> Pointers]
  /\ pages \in [Storages -> Seq(Pages)]
  /\ closing \in [Storages -> BOOLEAN]
  /\ objects \in [Storages -> SUBSET Objects]
  /\ own \subseteq Addresses

IInv == BlocksInv /\ Owners

LEMMA InitIInv == Init => IInv
<1> SUFFICES ASSUME Init PROVE IInv
  OBVIOUS
<1>1. order = <<>> /\ order \in Seq(Addresses) /\ Len(order) = 0
  BY DEF Init, BlocksInit
<1>2. NoHeader \in Header(Pointers \union {Filled})
  BY NoHeaderType DEF AnyHeader
<1>3. BlocksTypeOK
  BY <1>1, <1>2 DEF Init, BlocksInit, BlocksTypeOK, Pointers
<1>4. ChainIsExact
  BY <1>1 DEF Init, BlocksInit, ChainIsExact
<1>5. Owners
  BY DEF Init, Owners, Pointers
<1>. QED BY <1>3, <1>4, <1>5 DEF IInv, BlocksInv

\* Cells a request of so many bytes takes, and cells of the page made for it.
LEMMA CellsType ==
  ASSUME NEW size \in Nat \ {0}
  PROVE  Cells(size) \in Nat \ {0} /\ NewPageCells(Cells(size)) \in Nat \ {0}
         /\ Cells(size) <= NewPageCells(Cells(size))
<1>1. PICK q \in Nat : q = (size - 1) \div CellSize
  BY SizesAssumption
<1>. QED BY <1>1, SizesAssumption DEF Cells, NewPageCells

LEMMA BlockBytes ==
  ASSUME NEW n \in Nat
  PROVE  Overhead + CellSize * n \in Nat
BY SizesAssumption

LEMMA MallocStep == ASSUME IInv, Malloc PROVE IInv'
<1>1. PICK a \in Addresses, size \in BlockSizes : MallocBlock(a, size) /\ own' = own \union {a}
  BY DEF Malloc
<1>2. BlocksInv'
  BY <1>1, MallocInv, SizesAssumption DEF IInv
<1>. QED BY <1>1, <1>2 DEF IInv, Malloc, Owners

LEMMA ReallocStep == ASSUME IInv, Realloc PROVE IInv'
<1>1. PICK p \in own, a \in Addresses, size \in BlockSizes :
        ReallocBlock(p, a, size) /\ own' = (own \ {p}) \union {a}
  BY DEF Realloc
<1>2. BlocksInv'
  BY <1>1, ReallocInv, SizesAssumption DEF IInv
<1>. QED BY <1>1, <1>2 DEF IInv, Realloc, Owners

LEMMA FreeStep == ASSUME IInv, Free PROVE IInv'
<1>1. PICK p \in own : FreeBlock(p) /\ own' = own \ {p}
  BY DEF Free
<1>2. BlocksInv'
  BY <1>1, FreeInv DEF IInv
<1>. QED BY <1>1, <1>2 DEF IInv, Free, Owners

LEMMA FaultStep == ASSUME IInv, Fault PROVE IInv'
BY FaultInv DEF IInv, Fault, Owners

LEMMA OpenStep == ASSUME IInv, NEW s \in Storages, Open(s) PROVE IInv'
<1>1. PICK a \in Addresses : MallocBlock(a, StorageSize) /\ self' = [self EXCEPT ![s] = a]
  BY DEF Open
<1>2. BlocksInv'
  BY <1>1, MallocInv, SizesAssumption DEF IInv
<1>. QED BY <1>1, <1>2 DEF IInv, Open, Owners, Pointers

LEMMA DisposeStep == ASSUME IInv, NEW s \in Storages, Dispose(s) PROVE IInv'
<1>1. UNCHANGED <<chain, used, order>> /\ mode' \in {"run", "exit", "abort"}
  BY DEF Dispose, blockVars
<1>2. BlocksInv'
  BY <1>1, SameBlocks DEF IInv
<1>. QED BY <1>2 DEF IInv, Dispose, Owners

LEMMA FreePageStep == ASSUME IInv, NEW s \in Storages, FreePage(s) PROVE IInv'
<1>1. BlocksInv'
  BY FreeInv DEF IInv, FreePage
<1>2. pages[s] \in Seq(Pages) /\ pages[s] # <<>>
  BY DEF IInv, Owners, FreePage
<1>3. Tail(pages[s]) \in Seq(Pages)
  BY <1>2, HeadTailProperties
<1>. QED BY <1>1, <1>3 DEF IInv, FreePage, Owners

LEMMA FreeStorageStep == ASSUME IInv, NEW s \in Storages, FreeStorage(s) PROVE IInv'
<1>1. BlocksInv'
  BY FreeInv DEF IInv, FreeStorage
<1>. QED BY <1>1 DEF IInv, FreeStorage, Owners, Pointers

LEMMA MallocFromPageStep ==
  ASSUME IInv, NEW s \in Storages, NEW size \in Requests, MallocFromPage(s, size)
  PROVE  IInv'
<1>1. UNCHANGED <<chain, used, order>> /\ mode' \in {"run", "exit", "abort"}
  BY DEF MallocFromPage, blockVars
<1>2. BlocksInv'
  BY <1>1, SameBlocks DEF IInv
<1>3. Cells(size) \in Nat /\ size \in Nat
  BY SizesAssumption, CellsType
<1>4. pages[s] \in Seq(Pages) /\ 1 \in 1 .. Len(pages[s]) /\ pages[s][1] \in Pages
  <2>1. pages[s] \in Seq(Pages) /\ pages[s] # <<>>
    BY DEF IInv, Owners, MallocFromPage, HasRoom
  <2>2. 1 \in 1 .. Len(pages[s])
    BY <2>1, EmptySeq
  <2>. QED BY <2>1, <2>2, ElementOfSeq
<1>5. pages' = [pages EXCEPT ![s] = [pages[s] EXCEPT ![1] =
                  [pages[s][1] EXCEPT !.use_cell_num = @ + Cells(size)]]]
  BY <1>4 DEF MallocFromPage, IInv, Owners
<1>6. [pages[s][1] EXCEPT !.use_cell_num = @ + Cells(size)] \in Pages
  <2>1. PICK q, m : q = pages[s][1] /\ m = q.use_cell_num + Cells(size)
    OBVIOUS
  <2>2. q \in Pages /\ m \in Nat
    BY <1>3, <1>4, <2>1 DEF Pages
  <2>3. [q EXCEPT !.use_cell_num = m] \in Pages
    BY ONLY <2>2 DEF Pages
  <2>. QED BY <2>1, <2>3
<1>7. pages' \in [Storages -> Seq(Pages)]
  BY <1>4, <1>5, <1>6, ExceptSeq DEF IInv, Owners
<1>8. objects' \in [Storages -> SUBSET Objects]
  BY <1>3, <1>4 DEF MallocFromPage, HandOut, IInv, Owners, Objects, Pages
<1>. QED BY <1>2, <1>7, <1>8 DEF IInv, MallocFromPage, Owners

LEMMA MallocNewPageStep ==
  ASSUME IInv, NEW s \in Storages, NEW size \in Requests, MallocNewPage(s, size)
  PROVE  IInv'
<1>1. PICK n : n = NewPageCells(Cells(size))
  OBVIOUS
<1>2. Cells(size) \in Nat /\ size \in Nat /\ n \in Nat
  BY <1>1, SizesAssumption, CellsType
<1>3. PICK a \in Addresses :
        /\ MallocBlock(a, Overhead + CellSize * n)
        /\ pages' = [pages EXCEPT ![s] =
                       <<[block |-> a, cell_num |-> n, use_cell_num |-> Cells(size)]>> \o @]
        /\ HandOut(s, a, 0, size)
  BY <1>1 DEF MallocNewPage
<1>4. BlocksInv'
  BY <1>2, <1>3, BlockBytes, MallocInv DEF IInv
<1>5. PICK page : page = [block |-> a, cell_num |-> n, use_cell_num |-> Cells(size)]
  OBVIOUS
<1>6. <<page>> \in Seq(Pages) /\ pages[s] \in Seq(Pages)
  <2>1. PICK m \in Nat : m = Cells(size)
    BY <1>2
  <2>2. page \in Pages
    BY <1>2, <1>5, <2>1 DEF Pages
  <2>3. pages[s] \in Seq(Pages)
    BY DEF IInv, Owners
  <2>. QED BY <2>2, <2>3
<1>7. <<page>> \o pages[s] \in Seq(Pages)
  BY <1>6, ConcatProperties
<1>8. pages' \in [Storages -> Seq(Pages)]
  BY <1>3, <1>5, <1>7 DEF IInv, Owners
<1>9. objects' \in [Storages -> SUBSET Objects]
  BY <1>2, <1>3 DEF HandOut, IInv, Owners, Objects
<1>. QED BY <1>4, <1>8, <1>9 DEF IInv, MallocNewPage, Owners

LEMMA StepIInv == IInv /\ [Next]_vars => IInv'
<1> SUFFICES ASSUME IInv, [Next]_vars PROVE IInv'
  OBVIOUS
<1>1. ASSUME NEW s \in Storages,
             \/ Open(s) \/ Dispose(s) \/ FreePage(s) \/ FreeStorage(s)
             \/ \E size \in Requests : MallocFromPage(s, size) \/ MallocNewPage(s, size)
      PROVE  IInv'
  BY <1>1, OpenStep, DisposeStep, FreePageStep, FreeStorageStep, MallocFromPageStep,
     MallocNewPageStep
<1>2. CASE Stopped \/ UNCHANGED vars
  <2>1. UNCHANGED vars /\ mode \in {"run", "exit", "abort"}
    BY <1>2 DEF Stopped, IInv, BlocksInv, BlocksTypeOK
  <2>2. BlocksInv'
    BY <2>1, SameBlocks DEF vars, IInv
  <2>. QED BY <2>1, <2>2 DEF vars, IInv, Owners
<1>. QED
  BY <1>1, <1>2, MallocStep, ReallocStep, FreeStep, FaultStep DEF Next

\* The inductive invariant: the chain links exactly the blocks in use, and what storages keep
\* has its types.
THEOREM Invariance == Spec => []IInv
BY InitIInv, StepIInv, PTL DEF Spec

\* The allocator and the storages keep their types; the header of a block in use always
\* holds pointers (memory.c, storage.c).
THEOREM TypeCorrectness == Spec => []TypeOK
<1>1. IInv => TypeOK
  BY DEF IInv, BlocksInv, Owners, TypeOK
<1>. QED BY <1>1, Invariance, PTL

\* The allocator's list is exactly the blocks in use, linked both ways, for any number of
\* blocks and any order of malloc, realloc and free (memory.c:74-113).
THEOREM ChainCorrectness == Spec => []ChainIsExact
<1>1. IInv => ChainIsExact
  BY DEF IInv, BlocksInv
<1>. QED BY <1>1, Invariance, PTL

\* What MEM_dump_blocks lists, following the list, is exactly what was not released
\* (memory.c:305-321): by induction along the list.
THEOREM DumpCorrectness == Spec => []DumpIsExact
<1>1. IInv => DumpIsExact
  <2> SUFFICES ASSUME IInv PROVE Listed = used
    BY DEF DumpIsExact
  <2>1. PICK n : n = Len(order)
    OBVIOUS
  <2>2. /\ n \in Nat /\ Listing(order, n) /\ Linked(chain, order, n)
        /\ \A b : b \in used <=> \E i \in 1 .. n : order[i] = b
    BY <2>1, BlocksFacts DEF IInv
  <2>3. ASSUME NEW a \in Listed PROVE a \in used
    <3>1. used \in SUBSET Addresses
      BY DEF IInv, BlocksInv, BlocksTypeOK
    <3>2. chain.first \in used \union {Null}
      BY <2>2 DEF Linked
    <3>3. ASSUME NEW b \in used PROVE chain.header[b].next \in used \union {Null}
      <4>1. PICK i \in 1 .. n : order[i] = b
        BY <2>2
      <4>2. i = n \/ i + 1 \in 1 .. n
        BY <2>2
      <4>. QED BY <2>2, <4>1, <4>2 DEF Linked
    <3>. QED BY <3>1, <3>2, <3>3 DEF Listed
  <2>4. ASSUME NEW S \in SUBSET Addresses, chain.first \in S \union {Null},
               \A b \in S : chain.header[b].next \in S \union {Null}
        PROVE  \A i \in 1 .. n : order[i] \in S
    <3> DEFINE T == {i \in 1 .. n : order[i] \notin S}
    <3>1. SUFFICES ASSUME T # {} PROVE FALSE
      OBVIOUS
    <3>2. T \in SUBSET Nat
      BY <2>2
    <3>3. PICK x \in T : \A y \in T : x <= y
      BY <3>1, <3>2, Least
    <3>4. x \in 1 .. n /\ order[x] \notin S /\ order[x] \in Addresses
      BY <2>2, <3>3 DEF Listing
    <3>5. CASE x = 1
      BY <2>2, <2>4, <3>4, <3>5, NullAssumption DEF Linked
    <3>6. CASE x # 1
      <4>1. x - 1 \in 1 .. n /\ (x - 1) + 1 = x /\ x - 1 # n /\ ~(x <= x - 1)
        BY <2>2, <3>4, <3>6
      <4>2. order[x - 1] \in S
        BY <3>3, <4>1
      <4>3. chain.header[order[x - 1]].next = order[x]
        BY <2>2, <4>1 DEF Linked
      <4>. QED BY <2>4, <3>4, <4>2, <4>3, NullAssumption
    <3>. QED BY <3>5, <3>6
  <2>5. ASSUME NEW a \in used PROVE a \in Listed
    <3>1. a \in Addresses /\ \E i \in 1 .. n : order[i] = a
      BY <2>2 DEF IInv, BlocksInv, BlocksTypeOK
    <3>. QED BY <2>4, <3>1 DEF Listed
  <2>. QED BY <2>3, <2>5
<1>. QED BY <1>1, Invariance, PTL

-----------------------------------------------------------------------------
(* An operation on one block leaves the sizes and marks of the others.     *)

\* Chains c and d hold the same size and mark for block b.
Kept(c, d, b) ==
  c.header[b].size = d.header[b].size /\ c.header[b].mark = d.header[b].mark

LEMMA MallocKeeps ==
  ASSUME BlocksInv, NEW a, NEW size \in Nat, MallocBlock(a, size)
  PROVE  /\ chain'.header[a].size = size
         /\ \A b \in Addresses \ {a} : Kept(chain', chain, b)
<1>1. PICK h, d, g :
        /\ h = NewHeader(size) /\ d = SetHeader(chain, a, h)
        /\ g = SetPrev(d.header, d.first, a)
  OBVIOUS
<1>2. chain \in Chains /\ a \in Addresses /\ a \in Pointers
  BY BlocksFacts DEF MallocBlock, Pointers
<1>3. h \in AnyHeader /\ h.size = size
  BY <1>1 DEF NewHeader, AnyHeader, Header
<1>4. /\ d \in Chains /\ d.header[a] = h
      /\ \A b \in Addresses \ {a} : d.header[b] = chain.header[b]
  BY <1>1, <1>2, <1>3, HeaderSet
<1>5. d.header \in Headers /\ d.first \in Pointers
  BY <1>4 DEF Chains, Headers
<1>6. /\ g \in Headers
      /\ \A b \in Addresses : g[b].size = d.header[b].size /\ g[b].mark = d.header[b].mark
  BY ONLY <1>1, <1>2, <1>5, PrevSet, SMTT(30)
<1>7. chain' = [first |-> a, header |-> [g EXCEPT ![a].prev = Null, ![a].next = d.first]]
  BY <1>1 DEF MallocBlock, ChainBlock
<1>8. \A b \in Addresses : chain'.header[b].size = g[b].size /\ chain'.header[b].mark = g[b].mark
  BY <1>2, <1>6, <1>7 DEF Headers, AnyHeader, Header
<1>. QED BY <1>2, <1>3, <1>4, <1>6, <1>8 DEF Kept

LEMMA UnchainKeeps ==
  ASSUME BlocksInv, NEW p \in used
  PROVE  \A b \in Addresses : Kept(UnchainBlock(chain, p), chain, b)
<1>1. PICK c, before, after, h, g :
        /\ c = chain /\ before = c.header[p].prev /\ after = c.header[p].next
        /\ h = SetPrev(c.header, after, before) /\ g = SetNext(h, before, after)
  OBVIOUS
<1>2. c.header \in Headers /\ before \in Pointers /\ after \in Pointers
  <2>1. chain.header \in Headers
    BY BlocksFacts DEF Chains, Headers
  <2>2. chain.header[p] \in Header(Pointers)
    BY DEF BlocksInv, BlocksTypeOK
  <2>. QED BY <1>1, <2>1, <2>2 DEF Header
<1>3. h \in Headers
      /\ \A b \in Addresses : h[b].size = c.header[b].size /\ h[b].mark = c.header[b].mark
  BY ONLY <1>1, <1>2, PrevSet
<1>4. g \in Headers /\ \A b \in Addresses : g[b].size = h[b].size /\ g[b].mark = h[b].mark
  <2>1. h \in Headers /\ before \in Pointers /\ after \in Pointers
    BY ONLY <1>2, <1>3
  <2>2. /\ SetNext(h, before, after) \in Headers
        /\ \A b \in Addresses : /\ SetNext(h, before, after)[b].size = h[b].size
                                /\ SetNext(h, before, after)[b].mark = h[b].mark
    BY ONLY <2>1, NextSet
  <2>3. g = SetNext(h, before, after)
    BY ONLY <1>1
  <2>. QED BY ONLY <2>2, <2>3
<1>5. UnchainBlock(chain, p).header = g
  BY <1>1 DEF UnchainBlock
<1>6. ASSUME NEW b \in Addresses PROVE Kept(UnchainBlock(chain, p), chain, b)
  <2>1. g[b].size = chain.header[b].size /\ g[b].mark = chain.header[b].mark
    <3>1. c = chain
      BY ONLY <1>1
    <3>2. h[b].size = c.header[b].size /\ h[b].mark = c.header[b].mark
      BY ONLY <1>3, <1>6
    <3>3. g[b].size = h[b].size /\ g[b].mark = h[b].mark
      BY ONLY <1>4, <1>6
    <3>. QED BY ONLY <3>1, <3>2, <3>3
  <2>. QED BY <1>5, <2>1 DEF Kept
<1>. QED BY <1>6

LEMMA FreeKeeps ==
  ASSUME BlocksInv, NEW p, FreeBlock(p)
  PROVE  \A b \in Addresses \ {p} : Kept(chain', chain, b)
<1>1. p \in used /\ p \in Addresses /\ chain' = SetHeader(UnchainBlock(chain, p), p, NoHeader)
  BY DEF FreeBlock, BlocksInv, BlocksTypeOK
<1>2. \A b \in Addresses \ {p} : chain'.header[b] = UnchainBlock(chain, p).header[b]
  <2>1. PICK n, k : n = Len(order) /\ k = Place(p)
    OBVIOUS
  <2>2. UnchainBlock(chain, p) \in Chains
    BY <1>1, BlocksFacts, PlaceInUse, Unchained
  <2>. QED BY <1>1, <2>2, HeaderSet, NoHeaderType
<1>. QED BY <1>1, <1>2, UnchainKeeps DEF Kept

LEMMA ReallocKeeps ==
  ASSUME BlocksInv, NEW p, NEW a, NEW size \in Nat, ReallocBlock(p, a, size)
  PROVE  \A b \in Addresses \ {a, p} : Kept(chain', chain, b)
<1>1. PICK new, u, d :
        /\ new = [chain.header[p] EXCEPT !.size = size, !.mark = TRUE]
        /\ u = UnchainBlock(chain, p)
        /\ d = SetHeader(SetHeader(u, p, NoHeader), a, new)
  OBVIOUS
<1>2. /\ p \in used /\ a \in Addresses /\ chain' = RechainBlock(d, a)
  BY <1>1 DEF ReallocBlock, BlocksInv, BlocksTypeOK
<1>3. chain \in Chains /\ chain.header[p] \in Header(Pointers)
  BY <1>2, BlocksFacts DEF BlocksInv, BlocksTypeOK
<1>4. new \in AnyHeader /\ new.prev \in Pointers /\ new.next \in Pointers
  BY <1>1, <1>3 DEF AnyHeader, Header
<1>5. /\ d \in Chains /\ d.header[a] = new
      /\ \A b \in Addresses \ {a, p} : d.header[b] = u.header[b]
  <2>1. u \in Chains
    BY <1>1, <1>2, BlocksFacts, PlaceInUse, Unchained
  <2>2. PICK e : e = SetHeader(u, p, NoHeader)
    OBVIOUS
  <2>3. p \in Addresses
    BY <1>2 DEF BlocksInv, BlocksTypeOK
  <2>4. e \in Chains /\ \A b \in Addresses \ {p} : e.header[b] = u.header[b]
    BY ONLY <2>1, <2>2, <2>3, HeaderSet, NoHeaderType
  <2>5. d = SetHeader(e, a, new)
    BY <1>1, <2>2
  <2>6. /\ d \in Chains /\ d.header[a] = new
        /\ \A b \in Addresses \ {a} : d.header[b] = e.header[b]
    BY ONLY <1>2, <1>4, <2>4, <2>5, HeaderSet
  <2>. QED BY <2>4, <2>6
<1>6. PICK before, after, e, h, g :
        /\ before = new.prev /\ after = new.next /\ e = d.header
        /\ h = SetPrev(e, after, a) /\ g = SetNext(h, before, a)
  OBVIOUS
<1>7. e \in Headers /\ a \in Pointers /\ before \in Pointers /\ after \in Pointers
  BY <1>2, <1>4, <1>5, <1>6 DEF Chains, Headers, Pointers
<1>8. h \in Headers
      /\ \A b \in Addresses : h[b].size = e[b].size /\ h[b].mark = e[b].mark
  <2>1. PICK x : x = a
    OBVIOUS
  <2>2. e \in Headers /\ after \in Pointers /\ x \in Pointers /\ h = SetPrev(e, after, x)
    BY <1>6, <1>7, <2>1
  <2>. QED BY ONLY <2>2, PrevSet
<1>9. g \in Headers /\ \A b \in Addresses : g[b].size = h[b].size /\ g[b].mark = h[b].mark
  <2>1. PICK x : x = a
    OBVIOUS
  <2>2. h \in Headers /\ before \in Pointers /\ x \in Pointers /\ g = SetNext(h, before, x)
    BY <1>6, <1>7, <1>8, <2>1
  <2>. QED BY ONLY <2>2, NextSet
<1>10. chain'.header = g
  BY <1>2, <1>5, <1>6 DEF RechainBlock
<1>11. ASSUME NEW b \in Addresses \ {a, p} PROVE Kept(chain', chain, b)
  <2>1. chain'.header[b].size = d.header[b].size /\ chain'.header[b].mark = d.header[b].mark
    BY <1>6, <1>8, <1>9, <1>10, <1>11
  <2>2. d.header[b] = u.header[b]
    BY <1>5, <1>11
  <2>3. u.header[b].size = chain.header[b].size /\ u.header[b].mark = chain.header[b].mark
    BY <1>1, <1>2, UnchainKeeps DEF Kept
  <2>. QED BY <2>1, <2>2, <2>3 DEF Kept
<1>. QED BY <1>11

LEMMA OverrunKeeps ==
  ASSUME BlocksInv, Overrun
  PROVE  \A b \in Addresses :
           /\ chain'.header[b].size = chain.header[b].size
           /\ ~chain.header[b].mark => ~chain'.header[b].mark
<1>1. PICK a \in used : chain' = [chain EXCEPT !.header[a].mark = FALSE]
  BY DEF Overrun
<1>2. chain \in Chains
  BY BlocksFacts
<1>3. \A b \in Addresses : chain.header[b] \in AnyHeader
  BY <1>2 DEF Chains
<1>4. chain'.header = [chain.header EXCEPT ![a] = [chain.header[a] EXCEPT !.mark = FALSE]]
  BY <1>1, <1>2 DEF Chains
<1>5. a \in Addresses
  BY <1>1 DEF BlocksInv, BlocksTypeOK
<1>6. PICK new : new = [chain.header[a] EXCEPT !.mark = FALSE]
  OBVIOUS
<1>7. new.size = chain.header[a].size /\ ~new.mark
  BY <1>3, <1>5, <1>6 DEF AnyHeader, Header
<1>. QED BY <1>2, <1>4, <1>5, <1>6, <1>7 DEF Chains

-----------------------------------------------------------------------------
(* A damaged block stays.                                                  *)

Damage ==
  \A a \in used : ~chain.header[a].mark =>
    a \in used' /\ chain'.header[a].size = chain.header[a].size /\ ~chain'.header[a].mark

LEMMA BlockStepDamage ==
  ASSUME BlocksInv,
         \/ \E a \in Addresses, size \in Nat : MallocBlock(a, size)
         \/ \E p, a \in Addresses, size \in Nat : ReallocBlock(p, a, size)
         \/ \E p \in Addresses : FreeBlock(p)
         \/ BadMark \/ OutOfMemory \/ Overrun
         \/ UNCHANGED blockVars
  PROVE  Damage
<1>0. used \subseteq Addresses
  BY DEF BlocksInv, BlocksTypeOK
<1>1. ASSUME NEW a \in Addresses, NEW size \in Nat, MallocBlock(a, size) PROVE Damage
  <2>1. a \notin used /\ used' = used \union {a}
    BY <1>1 DEF MallocBlock
  <2>. QED BY <1>0, <1>1, <2>1, MallocKeeps DEF Damage, Kept
<1>2. ASSUME NEW p \in Addresses, NEW a \in Addresses, NEW size \in Nat, ReallocBlock(p, a, size)
      PROVE Damage
  <2>1. chain.header[p].mark /\ used' = (used \ {p}) \union {a} /\ a \in {p} \union (Addresses \ used)
    BY <1>2 DEF ReallocBlock, CheckMark
  <2>. QED BY <1>0, <1>2, <2>1, ReallocKeeps DEF Damage, Kept
<1>3. ASSUME NEW p \in Addresses, FreeBlock(p) PROVE Damage
  <2>1. chain.header[p].mark /\ used' = used \ {p}
    BY <1>3 DEF FreeBlock, CheckMark
  <2>. QED BY <1>0, <1>3, <2>1, FreeKeeps DEF Damage, Kept
<1>4. CASE BadMark \/ OutOfMemory \/ UNCHANGED blockVars
  BY <1>4 DEF BadMark, OutOfMemory, blockVars, Damage
<1>5. CASE Overrun
  <2>1. used' = used
    BY <1>5 DEF Overrun
  <2>. QED BY <1>0, <1>5, <2>1, OverrunKeeps DEF Damage
<1>. QED BY <1>1, <1>2, <1>3, <1>4, <1>5

\* What a step of the system does to the blocks.
LEMMA BlockStep ==
  ASSUME IInv, [Next]_vars
  PROVE  \/ \E a \in Addresses, size \in Nat : MallocBlock(a, size)
         \/ \E p, a \in Addresses, size \in Nat : ReallocBlock(p, a, size)
         \/ \E p \in Addresses : FreeBlock(p)
         \/ BadMark \/ OutOfMemory \/ Overrun
         \/ UNCHANGED blockVars
<1>0. own \subseteq Addresses /\ used \subseteq Addresses
  BY DEF IInv, Owners, BlocksInv, BlocksTypeOK
<1>1. CASE Malloc \/ \E s \in Storages : Open(s)
  BY <1>1, SizesAssumption DEF Malloc, Open
<1>2. CASE Realloc
  BY <1>0, <1>2, SizesAssumption DEF Realloc
<1>3. CASE Free
  BY <1>0, <1>3 DEF Free
<1>4. CASE Fault
  BY <1>4 DEF Fault
<1>5. ASSUME NEW s \in Storages, FreePage(s) \/ FreeStorage(s)
      PROVE  \E p \in Addresses : FreeBlock(p)
  <2>1. \E p : FreeBlock(p)
    BY <1>5 DEF FreePage, FreeStorage
  <2>. QED BY <1>0, <2>1 DEF FreeBlock
<1>6. ASSUME NEW s \in Storages, NEW size \in Requests, MallocNewPage(s, size)
      PROVE  \E a \in Addresses, n \in Nat : MallocBlock(a, n)
  BY <1>6, SizesAssumption, CellsType, BlockBytes DEF MallocNewPage
<1>7. ASSUME NEW s \in Storages, Dispose(s) \/ \E size \in Requests : MallocFromPage(s, size)
      PROVE  UNCHANGED blockVars
  BY <1>7 DEF Dispose, MallocFromPage
<1>8. CASE Stopped \/ UNCHANGED vars
  BY <1>8 DEF Stopped, vars, blockVars
<1>. QED BY <1>1, <1>2, <1>3, <1>4, <1>5, <1>6, <1>7, <1>8 DEF Next

\* No step releases, moves, resizes or repairs a block whose marks are damaged: the program
\* is aborted before it does (memory.c:131-152).
THEOREM DamageStays == Spec => DamageIsCaught
<1>1. IInv /\ [Next]_vars => [Damage]_blockVars
  BY BlockStep, BlockStepDamage DEF IInv
<1>. QED BY <1>1, Invariance, PTL DEF Spec, DamageIsCaught, Damage

-----------------------------------------------------------------------------
(* Every block in use has one owner.                                       *)

Shares ==
  /\ used = own \union UNION {BlocksOf(s) : s \in Storages}
  /\ \A s \in Storages : BlocksOf(s) \intersect own = {}
  /\ \A s, t \in Storages : s # t => BlocksOf(s) \intersect BlocksOf(t) = {}

\* The blocks of the storage s are different ones.
Distinct(s) ==
  /\ self[s] = Null => pages[s] = <<>>
  /\ \A i \in 1 .. Len(pages[s]) : pages[s][i].block # self[s]
  /\ \A i, j \in 1 .. Len(pages[s]) : pages[s][i].block = pages[s][j].block => i = j

Ownership == Shares /\ \A s \in Storages : Distinct(s)

LEMMA InitOwnership == Init => Ownership
<1> SUFFICES ASSUME Init PROVE Ownership
  OBVIOUS
<1>1. ASSUME NEW s \in Storages PROVE BlocksOf(s) = {} /\ Distinct(s)
  BY DEF Init, BlocksOf, Distinct
<1>. QED BY <1>1 DEF Init, BlocksInit, Ownership, Shares

\* The owner of a block is told by what it keeps.
LEMMA SameOwner ==
  ASSUME IInv, NEW s \in Storages, self'[s] = self[s], pages'[s] = pages[s]
  PROVE  BlocksOf(s)' = BlocksOf(s) /\ (Distinct(s) => Distinct(s)')
BY DEF BlocksOf, Distinct

LEMMA OwnGains ==
  ASSUME Shares, NEW a, a \notin used, used' = used \union {a}, own' = own \union {a},
         \A s \in Storages : BlocksOf(s)' = BlocksOf(s)
  PROVE  Shares'
BY DEF Shares

LEMMA OwnChanges ==
  ASSUME Shares, NEW p \in own, NEW A, A \intersect used \subseteq {p},
         used' = (used \ {p}) \union A, own' = (own \ {p}) \union A,
         \A s \in Storages : BlocksOf(s)' = BlocksOf(s)
  PROVE  Shares'
BY DEF Shares

LEMMA StorageGains ==
  ASSUME Shares, NEW s \in Storages, NEW a, a \notin used, used' = used \union {a},
         own' = own, BlocksOf(s)' = BlocksOf(s) \union {a},
         \A t \in Storages \ {s} : BlocksOf(t)' = BlocksOf(t)
  PROVE  Shares'
BY DEF Shares

LEMMA StorageLoses ==
  ASSUME Shares, NEW s \in Storages, NEW p \in BlocksOf(s), used' = used \ {p},
         own' = own, BlocksOf(s)' = BlocksOf(s) \ {p},
         \A t \in Storages \ {s} : BlocksOf(t)' = BlocksOf(t)
  PROVE  Shares'
BY DEF Shares

\* The rest of the program allocates, resizes and frees; a fault changes nobody's blocks.
LEMMA ProgramOwnership ==
  ASSUME IInv, Ownership, Malloc \/ Realloc \/ Free \/ Fault
  PROVE  Ownership'
<1>1. UNCHANGED <<self, pages>>
  BY DEF Malloc, Realloc, Free, Fault
<1>2. \A s \in Storages : BlocksOf(s)' = BlocksOf(s) /\ Distinct(s)'
  BY <1>1, SameOwner DEF Ownership
<1>3. Shares'
  <2>1. CASE Malloc
    <3>1. PICK a \in Addresses : a \notin used /\ used' = used \union {a} /\ own' = own \union {a}
      BY <2>1 DEF Malloc, MallocBlock
    <3>. QED BY <1>2, <3>1, OwnGains DEF Ownership
  <2>2. CASE Realloc
    <3>1. PICK q \in own, a \in Addresses :
            /\ a \in {q} \union (Addresses \ used)
            /\ used' = (used \ {q}) \union {a} /\ own' = (own \ {q}) \union {a}
      BY <2>2 DEF Realloc, ReallocBlock
    <3>2. {a} \intersect used \subseteq {q}
      BY <3>1
    <3>. QED BY <1>2, <3>1, <3>2, OwnChanges DEF Ownership
  <2>3. CASE Free
    <3>1. PICK q \in own : used' = used \ {q} /\ own' = own \ {q}
      BY <2>3 DEF Free, FreeBlock
    <3>2. used' = (used \ {q}) \union {} /\ own' = (own \ {q}) \union {}
          /\ {} \intersect used \subseteq {q}
      BY <3>1
    <3>. QED BY <1>2, <3>2, OwnChanges DEF Ownership
  <2>4. CASE Fault
    BY <1>2, <2>4 DEF Fault, BadMark, OutOfMemory, Overrun, Ownership, Shares
  <2>. QED BY <2>1, <2>2, <2>3, <2>4
<1>. QED BY <1>2, <1>3 DEF Ownership

LEMMA OpenOwnership ==
  ASSUME IInv, Ownership, NEW s \in Storages, Open(s)
  PROVE  Ownership'
<1>1. PICK a \in Addresses :
        a \notin used /\ used' = used \union {a} /\ self' = [self EXCEPT ![s] = a]
  BY DEF Open, MallocBlock
<1>2. own' = own /\ pages' = pages /\ pages[s] = <<>> /\ self[s] = Null /\ self'[s] = a
  BY <1>1 DEF Open, Ownership, Distinct, IInv, Owners
<1>3. \A t \in Storages \ {s} : BlocksOf(t)' = BlocksOf(t) /\ Distinct(t)'
  BY <1>1, <1>2, SameOwner DEF Ownership, IInv, Owners
<1>4. BlocksOf(s)' = BlocksOf(s) \union {a} /\ Distinct(s)'
  BY <1>1, <1>2, NullAssumption DEF BlocksOf, Distinct
<1>5. Shares'
  BY <1>1, <1>2, <1>3, <1>4, StorageGains DEF Ownership
<1>. QED BY <1>3, <1>4, <1>5 DEF Ownership

LEMMA DisposeOwnership ==
  ASSUME IInv, Ownership, NEW s \in Storages, Dispose(s)
  PROVE  Ownership'
<1>1. UNCHANGED <<used, own, self, pages>>
  BY DEF Dispose, blockVars
<1>2. \A t \in Storages : BlocksOf(t)' = BlocksOf(t) /\ Distinct(t)'
  BY <1>1, SameOwner DEF Ownership
<1>. QED BY <1>1, <1>2 DEF Ownership, Shares

\* The pages of s, after its newest has been freed
LEMMA PagesLeft ==
  ASSUME IInv, NEW s \in Storages, FreePage(s)
  PROVE  /\ Len(pages[s]) \in Nat \ {0}
         /\ Len(pages'[s]) = Len(pages[s]) - 1
         /\ \A i \in 1 .. Len(pages[s]) - 1 : pages'[s][i] = pages[s][i + 1]
         /\ \A t \in Storages \ {s} : pages'[t] = pages[t]
<1>1. pages[s] \in Seq(Pages) /\ pages[s] # <<>> /\ pages' = [pages EXCEPT ![s] = Tail(pages[s])]
  BY DEF FreePage, IInv, Owners
<1>2. pages'[s] = Tail(pages[s]) /\ \A t \in Storages \ {s} : pages'[t] = pages[t]
  BY <1>1 DEF IInv, Owners
<1>3. PICK q, r : q = pages[s] /\ r = Tail(q)
  OBVIOUS
<1>4. q \in Seq(Pages) /\ q # <<>> /\ r = Tail(q)
  BY <1>1, <1>3
<1>5. Len(q) \in Nat \ {0}
  BY ONLY <1>4, EmptySeq, LenProperties
<1>6. Len(r) = Len(q) - 1 /\ \A i \in 1 .. Len(q) - 1 : r[i] = q[i + 1]
  <2>1. Len(r) = Len(q) - 1 /\ \A i \in 1 .. Len(r) : r[i] = q[i + 1]
    BY ONLY <1>4, HeadTailProperties
  <2>. QED BY <2>1
<1>. QED BY <1>2, <1>3, <1>5, <1>6

LEMMA FreePageOwnership ==
  ASSUME IInv, Ownership, NEW s \in Storages, FreePage(s)
  PROVE  Ownership'
<1>1. PICK n, b : n = Len(pages[s]) /\ b = pages[s][1].block
  OBVIOUS
<1>2. used' = used \ {b} /\ own' = own /\ self' = self
  BY <1>1 DEF FreePage, FreeBlock
<1>3. /\ n \in Nat \ {0} /\ Len(pages'[s]) = n - 1
      /\ \A i \in 1 .. n - 1 : pages'[s][i] = pages[s][i + 1]
      /\ \A t \in Storages \ {s} : pages'[t] = pages[t]
  BY <1>1, PagesLeft
<1>4. \A t \in Storages \ {s} : BlocksOf(t)' = BlocksOf(t) /\ Distinct(t)'
  BY <1>2, <1>3, SameOwner DEF Ownership
<1>5. Distinct(s) /\ self[s] # Null
  <2>1. pages[s] # <<>>
    BY DEF FreePage
  <2>. QED BY <2>1 DEF Ownership, Distinct
<1>6. Distinct(s)'
  <2>1. \A i \in 1 .. n - 1 : i + 1 \in 1 .. n
    BY <1>3
  <2>2. \A i \in 1 .. n - 1 : pages'[s][i].block # self[s]
    BY <1>1, <1>3, <1>5, <2>1 DEF Distinct
  <2>3. ASSUME NEW i \in 1 .. n - 1, NEW j \in 1 .. n - 1,
               pages'[s][i].block = pages'[s][j].block
        PROVE  i = j
    <3>1. pages[s][i + 1].block = pages[s][j + 1].block
      BY <1>3, <2>3
    <3>2. i + 1 = j + 1
      BY <1>1, <1>5, <2>1, <3>1 DEF Distinct
    <3>. QED BY <3>2
  <2>. QED BY <1>2, <1>3, <1>5, <2>2, <2>3 DEF Distinct
<1>7. BlocksOf(s)' = BlocksOf(s) \ {b}
  <2>1. \A i \in 1 .. n : i # 1 => pages[s][i].block # b
    BY <1>1, <1>3, <1>5 DEF Distinct
  <2>2. {pages[s][i].block : i \in 1 .. n} \ {b} = {pages'[s][i].block : i \in 1 .. n - 1}
    <3>1. ASSUME NEW i \in 1 .. n, pages[s][i].block # b
          PROVE  \E j \in 1 .. n - 1 : pages'[s][j].block = pages[s][i].block
      <4>1. i - 1 \in 1 .. n - 1 /\ (i - 1) + 1 = i
        BY <1>1, <1>3, <3>1
      <4>. QED BY <1>3, <4>1
    <3>2. ASSUME NEW j \in 1 .. n - 1
          PROVE  j + 1 \in 1 .. n /\ j + 1 # 1 /\ pages'[s][j].block = pages[s][j + 1].block
      BY <1>3
    <3>. QED BY <2>1, <3>1, <3>2
  <2>3. self[s] # b
    BY <1>1, <1>3, <1>5 DEF Distinct
  <2>. QED BY <1>1, <1>2, <1>3, <2>2, <2>3 DEF BlocksOf
<1>8. b \in BlocksOf(s)
  BY <1>1, <1>3 DEF BlocksOf
<1>9. Shares'
  BY <1>2, <1>4, <1>7, <1>8, StorageLoses DEF Ownership
<1>. QED BY <1>4, <1>6, <1>9 DEF Ownership

LEMMA FreeStorageOwnership ==
  ASSUME IInv, Ownership, NEW s \in Storages, FreeStorage(s)
  PROVE  Ownership'
<1>1. /\ self[s] \in used /\ used' = used \ {self[s]} /\ own' = own
      /\ pages' = pages /\ pages[s] = <<>> /\ self' = [self EXCEPT ![s] = Null]
  BY DEF FreeStorage, FreeBlock, NoPages
<1>2. self[s] # Null /\ self'[s] = Null
  BY <1>1, NullAssumption DEF IInv, Owners, BlocksInv, BlocksTypeOK
<1>3. \A t \in Storages \ {s} : BlocksOf(t)' = BlocksOf(t) /\ Distinct(t)'
  BY <1>1, SameOwner DEF Ownership, IInv, Owners
<1>4. BlocksOf(s) = {self[s]} /\ BlocksOf(s)' = {} /\ Distinct(s)'
  BY <1>1, <1>2 DEF BlocksOf, Distinct
<1>5. Shares'
  BY <1>1, <1>3, <1>4, StorageLoses DEF Ownership
<1>. QED BY <1>3, <1>4, <1>5 DEF Ownership

\* The pages of s, after its newest has handed out some of its cells
LEMMA PageFilled ==
  ASSUME IInv, NEW s \in Storages, NEW size \in Requests, MallocFromPage(s, size)
  PROVE  /\ Len(pages[s]) \in Nat \ {0} /\ Len(pages'[s]) = Len(pages[s])
         /\ pages[s][1] \in Pages
         /\ pages'[s][1] = [pages[s][1] EXCEPT !.use_cell_num = @ + Cells(size)]
         /\ \A i \in 2 .. Len(pages[s]) : pages'[s][i] = pages[s][i]
         /\ \A t \in Storages \ {s} : pages'[t] = pages[t]
<1>1. pages[s] \in Seq(Pages) /\ pages[s] # <<>>
  BY DEF MallocFromPage, HasRoom, IInv, Owners
<1>2. PICK q, new : q = pages[s] /\ new = [q[1] EXCEPT !.use_cell_num = @ + Cells(size)]
  OBVIOUS
<1>3. q \in Seq(Pages) /\ q # <<>>
  BY <1>1, <1>2
<1>4. Len(q) \in Nat \ {0}
  BY ONLY <1>3, EmptySeq, LenProperties
<1>5. 1 \in 1 .. Len(q) /\ q[1] \in Pages
  <2>1. 1 \in 1 .. Len(q)
    BY <1>4
  <2>. QED BY ONLY <1>3, <2>1, ElementOfSeq
<1>6. DOMAIN q = 1 .. Len(q)
  BY ONLY <1>3, LenProperties
<1>7. PICK r : r = [q EXCEPT ![1] = new]
  OBVIOUS
<1>8. pages' = [pages EXCEPT ![s] = r]
  BY <1>2, <1>7 DEF MallocFromPage
<1>9. r[1] = new /\ \A i \in 2 .. Len(q) : r[i] = q[i]
  BY <1>4, <1>5, <1>6, <1>7
<1>10. Len(r) = Len(q)
  <2>1. DOMAIN r = 1 .. Len(q) /\ r = [i \in 1 .. Len(q) |-> r[i]]
    BY <1>6, <1>7
  <2>2. new \in Pages
    <3>1. Cells(size) \in Nat
      BY CellsType, SizesAssumption
    <3>2. PICK page, m : page = q[1] /\ m = page.use_cell_num + Cells(size)
      OBVIOUS
    <3>3. page \in Pages /\ m \in Nat /\ new = [page EXCEPT !.use_cell_num = m]
      BY <1>2, <1>5, <3>1, <3>2 DEF Pages
    <3>. QED BY ONLY <3>3 DEF Pages
  <2>. QED BY ONLY <1>3, <1>5, <1>7, <2>2, ExceptSeq
<1>11. pages'[s] = r /\ \A t \in Storages \ {s} : pages'[t] = pages[t]
  BY <1>8 DEF IInv, Owners
<1>. QED BY <1>2, <1>4, <1>5, <1>9, <1>10, <1>11

LEMMA MallocFromPageOwnership ==
  ASSUME IInv, Ownership, NEW s \in Storages, NEW size \in Requests, MallocFromPage(s, size)
  PROVE  Ownership'
<1>1. UNCHANGED <<used, own, self>>
  BY DEF MallocFromPage, blockVars
<1>2. PICK n : n = Len(pages[s])
  OBVIOUS
<1>3. /\ n \in Nat \ {0} /\ Len(pages'[s]) = n
      /\ \A i \in 1 .. n : pages'[s][i].block = pages[s][i].block
      /\ \A t \in Storages \ {s} : pages'[t] = pages[t]
  <2>1. pages'[s][1].block = pages[s][1].block
    BY PageFilled DEF Pages
  <2>2. /\ n \in Nat \ {0} /\ Len(pages'[s]) = n
        /\ \A i \in 2 .. n : pages'[s][i] = pages[s][i]
        /\ \A t \in Storages \ {s} : pages'[t] = pages[t]
    BY <1>2, PageFilled
  <2>3. \A i \in 1 .. n : i = 1 \/ i \in 2 .. n
    BY <2>2
  <2>. QED BY <2>1, <2>2, <2>3
<1>4. \A t \in Storages \ {s} : BlocksOf(t)' = BlocksOf(t) /\ Distinct(t)'
  BY <1>1, <1>3, SameOwner DEF Ownership
<1>5. BlocksOf(s)' = BlocksOf(s)
  <2>1. {pages'[s][i].block : i \in 1 .. n} = {pages[s][i].block : i \in 1 .. n}
    BY <1>3
  <2>. QED BY <1>1, <1>2, <1>3, <2>1 DEF BlocksOf
<1>6. Distinct(s)'
  <2>1. self[s] # Null
    BY DEF MallocFromPage
  <2>. QED BY <1>1, <1>2, <1>3, <2>1 DEF Ownership, Distinct
<1>. QED BY <1>1, <1>4, <1>5, <1>6 DEF Ownership, Shares

\* The pages of s, after a new one has been put in front
LEMMA PageAdded ==
  ASSUME IInv, NEW s \in Storages, NEW page \in Pages,
         pages' = [pages EXCEPT ![s] = <<page>> \o @]
  PROVE  /\ Len(pages[s]) \in Nat /\ Len(pages'[s]) = Len(pages[s]) + 1
         /\ pages'[s][1] = page
         /\ \A i \in 1 .. Len(pages[s]) : pages'[s][i + 1] = pages[s][i]
         /\ \A t \in Storages \ {s} : pages'[t] = pages[t]
<1>1. PICK q, r : q = pages[s] /\ r = <<page>> \o q
  OBVIOUS
<1>2. q \in Seq(Pages) /\ pages'[s] = r /\ \A t \in Storages \ {s} : pages'[t] = pages[t]
  BY <1>1 DEF IInv, Owners
<1>3. <<page>> \in Seq(Pages) /\ Len(<<page>>) = 1 /\ <<page>>[1] = page
  OBVIOUS
<1>4. Len(q) \in Nat
  BY ONLY <1>2, LenProperties
<1>5. Len(r) = Len(q) + 1 /\ r[1] = page /\ \A i \in 1 .. Len(q) : r[i + 1] = q[i]
  BY <1>1, <1>2, <1>3, <1>4, ConcatProperties
<1>. QED BY <1>1, <1>2, <1>4, <1>5

LEMMA MallocNewPageOwnership ==
  ASSUME IInv, Ownership, NEW s \in Storages, NEW size \in Requests, MallocNewPage(s, size)
  PROVE  Ownership'
<1>1. PICK a \in Addresses, page \in Pages :
        /\ a \notin used /\ used' = used \union {a} /\ page.block = a
        /\ pages' = [pages EXCEPT ![s] = <<page>> \o @]
  <2>1. PICK m, n : m = NewPageCells(Cells(size)) /\ n = Cells(size)
    OBVIOUS
  <2>2. m \in Nat /\ n \in Nat
    BY <2>1, CellsType, SizesAssumption
  <2>3. PICK a \in Addresses :
          /\ MallocBlock(a, Overhead + CellSize * m)
          /\ pages' = [pages EXCEPT ![s] =
                         <<[block |-> a, cell_num |-> m, use_cell_num |-> n]>> \o @]
    BY <2>1 DEF MallocNewPage
  <2>4. [block |-> a, cell_num |-> m, use_cell_num |-> n] \in Pages
    BY <2>2 DEF Pages
  <2>. QED BY <2>3, <2>4 DEF MallocBlock
<1>2. UNCHANGED <<own, self>> /\ self[s] # Null
  BY DEF MallocNewPage
<1>3. PICK n : n = Len(pages[s])
  OBVIOUS
<1>4. /\ n \in Nat /\ Len(pages'[s]) = n + 1 /\ pages'[s][1].block = a
      /\ \A i \in 1 .. n : pages'[s][i + 1] = pages[s][i]
      /\ \A t \in Storages \ {s} : pages'[t] = pages[t]
  BY <1>1, <1>3, PageAdded
<1>5. \A t \in Storages \ {s} : BlocksOf(t)' = BlocksOf(t) /\ Distinct(t)'
  BY <1>2, <1>4, SameOwner DEF Ownership
<1>6. \A j \in 2 .. n + 1 : j - 1 \in 1 .. n /\ pages'[s][j] = pages[s][j - 1]
  <2>1. ASSUME NEW j \in 2 .. n + 1 PROVE j - 1 \in 1 .. n /\ pages'[s][j] = pages[s][j - 1]
    <3>1. j - 1 \in 1 .. n /\ (j - 1) + 1 = j
      BY <1>4
    <3>. QED BY <1>4, <3>1
  <2>. QED BY <2>1
<1>7. BlocksOf(s)' = BlocksOf(s) \union {a}
  <2>1. {pages'[s][j].block : j \in 1 .. n + 1} = {pages[s][i].block : i \in 1 .. n} \union {a}
    <3>1. ASSUME NEW j \in 1 .. n + 1
          PROVE  pages'[s][j].block = a \/ \E i \in 1 .. n : pages'[s][j].block = pages[s][i].block
      <4>1. CASE j = 1
        BY <1>4, <4>1
      <4>2. CASE j # 1
        <5>1. j \in 2 .. n + 1
          BY <1>4, <4>2
        <5>. QED BY <1>6, <5>1
      <4>. QED BY <4>1, <4>2
    <3>2. ASSUME NEW i \in 1 .. n
          PROVE  i + 1 \in 1 .. n + 1 /\ pages'[s][i + 1].block = pages[s][i].block
      BY <1>4
    <3>3. 1 \in 1 .. n + 1
      BY <1>4
    <3>4. PICK q, r : q = pages[s] /\ r = pages'[s]
      OBVIOUS
    <3>5. /\ \A j \in 1 .. n + 1 : r[j].block = a \/ \E i \in 1 .. n : r[j].block = q[i].block
          /\ \A i \in 1 .. n : i + 1 \in 1 .. n + 1 /\ r[i + 1].block = q[i].block
          /\ 1 \in 1 .. n + 1 /\ r[1].block = a
      BY <1>4, <3>1, <3>2, <3>3, <3>4
    <3>6. {r[j].block : j \in 1 .. n + 1} = {q[i].block : i \in 1 .. n} \union {a}
      <4>1. ASSUME NEW b \in {q[i].block : i \in 1 .. n} \union {a}
            PROVE  \E j \in 1 .. n + 1 : r[j].block = b
        BY ONLY <3>5, <4>1
      <4>2. ASSUME NEW j \in 1 .. n + 1
            PROVE  r[j].block \in {q[i].block : i \in 1 .. n} \union {a}
        BY <3>5
      <4>. QED BY ONLY <4>1, <4>2
    <3>. QED BY <3>4, <3>6
  <2>. QED BY <1>2, <1>3, <1>4, <2>1 DEF BlocksOf
<1>8. self[s] \in BlocksOf(s) /\ \A i \in 1 .. n : pages[s][i].block \in BlocksOf(s)
  BY <1>2, <1>3 DEF BlocksOf
<1>9. self[s] # a /\ \A i \in 1 .. n : pages[s][i].block # a
  BY <1>1, <1>8 DEF Ownership, Shares
<1>10. Distinct(s)'
  <2>1. Distinct(s)
    BY DEF Ownership
  <2>2. \A j \in 1 .. n + 1 : j = 1 \/ j \in 2 .. n + 1
    BY <1>4
  <2>3. \A j \in 1 .. n + 1 : pages'[s][j].block # self[s]
    <3>1. ASSUME NEW j \in 1 .. n + 1 PROVE pages'[s][j].block # self[s]
      <4>1. CASE j = 1
        BY <1>4, <1>9, <4>1
      <4>2. CASE j \in 2 .. n + 1
        <5>1. PICK i : i = j - 1 /\ i \in 1 .. n /\ pages'[s][j] = pages[s][i]
          BY <1>6, <4>2
        <5>2. pages[s][i].block # self[s]
          BY <1>3, <2>1, <5>1 DEF Distinct
        <5>. QED BY <5>1, <5>2
      <4>. QED BY <2>2, <4>1, <4>2
    <3>. QED BY <3>1
  <2>4. ASSUME NEW i \in 1 .. n + 1, NEW j \in 1 .. n + 1,
               pages'[s][i].block = pages'[s][j].block
        PROVE  i = j
    <3>1. CASE i = 1 /\ j \in 2 .. n + 1
      BY <1>4, <1>6, <1>9, <2>4, <3>1, SMTT(30)
    <3>2. CASE j = 1 /\ i \in 2 .. n + 1
      BY <1>4, <1>6, <1>9, <2>4, <3>2, ZenonT(30)
    <3>3. CASE i \in 2 .. n + 1 /\ j \in 2 .. n + 1
      <4>1. i - 1 = j - 1
        BY <1>3, <1>6, <2>1, <2>4, <3>3, SMTT(30) DEF Distinct
      <4>. QED BY <4>1, <3>3, <1>4
    <3>. QED BY <2>2, <3>1, <3>2, <3>3
  <2>. QED BY <1>2, <1>4, <2>3, <2>4 DEF Distinct
<1>11. Shares'
  BY <1>1, <1>2, <1>5, <1>7, StorageGains DEF Ownership
<1>. QED BY <1>5, <1>10, <1>11 DEF Ownership

LEMMA StepOwnership == IInv /\ Ownership /\ [Next]_vars => Ownership'
<1> SUFFICES ASSUME IInv, Ownership, [Next]_vars PROVE Ownership'
  OBVIOUS
<1>1. CASE Stopped \/ UNCHANGED vars
  <2>1. UNCHANGED <<used, own, self, pages>>
    BY <1>1 DEF Stopped, vars
  <2>2. \A t \in Storages : BlocksOf(t)' = BlocksOf(t) /\ Distinct(t)'
    BY <2>1, SameOwner DEF Ownership
  <2>. QED BY <2>1, <2>2 DEF Ownership, Shares
<1>. QED
  BY <1>1, ProgramOwnership, OpenOwnership, DisposeOwnership, FreePageOwnership,
     FreeStorageOwnership, MallocFromPageOwnership, MallocNewPageOwnership DEF Next

THEOREM Owned == Spec => []Ownership
BY InitOwnership, StepOwnership, Invariance, PTL DEF Spec

\* Every block in use belongs to an open storage or to the rest of the program, to one only:
\* what MEM_dispose_storage frees is all that the storage had (storage.c:86-98).
THEOREM NothingLost == Spec => []NothingIsLost
<1>1. Ownership => NothingIsLost
  BY DEF Ownership, Shares, Distinct, NothingIsLost
<1>. QED BY <1>1, Owned, PTL

-----------------------------------------------------------------------------
(* Where the objects lie.                                                  *)

\* The cells of o are among those page q has given away.
On(o, q) == o.page = q.block /\ o.first + Cells(o.size) <= q.use_cell_num

CellsApart(o, p) ==
  o.first + Cells(o.size) <= p.first \/ p.first + Cells(p.size) <= o.first

Layout(s) ==
  /\ closing[s] => objects[s] = {}
  /\ \A i \in 1 .. Len(pages[s]) :
       /\ pages[s][i].use_cell_num <= pages[s][i].cell_num
       /\ chain.header[pages[s][i].block].size = Overhead + CellSize * pages[s][i].cell_num
  /\ \A o \in objects[s] : o.size # 0 /\ \E i \in 1 .. Len(pages[s]) : On(o, pages[s][i])
  /\ \A o, p \in objects[s] : o.page = p.page => o = p \/ CellsApart(o, p)

Layouts == \A s \in Storages : Layout(s)

LEMMA InitLayouts == Init => Layouts
BY DEF Init, Layouts, Layout

\* The pages of a storage are blocks in use, and nobody else's.
LEMMA PageBlocks ==
  ASSUME IInv, Ownership, NEW s \in Storages, NEW i \in 1 .. Len(pages[s])
  PROVE  /\ pages[s][i].block \in BlocksOf(s) /\ pages[s][i].block \in used
         /\ pages[s][i].block \in Addresses /\ pages[s][i].block \notin own
         /\ pages[s][i] \in Pages
<1>1. pages[s][i].block \in BlocksOf(s)
  BY DEF BlocksOf
<1>2. pages[s][i].block \in used /\ pages[s][i].block \notin own
  BY <1>1 DEF Ownership, Shares
<1>3. used \subseteq Addresses /\ pages[s] \in Seq(Pages)
  BY DEF IInv, Owners, BlocksInv, BlocksTypeOK
<1>. QED BY <1>1, <1>2, <1>3, ElementOfSeq

LEMMA SameLayout ==
  ASSUME IInv, NEW s \in Storages, Layout(s),
         pages'[s] = pages[s], closing'[s] = closing[s], objects'[s] = objects[s],
         \A i \in 1 .. Len(pages[s]) :
           chain'.header[pages[s][i].block].size = chain.header[pages[s][i].block].size
  PROVE  Layout(s)'
BY DEF Layout

LEMMA SameLayouts ==
  ASSUME IInv, Ownership, Layouts, UNCHANGED <<pages, closing, objects>>,
         \A b \in used \ own : chain'.header[b].size = chain.header[b].size
  PROVE  Layouts'
BY SameLayout, PageBlocks DEF Layouts

LEMMA ProgramLayouts ==
  ASSUME IInv, Ownership, Layouts, Malloc \/ Realloc \/ Free \/ Fault
  PROVE  Layouts'
<1>1. UNCHANGED <<pages, closing, objects>>
  BY DEF Malloc, Realloc, Free, Fault
<1>2. BlocksInv /\ used \subseteq Addresses /\ own \subseteq Addresses
  BY DEF IInv, Owners, BlocksInv, BlocksTypeOK
<1>3. ASSUME NEW b \in used \ own
      PROVE  chain'.header[b].size = chain.header[b].size
  <2>1. CASE Malloc
    <3>1. PICK a \in Addresses, size \in BlockSizes : MallocBlock(a, size)
      BY <2>1 DEF Malloc
    <3>2. a \notin used
      BY <3>1 DEF MallocBlock
    <3>. QED BY <1>2, <1>3, <3>1, <3>2, MallocKeeps, SizesAssumption DEF Kept
  <2>2. CASE Realloc
    <3>1. PICK q \in own, a \in Addresses, size \in BlockSizes : ReallocBlock(q, a, size)
      BY <2>2 DEF Realloc
    <3>2. a \in {q} \union (Addresses \ used)
      BY <3>1 DEF ReallocBlock
    <3>. QED BY <1>2, <1>3, <3>1, <3>2, ReallocKeeps, SizesAssumption DEF Kept
  <2>3. CASE Free
    <3>1. PICK q \in own : FreeBlock(q)
      BY <2>3 DEF Free
    <3>. QED BY <1>2, <1>3, <3>1, FreeKeeps DEF Kept
  <2>4. CASE Fault
    <3>1. CASE Overrun
      BY <1>2, <1>3, <3>1, OverrunKeeps
    <3>. QED BY <2>4, <3>1 DEF Fault, BadMark, OutOfMemory
  <2>. QED BY <2>1, <2>2, <2>3, <2>4
<1>. QED BY <1>1, <1>3, SameLayouts

LEMMA OpenLayouts ==
  ASSUME IInv, Ownership, Layouts, NEW s \in Storages, Open(s)
  PROVE  Layouts'
<1>1. PICK a \in Addresses : MallocBlock(a, StorageSize)
  BY DEF Open
<1>2. a \notin used /\ UNCHANGED <<pages, closing, objects>>
  BY <1>1 DEF MallocBlock, Open
<1>3. BlocksInv /\ used \subseteq Addresses
  BY DEF IInv, BlocksInv, BlocksTypeOK
<1>4. \A b \in used \ own : chain'.header[b].size = chain.header[b].size
  BY <1>1, <1>2, <1>3, MallocKeeps, SizesAssumption DEF Kept
<1>. QED BY <1>2, <1>4, SameLayouts

LEMMA DisposeLayouts ==
  ASSUME IInv, Ownership, Layouts, NEW s \in Storages, Dispose(s)
  PROVE  Layouts'
<1>1. chain' = chain /\ pages' = pages
  BY DEF Dispose, blockVars
<1>2. ASSUME NEW t \in Storages \ {s} PROVE Layout(t)'
  <2>1. closing'[t] = closing[t] /\ objects'[t] = objects[t]
    BY DEF Dispose, IInv, Owners
  <2>. QED BY <1>1, <2>1, SameLayout DEF Layouts
<1>3. Layout(s)'
  <2>1. objects'[s] = {}
    BY DEF Dispose, IInv, Owners
  <2>. QED BY <1>1, <2>1 DEF Layouts, Layout
<1>. QED BY <1>2, <1>3 DEF Layouts

LEMMA FreePageLayouts ==
  ASSUME IInv, Ownership, Layouts, NEW s \in Storages, FreePage(s)
  PROVE  Layouts'
<1>1. PICK n, b : n = Len(pages[s]) /\ b = pages[s][1].block
  OBVIOUS
<1>2. FreeBlock(b) /\ closing' = closing /\ objects' = objects /\ closing[s]
  BY <1>1 DEF FreePage
<1>3. /\ n \in Nat \ {0} /\ Len(pages'[s]) = n - 1
      /\ \A i \in 1 .. n - 1 : pages'[s][i] = pages[s][i + 1]
      /\ \A t \in Storages \ {s} : pages'[t] = pages[t]
  BY <1>1, PagesLeft
<1>4. b \in BlocksOf(s) /\ BlocksInv
  BY <1>1, <1>3 DEF BlocksOf, IInv
<1>5. ASSUME NEW c \in Addresses \ {b} PROVE chain'.header[c].size = chain.header[c].size
  BY <1>2, <1>4, FreeKeeps DEF Kept
<1>6. ASSUME NEW t \in Storages \ {s} PROVE Layout(t)'
  <2>1. ASSUME NEW i \in 1 .. Len(pages[t]) PROVE pages[t][i].block \in Addresses \ {b}
    BY <1>4, PageBlocks DEF Ownership, Shares
  <2>. QED BY <1>2, <1>3, <1>5, <2>1, SameLayout DEF Layouts
<1>7. Layout(s)'
  <2>1. objects'[s] = {}
    BY <1>2 DEF Layouts, Layout
  <2>2. ASSUME NEW i \in 1 .. n - 1
        PROVE  /\ i + 1 \in 1 .. n /\ pages'[s][i] = pages[s][i + 1]
               /\ pages[s][i + 1].block \in Addresses \ {b}
    <3>1. i + 1 \in 1 .. n /\ i + 1 # 1 /\ 1 \in 1 .. n
      BY <1>3
    <3>2. pages[s][i + 1].block # b
      BY <1>1, <3>1 DEF Ownership, Distinct
    <3>. QED BY <1>1, <1>3, <3>1, <3>2, PageBlocks
  <2>3. ASSUME NEW i \in 1 .. n - 1
        PROVE  /\ pages'[s][i].use_cell_num <= pages'[s][i].cell_num
               /\ chain'.header[pages'[s][i].block].size
                    = Overhead + CellSize * pages'[s][i].cell_num
    <3>1. PICK q, j : q = pages[s][j] /\ j = i + 1
      OBVIOUS
    <3>2. j \in 1 .. Len(pages[s]) /\ pages'[s][i] = q /\ q.block \in Addresses \ {b}
      BY <1>1, <2>2, <3>1
    <3>3. q.use_cell_num <= q.cell_num
          /\ chain.header[q.block].size = Overhead + CellSize * q.cell_num
      BY <3>1, <3>2 DEF Layouts, Layout
    <3>. QED BY <1>5, <3>2, <3>3
  <2>. QED BY <1>3, <2>1, <2>3 DEF Layout
<1>. QED BY <1>6, <1>7 DEF Layouts

LEMMA FreeStorageLayouts ==
  ASSUME IInv, Ownership, Layouts, NEW s \in Storages, FreeStorage(s)
  PROVE  Layouts'
<1>1. /\ FreeBlock(self[s]) /\ pages' = pages /\ objects' = objects /\ pages[s] = <<>>
      /\ closing' = [closing EXCEPT ![s] = FALSE]
  BY DEF FreeStorage, NoPages
<1>2. self[s] \in BlocksOf(s) /\ BlocksInv
  BY <1>1, NullAssumption DEF FreeBlock, BlocksOf, IInv, BlocksInv, BlocksTypeOK
<1>3. ASSUME NEW c \in Addresses \ {self[s]}
      PROVE  chain'.header[c].size = chain.header[c].size
  BY <1>1, <1>2, FreeKeeps DEF Kept
<1>4. ASSUME NEW t \in Storages \ {s} PROVE Layout(t)'
  <2>1. ASSUME NEW i \in 1 .. Len(pages[t]) PROVE pages[t][i].block \in Addresses \ {self[s]}
    BY <1>2, PageBlocks DEF Ownership, Shares
  <2>2. closing'[t] = closing[t]
    BY <1>1 DEF IInv, Owners
  <2>. QED BY <1>1, <1>3, <2>1, <2>2, SameLayout DEF Layouts
<1>5. Layout(s)'
  <2>1. closing'[s] = FALSE /\ pages'[s] = <<>> /\ objects'[s] = objects[s]
    BY <1>1 DEF IInv, Owners
  <2>. QED BY <1>1, <2>1 DEF Layouts, Layout
<1>. QED BY <1>4, <1>5 DEF Layouts

\* An object is added to those of s, on a page where nothing lies behind it.
LEMMA ObjectAdded ==
  ASSUME Layouts, NEW s \in Storages, NEW o, o.size # 0,
         ~closing[s], closing' = closing, objects'[s] = objects[s] \union {o},
         \A i \in 1 .. Len(pages'[s]) :
           /\ pages'[s][i].use_cell_num <= pages'[s][i].cell_num
           /\ chain'.header[pages'[s][i].block].size
                = Overhead + CellSize * pages'[s][i].cell_num,
         \E i \in 1 .. Len(pages'[s]) : On(o, pages'[s][i]),
         \A p \in objects[s] : \E i \in 1 .. Len(pages'[s]) : On(p, pages'[s][i]),
         \A p \in objects[s] : p.page = o.page => p.first + Cells(p.size) <= o.first
  PROVE  Layout(s)'
<1>1. \A p \in objects[s] : p.size # 0
  BY DEF Layouts, Layout
<1>2. \A p, q \in objects[s] : p.page = q.page => p = q \/ CellsApart(p, q)
  BY DEF Layouts, Layout
<1>3. \A p \in objects'[s] :
        p.size # 0 /\ \E i \in 1 .. Len(pages'[s]) : On(p, pages'[s][i])
  BY <1>1
<1>4. \A p, q \in objects'[s] : p.page = q.page => p = q \/ CellsApart(p, q)
  BY <1>2 DEF CellsApart
<1>5. closing'[s] => objects'[s] = {}
  OBVIOUS
<1>. QED BY <1>3, <1>4, <1>5 DEF Layout, On, CellsApart

LEMMA MallocFromPageLayouts ==
  ASSUME IInv, Ownership, Layouts, NEW s \in Storages, NEW size \in Requests,
         MallocFromPage(s, size)
  PROVE  Layouts'
<1>1. PICK m, n, q, o :
        /\ m = Len(pages[s]) /\ n = Cells(size) /\ q = pages[s][1]
        /\ o = [page |-> q.block, first |-> q.use_cell_num, size |-> size]
  OBVIOUS
<1>2. /\ m \in Nat \ {0} /\ Len(pages'[s]) = m /\ q \in Pages
      /\ pages'[s][1] = [q EXCEPT !.use_cell_num = @ + n]
      /\ \A i \in 2 .. m : pages'[s][i] = pages[s][i]
      /\ \A t \in Storages \ {s} : pages'[t] = pages[t]
  BY <1>1, PageFilled
<1>3. /\ chain' = chain /\ closing' = closing /\ ~closing[s]
      /\ objects' = [objects EXCEPT ![s] = @ \union {o}]
      /\ q.use_cell_num + n < q.cell_num
  BY <1>1 DEF MallocFromPage, blockVars, Idle, HandOut, HasRoom
<1>4. objects'[s] = objects[s] \union {o} /\ \A t \in Storages \ {s} : objects'[t] = objects[t]
  BY <1>3 DEF IInv, Owners
<1>5. ASSUME NEW t \in Storages \ {s} PROVE Layout(t)'
  BY <1>2, <1>3, <1>4, SameLayout DEF Layouts
<1>6. PICK u : u = pages'[s][1]
  OBVIOUS
<1>7. /\ n \in Nat /\ q.use_cell_num \in Nat /\ q.cell_num \in Nat
      /\ u.block = q.block /\ u.cell_num = q.cell_num /\ u.use_cell_num = q.use_cell_num + n
  <2>1. n \in Nat
    BY <1>1, CellsType, SizesAssumption
  <2>. QED BY <1>2, <1>6, <2>1 DEF Pages
<1>8. \A i \in 1 .. m : i = 1 \/ i \in 2 .. m
  BY <1>2
<1>9. 1 \in 1 .. m
  BY <1>2
<1>10. ASSUME NEW i \in 1 .. m
       PROVE  /\ pages'[s][i].use_cell_num <= pages'[s][i].cell_num
              /\ chain'.header[pages'[s][i].block].size
                   = Overhead + CellSize * pages'[s][i].cell_num
  <2>1. /\ pages[s][i].use_cell_num <= pages[s][i].cell_num
        /\ chain.header[pages[s][i].block].size = Overhead + CellSize * pages[s][i].cell_num
    BY <1>1 DEF Layouts, Layout
  <2>2. CASE i = 1
    <3>1. u.use_cell_num <= u.cell_num
      BY <1>3, <1>7
    <3>. QED BY <1>1, <1>3, <1>6, <1>7, <2>1, <2>2, <3>1
  <2>3. CASE i \in 2 .. m
    BY <1>2, <1>3, <2>1, <2>3
  <2>. QED BY <1>8, <2>2, <2>3
<1>11. On(o, pages'[s][1])
  BY <1>1, <1>6, <1>7 DEF On
<1>12. ASSUME NEW p \in objects[s]
       PROVE  /\ \E i \in 1 .. m : On(p, pages'[s][i])
              /\ p.page = o.page => p.first + Cells(p.size) <= o.first
  <2>1. PICK i \in 1 .. m : On(p, pages[s][i])
    BY <1>1 DEF Layouts, Layout
  <2>2. p.first + Cells(p.size) \in Nat
    <3>1. p.first \in Nat /\ p.size \in Nat \ {0}
      BY DEF IInv, Owners, Objects, Layouts, Layout
    <3>2. Cells(p.size) \in Nat
      BY <3>1, CellsType
    <3>. QED BY <3>1, <3>2
  <2>3. On(p, pages'[s][i])
    <3>1. CASE i = 1
      <4>1. p.page = q.block /\ p.first + Cells(p.size) <= q.use_cell_num
        BY <1>1, <2>1, <3>1 DEF On
      <4>. QED BY <1>6, <1>7, <2>2, <3>1, <4>1 DEF On
    <3>2. CASE i \in 2 .. m
      BY <1>2, <2>1, <3>2
    <3>. QED BY <1>8, <3>1, <3>2
  <2>4. ASSUME p.page = o.page PROVE p.first + Cells(p.size) <= o.first
    <3>1. pages[s][i].block = pages[s][1].block
      BY <1>1, <2>1, <2>4 DEF On
    <3>2. i = 1
      BY <1>1, <1>9, <3>1 DEF Ownership, Distinct
    <3>. QED BY <1>1, <2>1, <3>2 DEF On
  <2>. QED BY <2>3, <2>4
<1>13. o.size # 0
  BY <1>1, SizesAssumption
<1>14. Layout(s)'
  BY <1>2, <1>3, <1>4, <1>9, <1>10, <1>11, <1>12, <1>13, ObjectAdded
<1>. QED BY <1>5, <1>14 DEF Layouts

LEMMA MallocNewPageLayouts ==
  ASSUME IInv, Ownership, Layouts, NEW s \in Storages, NEW size \in Requests,
         MallocNewPage(s, size)
  PROVE  Layouts'
<1>1. PICK m, n, k : m = Len(pages[s]) /\ n = Cells(size) /\ k = NewPageCells(Cells(size))
  OBVIOUS
<1>2. n \in Nat /\ k \in Nat /\ n <= k
  BY <1>1, CellsType, SizesAssumption
<1>3. PICK a, page, o :
        /\ a \in Addresses /\ MallocBlock(a, Overhead + CellSize * k)
        /\ page = [block |-> a, cell_num |-> k, use_cell_num |-> n]
        /\ pages' = [pages EXCEPT ![s] = <<page>> \o @]
        /\ o = [page |-> a, first |-> 0, size |-> size]
        /\ objects' = [objects EXCEPT ![s] = @ \union {o}]
  BY <1>1 DEF MallocNewPage, HandOut
<1>4. page \in Pages /\ page.block = a /\ page.cell_num = k /\ page.use_cell_num = n
  BY <1>2, <1>3 DEF Pages
<1>5. /\ m \in Nat /\ Len(pages'[s]) = m + 1 /\ pages'[s][1] = page
      /\ \A i \in 1 .. m : pages'[s][i + 1] = pages[s][i]
      /\ \A t \in Storages \ {s} : pages'[t] = pages[t]
  BY <1>1, <1>3, <1>4, PageAdded
<1>6. closing' = closing /\ ~closing[s]
  BY DEF MallocNewPage, Idle
<1>7. objects'[s] = objects[s] \union {o} /\ \A t \in Storages \ {s} : objects'[t] = objects[t]
  BY <1>3 DEF IInv, Owners
<1>8. /\ chain'.header[a].size = Overhead + CellSize * k
      /\ \A b \in Addresses \ {a} : chain'.header[b].size = chain.header[b].size
  BY <1>2, <1>3, BlockBytes, MallocKeeps DEF IInv, Kept
<1>9. a \notin used
  BY <1>3 DEF MallocBlock
<1>10. ASSUME NEW t \in Storages, NEW i \in 1 .. Len(pages[t])
       PROVE  pages[t][i].block \in Addresses \ {a}
  BY <1>9, PageBlocks
<1>11. ASSUME NEW t \in Storages \ {s} PROVE Layout(t)'
  BY <1>5, <1>6, <1>7, <1>8, <1>10, SameLayout DEF Layouts
<1>12. ASSUME NEW j \in 1 .. m + 1
       PROVE  j = 1 \/ (j - 1 \in 1 .. m /\ pages'[s][j] = pages[s][j - 1])
  <2>1. CASE j # 1
    <3>1. j - 1 \in 1 .. m /\ (j - 1) + 1 = j
      BY <1>5, <2>1
    <3>. QED BY <1>5, <3>1
  <2>. QED BY <2>1
<1>13. ASSUME NEW j \in 1 .. m + 1
       PROVE  /\ pages'[s][j].use_cell_num <= pages'[s][j].cell_num
              /\ chain'.header[pages'[s][j].block].size
                   = Overhead + CellSize * pages'[s][j].cell_num
  <2>1. CASE j = 1
    BY <1>2, <1>4, <1>5, <1>8, <2>1
  <2>2. CASE j # 1
    <3>1. PICK i, q : i = j - 1 /\ q = pages[s][i]
      OBVIOUS
    <3>2. i \in 1 .. Len(pages[s]) /\ pages'[s][j] = q
      BY <1>1, <1>12, <2>2, <3>1
    <3>3. q.use_cell_num <= q.cell_num
          /\ chain.header[q.block].size = Overhead + CellSize * q.cell_num
      BY <3>1, <3>2 DEF Layouts, Layout
    <3>4. q.block \in Addresses \ {a}
      BY <1>10, <3>1, <3>2
    <3>. QED BY <1>8, <3>2, <3>3, <3>4
  <2>. QED BY <2>1, <2>2
<1>14. 1 \in 1 .. m + 1 /\ On(o, pages'[s][1])
  <2>1. 0 + Cells(size) <= n
    BY <1>1, <1>2
  <2>. QED BY <1>3, <1>4, <1>5, <2>1 DEF On
<1>15. ASSUME NEW p \in objects[s]
       PROVE  /\ \E j \in 1 .. m + 1 : On(p, pages'[s][j])
              /\ p.page = o.page => p.first + Cells(p.size) <= o.first
  <2>1. PICK i \in 1 .. m : On(p, pages[s][i])
    BY <1>1 DEF Layouts, Layout
  <2>2. i + 1 \in 1 .. m + 1 /\ On(p, pages'[s][i + 1])
    BY <1>5, <2>1
  <2>3. p.page # a
    BY <1>1, <1>10, <2>1 DEF On
  <2>. QED BY <1>3, <2>2, <2>3
<1>16. o.size # 0
  BY <1>3, SizesAssumption
<1>17. Layout(s)'
  BY <1>5, <1>6, <1>7, <1>13, <1>14, <1>15, <1>16, ObjectAdded
<1>. QED BY <1>11, <1>17 DEF Layouts

LEMMA StepLayouts == IInv /\ Ownership /\ Layouts /\ [Next]_vars => Layouts'
<1> SUFFICES ASSUME IInv, Ownership, Layouts, [Next]_vars PROVE Layouts'
  OBVIOUS
<1>1. CASE Stopped \/ UNCHANGED vars
  BY <1>1, SameLayouts DEF Stopped, vars
<1>. QED
  BY <1>1, ProgramLayouts, OpenLayouts, DisposeLayouts, FreePageLayouts,
     FreeStorageLayouts, MallocFromPageLayouts, MallocNewPageLayouts DEF Next

THEOREM Laid == Spec => []Layouts
BY InitLayouts, StepLayouts, Invariance, Owned, PTL DEF Spec

\* The bytes of an object are within its cells.
LEMMA BytesInCells ==
  ASSUME NEW o \in Objects, o.size # 0
  PROVE  /\ Cells(o.size) \in Nat /\ o.first \in Nat
         /\ Bytes(o) \subseteq Overhead + CellSize * o.first + 1 ..
                               Overhead + CellSize * (o.first + Cells(o.size))
<1>1. PICK C, H, q, f, z :
        /\ C = CellSize /\ H = Overhead /\ f = o.first /\ z = o.size
        /\ q = (o.size - 1) \div CellSize
  OBVIOUS
<1>2. C \in Nat \ {0} /\ H \in Nat /\ f \in Nat /\ z \in Nat \ {0} /\ q \in Nat
      /\ q = (z - 1) \div C
  BY <1>1, SizesAssumption DEF Objects
<1>3. z - 1 < C * ((z - 1) \div C + 1)
  BY ONLY <1>2
<1>4. z <= C * (q + 1)
  <2>1. PICK y : y = C * (q + 1)
    OBVIOUS
  <2>2. y \in Nat /\ z - 1 < y
    BY <1>2, <1>3, <2>1
  <2>. QED BY <1>2, <2>1, <2>2
<1>5. C * (f + (q + 1)) = C * f + C * (q + 1)
  BY ONLY <1>2
<1>6. H + C * f + z <= H + C * (f + (q + 1))
  <2>1. PICK x, y, w : x = C * f /\ y = C * (q + 1) /\ w = C * (f + (q + 1))
    OBVIOUS
  <2>2. x \in Nat /\ y \in Nat /\ w = x + y /\ z <= y
    BY <1>2, <1>4, <1>5, <2>1
  <2>. QED BY <1>2, <2>1, <2>2
<1>7. Bytes(o) = H + C * f + 1 .. H + C * f + z /\ Cells(o.size) = q + 1
  BY <1>1 DEF Bytes, Cells
<1>8. H + C * f \in Nat /\ H + C * (f + (q + 1)) \in Nat
  BY <1>2
<1>9. H + C * f + 1 .. H + C * f + z \subseteq H + C * f + 1 .. H + C * (f + (q + 1))
  <2>1. PICK l, r : l = H + C * f /\ r = H + C * (f + (q + 1))
    OBVIOUS
  <2>2. l \in Nat /\ r \in Nat /\ l + z <= r
    BY <1>6, <1>8, <2>1
  <2>3. l + 1 .. l + z \subseteq l + 1 .. r
    BY <1>2, <2>2
  <2>. QED BY <2>1, <2>3
<1>. QED BY <1>1, <1>2, <1>7, <1>9, SMTT(30)

LEMMA CellsMonotonic ==
  ASSUME NEW i \in Nat, NEW j \in Nat, i <= j
  PROVE  /\ Overhead + CellSize * i \in Nat /\ Overhead + CellSize * j \in Nat
         /\ Overhead + CellSize * i <= Overhead + CellSize * j
<1>1. PICK C, H : C = CellSize /\ H = Overhead
  OBVIOUS
<1>2. C \in Nat /\ H \in Nat
  BY <1>1, SizesAssumption
<1>3. PICK d \in Nat : j = i + d
  <2>1. j - i \in Nat /\ j = i + (j - i)
    OBVIOUS
  <2>. QED BY <2>1
<1>4. C * (i + d) = C * i + C * d /\ C * i \in Nat /\ C * d \in Nat
  BY ONLY <1>2, i \in Nat
<1>5. C * j = C * i + C * d
  BY <1>3, <1>4
<1>. QED BY <1>1, <1>2, <1>4, <1>5

\* Nothing that a storage hands out shares a byte with another object or with a block of the
\* rest of the program, and it ends within its page (storage.c:57-80).
THEOREM ObjectsApart == Spec => []ObjectsAreApart
<1>1. IInv /\ Ownership /\ Layouts => ObjectsAreApart
  <2> SUFFICES ASSUME IInv, Ownership, Layouts, NEW s \in Storages, NEW o \in objects[s]
               PROVE  /\ o.page \in used /\ Bytes(o) \subseteq 1 .. chain.header[o.page].size
                      /\ o.page \notin own
                      /\ \A t \in Storages : \A p \in objects[t] :
                           Overlap(o, p) => o = p /\ s = t
    BY DEF ObjectsAreApart
  <2>1. PICK i \in 1 .. Len(pages[s]) : On(o, pages[s][i])
    BY DEF Layouts, Layout
  <2>2. o.page = pages[s][i].block /\ o \in Objects /\ o.size # 0
    BY <2>1 DEF On, IInv, Owners, Layouts, Layout
  <2>3. o.page \in used /\ o.page \notin own /\ o.page \in BlocksOf(s) /\ pages[s][i] \in Pages
    BY <2>2, PageBlocks
  <2>4. Bytes(o) \subseteq 1 .. chain.header[o.page].size
    <3>1. PICK q, e : q = pages[s][i].cell_num /\ e = o.first + Cells(o.size)
      OBVIOUS
    <3>2. q \in Nat /\ e \in Nat /\ e <= q
      <4>1. pages[s][i].use_cell_num <= pages[s][i].cell_num /\ e <= pages[s][i].use_cell_num
        BY <2>1, <3>1 DEF On, Layouts, Layout
      <4>2. pages[s][i].use_cell_num \in Nat /\ pages[s][i].cell_num \in Nat
        BY <2>3 DEF Pages
      <4>3. e \in Nat
        BY <2>2, <3>1, BytesInCells
      <4>. QED BY <3>1, <4>1, <4>2, <4>3
    <3>3. PICK l, r, h :
            /\ l = Overhead + CellSize * o.first /\ r = Overhead + CellSize * e
            /\ h = Overhead + CellSize * q
      OBVIOUS
    <3>4. chain.header[o.page].size = h
      BY <2>2, <3>1, <3>3 DEF Layouts, Layout
    <3>5. r \in Nat /\ h \in Nat /\ r <= h
      BY <3>2, <3>3, CellsMonotonic
    <3>6. l \in Nat
      BY <2>2, <3>3, BytesInCells, BlockBytes
    <3>7. Bytes(o) \subseteq l + 1 .. r
      BY <2>2, <3>1, <3>3, BytesInCells
    <3>. QED BY <3>4, <3>5, <3>6, <3>7
  <2>5. ASSUME NEW t \in Storages, NEW p \in objects[t], Overlap(o, p)
        PROVE  o = p /\ s = t
    <3>1. PICK j \in 1 .. Len(pages[t]) : On(p, pages[t][j])
      BY DEF Layouts, Layout
    <3>2. p.page \in BlocksOf(t) /\ p \in Objects /\ p.size # 0
      <4>1. p.page = pages[t][j].block
        BY <3>1 DEF On
      <4>. QED BY <4>1, PageBlocks DEF IInv, Owners, Layouts, Layout
    <3>3. o.page = p.page /\ s = t
      BY <2>3, <2>5, <3>2 DEF Overlap, Ownership, Shares
    <3>4. o = p \/ CellsApart(o, p)
      BY <3>3 DEF Layouts, Layout
    <3>5. ASSUME NEW x \in Objects, NEW y \in Objects, x.size # 0, y.size # 0,
                 x.first + Cells(x.size) <= y.first
          PROVE  Bytes(x) \intersect Bytes(y) = {}
      <4>1. PICK l, m, k, r :
              /\ l = Overhead + CellSize * x.first
              /\ m = Overhead + CellSize * (x.first + Cells(x.size))
              /\ k = Overhead + CellSize * y.first
              /\ r = Overhead + CellSize * (y.first + Cells(y.size))
        OBVIOUS
      <4>2. Bytes(x) \subseteq l + 1 .. m /\ Bytes(y) \subseteq k + 1 .. r
        BY <3>5, <4>1, BytesInCells
      <4>3. /\ x.first + Cells(x.size) \in Nat /\ x.first \in Nat
            /\ y.first + Cells(y.size) \in Nat /\ y.first \in Nat
        BY <3>5, BytesInCells
      <4>4. l \in Nat /\ m \in Nat /\ k \in Nat /\ r \in Nat
        BY <4>1, <4>3, BlockBytes
      <4>5. m <= k
        BY <3>5, <4>1, <4>3, CellsMonotonic
      <4>. QED BY <4>2, <4>4, <4>5
    <3>6. ~CellsApart(o, p)
      BY <2>2, <2>5, <3>2, <3>5 DEF CellsApart, Overlap
    <3>. QED BY <3>3, <3>4, <3>6
  <2>. QED BY <2>3, <2>4, <2>5
<1>. QED BY <1>1, Invariance, Owned, Laid, PTL

=============================================================================
