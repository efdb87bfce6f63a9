---------------------------- MODULE NamesProofs ----------------------------
(***************************************************************************)
(* Proofs about the modules Names and Ipv4Text: for all sets of addresses, *)
(* an IPv4 address has one block whichever way one asks for it, and what   *)
(* is found for an IPv6 address is its block; a text of any length is read *)
(* as the return code it is written for, and every return code survives    *)
(* being stored as text.                                                   *)
(***************************************************************************)
EXTENDS Names, Ipv4Text, WellFoundedInduction, TLAPS

----------------------------------------------------------------------------
(* Texts and keys                                                          *)

\* The parts of an address of either family.
Nibbles == Octets \cup Letters

\* The last four parts of a key.
LEMMA TailTyped ==
  ASSUME NEW s \in Seq(Nibbles), Len(s) >= 4
  PROVE  /\ Tail4(s) \in Seq(Nibbles) /\ Len(Tail4(s)) = 4
         /\ Len(s) = 4 => Tail4(s) = s
<1>1. Len(s) \in Nat /\ Len(s) - 3 \in Nat /\ Len(s) - 3 >= 1
    OBVIOUS
<1>2. Tail4(s) \in Seq(Nibbles) /\ Len(Tail4(s)) = 4
    BY <1>1 DEF Tail4
<1>3. ASSUME Len(s) = 4 PROVE Tail4(s) = s
  <2>1. \A k \in 1..4 : Tail4(s)[k] = s[k]
      BY <1>1, <1>3 DEF Tail4
  <2>. QED BY <1>2, <1>3, <2>1
<1>. QED BY Zenon, <1>2, <1>3

\* The addresses of the two families.
LEMMA AddressTyped ==
  /\ V4 \subseteq Seq(Nibbles) /\ V6 \subseteq Seq(Nibbles)
  /\ \A a \in V4 : Len(a) = 4 /\ Tail4(a) = a /\ Range(a) \subseteq Octets
  /\ \A a \in V6 : Len(a) >= 4 /\ Len(a) # 4
<1>1. ASSUME NEW a \in V4
      PROVE  /\ a \in Seq(Nibbles) /\ Len(a) = 4 /\ Tail4(a) = a
             /\ Range(a) \subseteq Octets
  <2>1. a \in Seq(Octets) /\ Len(a) = 4
      BY Zenon, NamesAssumption
  <2>3. a \in Seq(Nibbles)
      BY <2>1 DEF Nibbles
  <2>4. Range(a) \subseteq Octets
      BY <2>1 DEF Range
  <2>5. Len(a) >= 4
      BY <2>1
  <2>. QED BY Zenon, <2>1, <2>3, <2>4, <2>5, TailTyped
<1>2. ASSUME NEW a \in V6
      PROVE  a \in Seq(Nibbles) /\ Len(a) >= 4 /\ Len(a) # 4
  <2>1. a \in Seq(0..9 \cup Letters) /\ Len(a) > 4
      BY Zenon, NamesAssumption
  <2>2. 0..9 \cup Letters \subseteq Nibbles
      BY DEF Nibbles, Octets
  <2>3. a \in Seq(Nibbles)
    <3>1. ASSUME NEW S, NEW T, S \subseteq T, NEW s \in Seq(S)
          PROVE  s \in Seq(T)
      <4>1. /\ Len(s) \in Nat /\ s = [k \in 1..Len(s) |-> s[k]]
            /\ \A k \in 1..Len(s) : s[k] \in T
          BY <3>1
      <4>. QED BY <4>1
    <3>. QED BY Zenon, <2>1, <2>2, <3>1
  <2>4. Len(a) \in Nat /\ Len(a) > 4
      BY <2>1
  <2>5. \A n \in Nat : n > 4 => n >= 4 /\ n # 4
      OBVIOUS
  <2>. QED BY Zenon, <2>3, <2>4, <2>5
<1>. QED BY Zenon, <1>1, <1>2

\* A key has the parts of an address, or the last four of them.
LEMMA KeyTyped ==
  ASSUME NEW key \in Keys
  PROVE  /\ key \in Seq(Nibbles) /\ key # None
         /\ key \notin V6 => Len(key) = 4 /\ Tail4(key) = key
         /\ Tail4(key) \in Seq(Nibbles) /\ Len(Tail4(key)) = 4
         /\ Dotted(Tail4(key)) \in Texts
<1>1. CASE key \in V4
  <2>1. key \in Seq(Nibbles) /\ Len(key) = 4 /\ Tail4(key) = key
      BY Zenon, <1>1, AddressTyped
  <2>2. Dotted(key) \in Texts
      BY Zenon, <1>1 DEF Texts, Spellings, Addresses
  <2>. QED BY Zenon, <2>1, <2>2, NamesAssumption DEF Nibbles
<1>2. CASE key \in V6
  <2>1. key \in Seq(Nibbles) /\ Len(key) >= 4
      BY Zenon, <1>2, AddressTyped
  <2>2. Dotted(Tail4(key)) \in Texts
      BY Zenon, <1>2 DEF Texts, loadedText
  <2>. QED BY Zenon, <1>2, <2>1, <2>2, TailTyped, NamesAssumption DEF Nibbles
<1>3. ASSUME NEW a \in V6, key = Tail4(a)
      PROVE  /\ key \in Seq(Nibbles) /\ Len(key) = 4 /\ Tail4(key) = key
             /\ Dotted(Tail4(key)) \in Texts
  <2>1. a \in Seq(Nibbles) /\ Len(a) >= 4
      BY Zenon, AddressTyped
  <2>2. key \in Seq(Nibbles) /\ Len(key) = 4
      BY Zenon, <1>3, <2>1, TailTyped
  <2>3. Len(key) >= 4
      BY <2>2
  <2>4. Tail4(key) = key
      BY Zenon, <2>2, <2>3, TailTyped
  <2>5. Dotted(key) \in Texts
      BY Zenon, <1>3 DEF Texts, loadedText
  <2>. QED BY Zenon, <2>2, <2>4, <2>5
<1>. QED BY Zenon, <1>1, <1>2, <1>3, NamesAssumption DEF Keys, Addresses, Nibbles

\* The form and the parts of a text.
LEMMA FormsOf ==
  \A p : /\ Dotted(p).form = "dotted" /\ Dotted(p).parts = p
         /\ Mapped(p).form = "mapped" /\ Mapped(p).parts = p
         /\ Grouped(p).form = "grouped" /\ Grouped(p).parts = p
         /\ Short(p).form = "short" /\ Short(p).parts = p
  BY DEF Dotted, Mapped, Grouped, Short

\* A text in a request is one of the table's.
LEMMA SpellingTyped ==
  ASSUME NEW a \in Addresses, NEW t \in Spellings(a)
  PROVE  t \in Texts /\ t.parts = a
<1>1. t \in Texts
    BY Zenon DEF Texts
<1>2. t.parts = a
    BY Zenon, FormsOf DEF Spellings, String
<1>. QED BY Zenon, <1>1, <1>2

\* A text is that of an address, or one made from a key.
LEMMA TextTyped ==
  ASSUME NEW t \in Texts
  PROVE  /\ t.parts \in Keys
         /\ t.parts \in V4 => t = Dotted(t.parts) \/ t = Mapped(t.parts)
         /\ t # String(t.parts) => t.parts \in Addresses
         /\ t.form = "dotted" => t = Dotted(t.parts)
<1>1. ASSUME NEW a \in Addresses, t \in Spellings(a)
      PROVE  /\ t.parts \in Keys
             /\ t.parts \in V4 => t = Dotted(t.parts) \/ t = Mapped(t.parts)
             /\ t # String(t.parts) => t.parts \in Addresses
             /\ t.form = "dotted" => t = Dotted(t.parts)
  <2>1. t.parts = a
      BY Zenon, <1>1, SpellingTyped
  <2>2. t \in {Dotted(a), Mapped(a), Grouped(a), Short(a)}
      BY Zenon, <1>1 DEF Spellings, String
  <2>3. t.form = "dotted" => t = Dotted(a)
      BY <2>2, FormsOf
  <2>. QED BY Zenon, <1>1, <2>1, <2>3 DEF Spellings, Keys
<1>2. ASSUME NEW a \in V6, t = loadedText(a)
      PROVE  /\ t.parts = Tail4(a) /\ t = Dotted(Tail4(a))
             /\ t = String(t.parts)
  <2>1. a \in Seq(Nibbles) /\ Len(a) >= 4
      BY Zenon, AddressTyped
  <2>2. Len(Tail4(a)) = 4
      BY Zenon, <2>1, TailTyped
  <2>. QED BY Zenon, <1>2, <2>2, FormsOf DEF loadedText, String
<1>3. ASSUME NEW a \in V6, t = loadedText(a)
      PROVE  /\ t.parts \in Keys /\ t = Dotted(t.parts) /\ t = String(t.parts)
    BY Zenon, <1>2, <1>3 DEF Keys
<1>4. \/ \E a \in Addresses : t \in Spellings(a)
      \/ \E a \in V6 : t = loadedText(a)
    BY Zenon DEF Texts
<1>. QED BY Zenon, <1>1, <1>3, <1>4

\* What a text that is an address parses to.
LEMMA Parsed ==
  ASSUME NEW t \in Texts
  PROVE  /\ ParseIP(t) # None => ParseIP(t) = t.parts
         /\ \A a \in V4 : t.parts = a => ParseIP(t) = a
<1>1. \A a \in V4 : t.parts = a => ParseIP(t) = a
    BY Zenon, AddressTyped DEF ParseIP
<1>. QED BY Zenon, <1>1 DEF ParseIP

\* The text an event is applied under.
LEMMA EventText ==
  ASSUME NEW key \in Keys
  PROVE  /\ ipFromKey(key) \in {None, Dotted(Tail4(key))}
         /\ key \in V4 => ipFromKey(key) = Dotted(key) /\ Dotted(key) # None
<1>1. CASE key \in V4
  <2>1. Tail4(key) = key /\ key \in Seq(Nibbles) /\ Range(key) \subseteq Octets
      BY Zenon, <1>1, AddressTyped
  <2>2. ParseIP(Dotted(key)) = key /\ key # None
      BY Zenon, <2>1, FormsOf, KeyTyped DEF ParseIP
  <2>3. Dotted(key) \in [form : {"dotted"}, parts : Seq(Nibbles)]
      BY Zenon, <2>1 DEF Dotted
  <2>. QED BY Zenon, <2>1, <2>2, <2>3, NamesAssumption DEF ipFromKey, Nibbles
<1>. QED BY Zenon, <1>1 DEF ipFromKey
----------------------------------------------------------------------------
(* Types                                                                   *)

\* A request or an expiry that changes the block of the address in a text.
Changed(t, b) ==
  ParseIP(t) # None /\ Change(t, ParseIP(t), b)

\* The steps of the program.
LEMMA NamesCases ==
  ASSUME Next
  PROVE  \/ \E t \in Texts, b \in BOOLEAN :
              /\ Changed(t, b)
              /\ tails' = IF t.parts \in V6 THEN tails \cup {Tail4(t.parts)} ELSE tails
         \/ \E t \in Texts : Changed(t, None) /\ tails' = tails
         \/ \E t \in Texts : expirationWorker(t)
         \/ loadFromEtcd
<1>1. ASSUME NEW t \in Texts, NEW b \in BOOLEAN, handlePut(t, b)
      PROVE  /\ Changed(t, b)
             /\ tails' = IF t.parts \in V6 THEN tails \cup {Tail4(t.parts)} ELSE tails
    BY Zenon, <1>1, Parsed DEF handlePut, Changed
<1>2. ASSUME NEW t \in Texts, handleDelete(t) \/ deleteExpiredIP(t)
      PROVE  Changed(t, None) /\ tails' = tails
    BY Zenon, <1>2 DEF handleDelete, deleteExpiredIP, Changed
<1>3. \A a \in Addresses : \A t \in Spellings(a) : t \in Texts
    BY Zenon, SpellingTyped
<1>. QED BY Zenon, <1>1, <1>2, <1>3 DEF Next

\* What a change does to etcd and to the table.
LEMMA ChangeEffect ==
  ASSUME TypeOK, NEW t \in Texts, NEW b \in Blocks, Changed(t, b)
  PROVE  LET a == t.parts IN
         /\ a \in Keys /\ multi' = multi
         /\ store' = [store EXCEPT ![a] = b]
         /\ ptrs' = IF b = None THEN ptrs \ {a} ELSE ptrs \cup {a}
         /\ \/ ~multi /\ ipTable' = [ipTable EXCEPT ![t] = b]
            \/ multi /\ ipTable' = ipTable
               /\ (a \in V4 => multi /\ b = None /\ store[a] = None)
            \/ /\ multi /\ ipTable' = [ipTable EXCEPT ![Dotted(Tail4(a))] = b]
               /\ b # None \/ store[a] # None
         /\ odd \subseteq odd' /\ odd' \subseteq odd \cup {a}
         /\ a \in odd' => a \in odd \/ a \in Addresses
         /\ ~multi /\ t # String(a) => a \in odd'
         /\ unread' = unread \ {a}
<1>1. t.parts \in Keys /\ ParseIP(t) = t.parts
    BY Zenon, TextTyped, Parsed DEF Changed
<1>2. PICK a \in Keys : a = t.parts
    BY Zenon, <1>1
<1>3. Change(t, a, b)
    BY Zenon, <1>1, <1>2 DEF Changed
<1>4. ipFromKey(a) \in {None, Dotted(Tail4(a))}
      /\ (a \in V4 => ipFromKey(a) = Dotted(a) /\ Dotted(a) # None)
    BY Zenon, EventText
<1>5. applied(a, b) = IF ipFromKey(a) = None THEN ipTable
                      ELSE [ipTable EXCEPT ![ipFromKey(a)] = b]
    BY Zenon DEF applied
<1>6. multi \in BOOLEAN
    BY Zenon DEF TypeOK
<1>7. /\ multi' = multi /\ store' = [store EXCEPT ![a] = b]
      /\ ptrs' = IF b = None THEN ptrs \ {a} ELSE ptrs \cup {a}
      /\ ipTable' = IF ~multi THEN [ipTable EXCEPT ![t] = b]
                    ELSE IF b = None /\ store[a] = None THEN ipTable
                    ELSE applied(a, b)
      /\ odd' = IF ~multi /\ t # String(a) THEN odd \cup {a} ELSE odd
      /\ unread' = unread \ {a}
    BY Zenon, <1>3 DEF Change, rblKey
<1>8. \/ ~multi /\ ipTable' = [ipTable EXCEPT ![t] = b]
      \/ multi /\ ipTable' = ipTable
         /\ (a \in V4 => multi /\ b = None /\ store[a] = None)
      \/ /\ multi /\ ipTable' = [ipTable EXCEPT ![Dotted(Tail4(a))] = b]
         /\ b # None \/ store[a] # None
    BY Zenon, <1>4, <1>5, <1>6, <1>7
<1>9. /\ odd \subseteq odd' /\ odd' \subseteq odd \cup {a}
      /\ a \in odd' => a \in odd \/ a \in Addresses
      /\ ~multi /\ t # String(a) => a \in odd'
    BY Zenon, <1>2, <1>7, TextTyped
<1>. QED BY Zenon, <1>2, <1>7, <1>8, <1>9

\* The keys whose texts are t.
LiveFrom(t) == {key \in Keys : store[key] # None /\ Dotted(Tail4(key)) = t}

\* The table that is loaded.
LEMMA NamesLoad ==
  ASSUME loadKeys, NEW t \in Texts
  PROVE  /\ LiveFrom(t) = {} => ipTable'[t] = None
         /\ LiveFrom(t) # {} => \E key \in LiveFrom(t) : ipTable'[t] = store[key]
<1> DEFINE live == {key \in Keys : store[key] # None}
           From(s) == {key \in live : loadedText(key) = s}
<1>1. PICK won \in SUBSET live :
        /\ \A key \in live : \E k \in won : From(loadedText(key)) \cap won = {k}
        /\ ipTable' = [s \in Texts |->
              IF From(s) = {} THEN None
              ELSE store[CHOOSE key \in won : loadedText(key) = s]]
    BY Zenon DEF loadKeys
<1>2. From(t) = LiveFrom(t)
    BY Zenon DEF LiveFrom, loadedText
<1>3. ipTable'[t] = IF From(t) = {} THEN None
                    ELSE store[CHOOSE key \in won : loadedText(key) = t]
    BY Zenon, <1>1
<1>4. ASSUME From(t) # {}
      PROVE  \E key \in From(t) : ipTable'[t] = store[key]
  <2>1. PICK key \in live : loadedText(key) = t
      BY Zenon, <1>4
  <2>2. PICK k \in won : From(t) \cap won = {k}
      BY Zenon, <1>1, <2>1
  <2>3. k \in won /\ loadedText(k) = t
      BY Zenon, <2>2
  <2>4. PICK m : m = CHOOSE j \in won : loadedText(j) = t
      BY Zenon
  <2>5. m \in won /\ loadedText(m) = t
      BY Zenon, <2>3, <2>4
  <2>6. ipTable'[t] = store[m]
      BY Zenon, <1>3, <1>4, <2>4
  <2>. QED BY Zenon, <2>5, <2>6
<1>. QED BY Zenon, <1>2, <1>3, <1>4

\* It has the same texts as before.
LEMMA LoadShape ==
  ASSUME loadFromEtcd
  PROVE  /\ ipTable' = [s \in Texts |-> ipTable'[s]]
         /\ odd' = {} /\ UNCHANGED <<multi, store, ptrs, tails>>
         /\ \/ loadKeys /\ unread' = {}
            \/ /\ \A t \in Texts : ipTable'[t] = None
               /\ unread' = {a \in V4 : store[a] # None}
<1> DEFINE live == {key \in Keys : store[key] # None}
           From(s) == {key \in live : loadedText(key) = s}
<1>1. odd' = {} /\ UNCHANGED <<multi, store, ptrs, tails>>
    BY Zenon DEF loadFromEtcd
<1>2. CASE loadKeys
  <2>1. PICK won \in SUBSET live :
          ipTable' = [s \in Texts |->
                IF From(s) = {} THEN None
                ELSE store[CHOOSE key \in won : loadedText(key) = s]]
      BY Zenon, <1>2 DEF loadKeys
  <2>2. ipTable' = [s \in Texts |-> ipTable'[s]]
      BY <2>1
  <2>3. unread' = {}
      BY Zenon, <1>2 DEF loadKeys
  <2>. QED BY Zenon, <1>1, <1>2, <2>2, <2>3
<1>3. CASE loadNothing
  <2>1. ipTable' = [s \in Texts |-> None] /\ unread' = {a \in V4 : store[a] # None}
      BY Zenon, <1>3 DEF loadNothing, rblKey
  <2>. QED BY Zenon, <1>1, <2>1
<1>. QED BY Zenon, <1>2, <1>3 DEF loadFromEtcd
\* Types hold initially.
LEMMA NamesTypesInit == Init => TypeOK
<1>. SUFFICES ASSUME Init PROVE TypeOK
    BY Zenon
<1>1. store \in [Keys -> Blocks] /\ ipTable \in [Texts -> Blocks]
    BY Zenon DEF Init, Blocks
<1>2. \A t \in Texts : ipTable[t] = None
    BY Zenon DEF Init
<1>. QED BY Zenon, <1>1, <1>2 DEF Init, TypeOK

\* Kept by a change.
LEMMA NamesTypesChange ==
  ASSUME TypeOK, NEW t \in Texts, NEW b \in Blocks, Changed(t, b),
         tails' \subseteq tails \cup {Tail4(a) : a \in V6}
  PROVE  TypeOK'
<1>1. PICK a \in Keys : a = t.parts
    BY Zenon, ChangeEffect
<1>2. /\ multi' = multi /\ store' = [store EXCEPT ![a] = b]
      /\ ptrs' = IF b = None THEN ptrs \ {a} ELSE ptrs \cup {a}
      /\ odd \subseteq odd' /\ odd' \subseteq odd \cup {a}
      /\ a \in odd' => a \in odd \/ a \in Addresses
      /\ unread' = unread \ {a}
    BY Zenon, <1>1, ChangeEffect
<1>3. \/ ~multi /\ ipTable' = [ipTable EXCEPT ![t] = b]
      \/ ipTable' = ipTable
      \/ multi /\ ipTable' = [ipTable EXCEPT ![Dotted(Tail4(a))] = b]
    BY Zenon, <1>1, ChangeEffect
<1>4. /\ multi \in BOOLEAN /\ store \in [Keys -> Blocks] /\ ptrs \subseteq Keys
      /\ ipTable \in [Texts -> Blocks] /\ odd \subseteq Addresses
      /\ \A s \in Texts : multi /\ ipTable[s] # None => s.form = "dotted"
      /\ tails \subseteq {Tail4(k) : k \in V6} /\ unread \subseteq V4
    BY Zenon DEF TypeOK
<1>5. store' \in [Keys -> Blocks] /\ ipTable' \in [Texts -> Blocks]
    BY Zenon, <1>2, <1>3, <1>4, KeyTyped
<1>6. ASSUME NEW s \in Texts, multi', ipTable'[s] # None
      PROVE  s.form = "dotted"
  <2>1. \/ ipTable' = ipTable
        \/ ipTable' = [ipTable EXCEPT ![Dotted(Tail4(a))] = b]
      BY Zenon, <1>2, <1>3, <1>6
  <2>2. CASE s = Dotted(Tail4(a))
      BY Zenon, <2>2, FormsOf
  <2>3. CASE s # Dotted(Tail4(a))
      BY Zenon, <1>2, <1>4, <1>6, <2>1, <2>3
  <2>. QED BY Zenon, <2>2, <2>3
<1>7. ptrs' \subseteq Keys /\ odd' \subseteq Addresses
      /\ tails' \subseteq {Tail4(k) : k \in V6} /\ unread' \subseteq V4
    BY Zenon, <1>2, <1>4
<1>. QED BY Zenon, <1>2, <1>4, <1>5, <1>6, <1>7 DEF TypeOK

\* What the worker does.
LEMMA WorkerEffect ==
  ASSUME TypeOK, NEW t \in Texts, expirationWorker(t)
  PROVE  /\ t.parts \in Keys /\ ipTable[t] = TRUE
         /\ store' = [store EXCEPT ![t.parts] = None]
         /\ ptrs' = ptrs \ {t.parts} /\ ipTable' = [ipTable EXCEPT ![t] = None]
         /\ unread' = unread \ {t.parts}
         /\ UNCHANGED <<multi, odd, tails>>
<1>1. t.parts \in Keys /\ ParseIP(t) = t.parts
    BY Zenon, TextTyped, Parsed DEF expirationWorker
<1>. QED BY Zenon, <1>1 DEF expirationWorker, rblKey

\* Types are kept.
LEMMA NamesTypesNext ==
  ASSUME TypeOK, [Next]_namesVars
  PROVE  TypeOK'
<1>1. /\ multi \in BOOLEAN /\ store \in [Keys -> Blocks] /\ ptrs \subseteq Keys
      /\ ipTable \in [Texts -> Blocks] /\ odd \subseteq Addresses
      /\ \A s \in Texts : multi /\ ipTable[s] # None => s.form = "dotted"
      /\ tails \subseteq {Tail4(k) : k \in V6} /\ unread \subseteq V4
      /\ None \in Blocks /\ BOOLEAN \subseteq Blocks
    BY Zenon DEF TypeOK, Blocks
<1>2. ASSUME NEW t \in Texts, NEW b \in BOOLEAN, Changed(t, b),
             tails' = IF t.parts \in V6 THEN tails \cup {Tail4(t.parts)} ELSE tails
      PROVE  TypeOK'
  <2>1. tails' \subseteq tails \cup {Tail4(a) : a \in V6}
      BY Zenon, <1>2
  <2>. QED BY Zenon, <1>1, <1>2, <2>1, NamesTypesChange
<1>3. ASSUME NEW t \in Texts, Changed(t, None), tails' = tails
      PROVE  TypeOK'
    BY Zenon, <1>1, <1>3, NamesTypesChange
<1>4. ASSUME NEW t \in Texts, expirationWorker(t)
      PROVE  TypeOK'
  <2>1. /\ t.parts \in Keys /\ store' = [store EXCEPT ![t.parts] = None]
        /\ ptrs' = ptrs \ {t.parts} /\ ipTable' = [ipTable EXCEPT ![t] = None]
        /\ multi' = multi /\ odd' = odd /\ tails' = tails
        /\ unread' = unread \ {t.parts}
      BY Zenon, <1>4, WorkerEffect
  <2>2. store' \in [Keys -> Blocks] /\ ipTable' \in [Texts -> Blocks]
      BY Zenon, <1>1, <2>1
  <2>3. \A s \in Texts : multi' /\ ipTable'[s] # None => s.form = "dotted"
      BY Zenon, <1>1, <2>1
  <2>. QED BY Zenon, <1>1, <2>1, <2>2, <2>3 DEF TypeOK
<1>5. ASSUME loadFromEtcd
      PROVE  TypeOK'
  <2>1. ASSUME NEW t \in Texts
        PROVE  ipTable'[t] \in Blocks /\ (ipTable'[t] # None => t.form = "dotted")
    <3>1. \A key \in LiveFrom(t) : key \in Keys /\ t.form = "dotted"
        BY Zenon, FormsOf DEF LiveFrom
    <3>. QED BY Zenon, <1>1, <1>5, <3>1, NamesLoad, LoadShape
  <2>2. /\ odd' = {} /\ UNCHANGED <<multi, store, ptrs, tails>>
        /\ ipTable' = [s \in Texts |-> ipTable'[s]]
        /\ unread' \subseteq V4
      BY Zenon, <1>5, LoadShape
  <2>3. ipTable' \in [Texts -> Blocks]
      BY Zenon, <2>1, <2>2
  <2>. QED BY Zenon, <1>1, <2>1, <2>2, <2>3 DEF TypeOK
<1>6. CASE UNCHANGED namesVars
    BY Zenon, <1>1, <1>6 DEF namesVars, TypeOK
<1>. QED BY Zenon, <1>2, <1>3, <1>4, <1>5, <1>6, NamesCases

\* The variables keep their types, and in multi-instance mode every text in the
\* table was made from a key.
THEOREM NamesTypeCorrect == Spec => []TypeOK
<1>1. TypeOK /\ [Next]_namesVars => TypeOK'
    BY Zenon, NamesTypesNext
<1>. QED BY <1>1, NamesTypesInit, PTL DEF Spec

----------------------------------------------------------------------------
(* One block per IPv4 address                                              *)

\* There is a PTR record for exactly what is blocked.
Paired == \A key \in Keys : key \in ptrs <=> store[key] # None

\* An IPv6 address that is blocked has its last four parts on record.
Shadowed == \A key \in V6 : store[key] # None => Tail4(key) \in tails

\* The table has the IPv4-mapped text only of addresses named by it.
OddOnly == \A a \in V4 : ipTable[Mapped(a)] # None => a \in odd

\* The table has what etcd has, or nothing where a load failed.
Exact ==
  \A a \in V4 : a \notin odd /\ a \notin tails =>
    /\ a \notin unread => ipTable[Dotted(a)] = store[a]
    /\ a \in unread => ipTable[Dotted(a)] = None

Agreeing == TypeOK /\ Paired /\ Shadowed /\ OddOnly /\ Exact
\* The invariant holds initially.
LEMMA AgreeingInit == Init => Agreeing
<1>. SUFFICES ASSUME Init PROVE Agreeing
    BY Zenon
<1>1. TypeOK
    BY Zenon, NamesTypesInit
<1>2. \A key \in Keys : store[key] = None /\ key \notin ptrs
    BY Zenon DEF Init
<1>3. ASSUME NEW a \in V4
      PROVE  ipTable[Dotted(a)] = None /\ ipTable[Mapped(a)] = None
  <2>1. Dotted(a) \in Texts /\ Mapped(a) \in Texts
      BY Zenon DEF Texts, Spellings, Addresses
  <2>. QED BY Zenon, <2>1 DEF Init
<1>4. V4 \subseteq Keys /\ V6 \subseteq Keys
    BY Zenon DEF Keys, Addresses
<1>. QED BY Zenon, <1>1, <1>2, <1>3, <1>4
       DEF Agreeing, Paired, Shadowed, OddOnly, Exact

\* An IPv4 address and its texts.
LEMMA V4Texts ==
  ASSUME NEW a \in V4
  PROVE  /\ a \in Keys /\ a \notin V6 /\ String(a) = Dotted(a)
         /\ Dotted(a) \in Texts /\ Mapped(a) \in Texts /\ Mapped(a) # Dotted(a)
         /\ Dotted(a).parts = a /\ Mapped(a).parts = a
<1>1. a \in Keys /\ Dotted(a) \in Texts /\ Mapped(a) \in Texts
    BY Zenon DEF Keys, Texts, Spellings, Addresses
<1>2. a \notin V6 /\ String(a) = Dotted(a)
    BY Zenon, AddressTyped DEF String
<1>3. Mapped(a) # Dotted(a)
    BY FormsOf
<1>. QED BY Zenon, <1>1, <1>2, <1>3, FormsOf

\* A change of one key.
LEMMA PairedChange ==
  ASSUME TypeOK, Paired, NEW a \in Keys, NEW b \in Blocks,
         store' = [store EXCEPT ![a] = b],
         ptrs' = IF b = None THEN ptrs \ {a} ELSE ptrs \cup {a}
  PROVE  /\ Paired' /\ store'[a] = b
         /\ \A key \in Keys : key # a => store'[key] = store[key]
<1>1. store \in [Keys -> Blocks]
    BY Zenon DEF TypeOK
<1>2. store'[a] = b /\ \A key \in Keys : key # a => store'[key] = store[key]
    BY Zenon, <1>1
<1>. QED BY Zenon, <1>2 DEF Paired

\* Kept by a change: an event for an IPv6 address can only write over an
\* address that is excepted.
LEMMA AgreeingChange ==
  ASSUME Agreeing, NEW t \in Texts, NEW b \in Blocks, Changed(t, b),
         tails \subseteq tails', b # None /\ t.parts \in V6 => Tail4(t.parts) \in tails'
  PROVE  Paired' /\ Shadowed' /\ OddOnly' /\ Exact'
<1>1. TypeOK /\ Paired /\ Shadowed /\ OddOnly /\ Exact
    BY Zenon DEF Agreeing
<1>2. PICK k \in Keys : k = t.parts
    BY Zenon, <1>1, ChangeEffect
<1>3. /\ multi' = multi /\ store' = [store EXCEPT ![k] = b]
      /\ ptrs' = IF b = None THEN ptrs \ {k} ELSE ptrs \cup {k}
      /\ odd \subseteq odd' /\ unread' = unread \ {k}
      /\ ~multi /\ t # String(k) => k \in odd'
    BY Zenon, <1>1, <1>2, ChangeEffect
<1>4. \/ ~multi /\ ipTable' = [ipTable EXCEPT ![t] = b]
      \/ ipTable' = ipTable
         /\ (k \in V4 => multi /\ b = None /\ store[k] = None)
      \/ /\ multi /\ ipTable' = [ipTable EXCEPT ![Dotted(Tail4(k))] = b]
         /\ b # None \/ store[k] # None
    BY Zenon, <1>1, <1>2, ChangeEffect
<1>5. /\ Paired' /\ store'[k] = b
      /\ \A key \in Keys : key # k => store'[key] = store[key]
    BY Zenon, <1>1, <1>3, PairedChange
<1>6. ipTable \in [Texts -> Blocks] /\ multi \in BOOLEAN
    BY Zenon, <1>1 DEF TypeOK
<1>7. Shadowed'
  <2>. SUFFICES ASSUME NEW key \in V6, store'[key] # None
                PROVE  Tail4(key) \in tails'
      BY Zenon DEF Shadowed
  <2>1. key \in Keys
      BY Zenon DEF Keys, Addresses
  <2>. QED BY Zenon, <1>1, <1>2, <1>5, <2>1 DEF Shadowed
<1>8. OddOnly'
  <2>. SUFFICES ASSUME NEW a \in V4, ipTable'[Mapped(a)] # None
                PROVE  a \in odd'
      BY Zenon DEF OddOnly
  <2>1. /\ Mapped(a) \in Texts /\ Mapped(a) # Dotted(Tail4(k))
        /\ Mapped(a).parts = a /\ String(a) = Dotted(a) /\ Mapped(a) # Dotted(a)
    <3>1. Mapped(a) # Dotted(Tail4(k))
        BY FormsOf
    <3>. QED BY Zenon, <3>1, V4Texts
  <2>2. CASE t = Mapped(a) /\ ~multi
      BY Zenon, <1>2, <1>3, <2>1, <2>2
  <2>3. CASE t # Mapped(a) \/ multi
    <3>1. ipTable'[Mapped(a)] = ipTable[Mapped(a)]
      <4>1. CASE ~multi /\ ipTable' = [ipTable EXCEPT ![t] = b]
          BY Zenon, <1>6, <2>1, <2>3, <4>1
      <4>2. CASE multi /\ ipTable' = [ipTable EXCEPT ![Dotted(Tail4(k))] = b]
          BY Zenon, <1>6, <2>1, <4>2
      <4>. QED BY Zenon, <1>4, <4>1, <4>2
    <3>. QED BY Zenon, <1>1, <1>3, <3>1 DEF OddOnly
  <2>. QED BY Zenon, <2>2, <2>3
<1>9. Exact'
  <2>. SUFFICES ASSUME NEW a \in V4, a \notin odd', a \notin tails'
                PROVE  /\ a \notin unread' => ipTable'[Dotted(a)] = store'[a]
                       /\ a \in unread' => ipTable'[Dotted(a)] = None
      BY Zenon DEF Exact
  <2>1. /\ a \notin unread => ipTable[Dotted(a)] = store[a]
        /\ a \in unread => ipTable[Dotted(a)] = None
      BY Zenon, <1>1, <1>3 DEF Exact
  <2>2. a \in Keys /\ Dotted(a) \in Texts /\ String(a) = Dotted(a)
        /\ Dotted(a).parts = a /\ Tail4(a) = a
      BY Zenon, V4Texts, AddressTyped
  <2>3. CASE k = a
    <3>. SUFFICES ipTable'[Dotted(a)] = store'[a]
        BY Zenon, <1>3, <2>3
    <3>1. CASE ~multi /\ ipTable' = [ipTable EXCEPT ![t] = b]
      <4>1. t = Dotted(a)
          BY Zenon, <1>3, <2>2, <2>3, <3>1
      <4>. QED BY Zenon, <1>5, <1>6, <2>2, <2>3, <3>1, <4>1
    <3>2. CASE ipTable' = ipTable /\ b = None /\ store[k] = None
        BY Zenon, <1>5, <2>1, <2>3, <3>2
    <3>3. CASE multi /\ ipTable' = [ipTable EXCEPT ![Dotted(Tail4(k))] = b]
        BY Zenon, <1>5, <1>6, <2>2, <2>3, <3>3
    <3>. QED BY Zenon, <1>4, <2>3, <3>1, <3>2, <3>3
  <2>4. CASE k # a
    <3>1. store'[a] = store[a] /\ t # Dotted(a)
        BY Zenon, <1>2, <1>5, <2>2, <2>4
    <3>. SUFFICES ipTable'[Dotted(a)] = ipTable[Dotted(a)]
        BY Zenon, <1>3, <2>1, <2>4, <3>1
    <3>2. CASE ~multi /\ ipTable' = [ipTable EXCEPT ![t] = b]
        BY Zenon, <1>6, <2>2, <3>1, <3>2
    <3>4. CASE /\ multi /\ ipTable' = [ipTable EXCEPT ![Dotted(Tail4(k))] = b]
               /\ b # None \/ store[k] # None
      <4>1. Tail4(k) # a
        <5>1. CASE k \in V6
            BY Zenon, <1>1, <1>2, <3>4, <5>1 DEF Shadowed
        <5>2. CASE k \notin V6
            BY Zenon, <2>4, <5>2, KeyTyped
        <5>. QED BY Zenon, <5>1, <5>2
      <4>2. Dotted(Tail4(k)) # Dotted(a)
        <5>1. Dotted(Tail4(k)).parts = Tail4(k) /\ Dotted(a).parts = a
            BY Zenon, FormsOf
        <5>. QED BY Zenon, <4>1, <5>1
      <4>. QED BY Zenon, <1>6, <2>2, <3>4, <4>2
    <3>. QED BY Zenon, <1>4, <3>2, <3>4
  <2>. QED BY Zenon, <2>3, <2>4
<1>. QED BY Zenon, <1>5, <1>7, <1>8, <1>9
\* Kept by the worker.
LEMMA AgreeingWorker ==
  ASSUME Agreeing, NEW t \in Texts, expirationWorker(t)
  PROVE  Paired' /\ Shadowed' /\ OddOnly' /\ Exact'
<1>1. TypeOK /\ Paired /\ Shadowed /\ OddOnly /\ Exact
    BY Zenon DEF Agreeing
<1>2. /\ t.parts \in Keys /\ ipTable[t] = TRUE
      /\ store' = [store EXCEPT ![t.parts] = None]
      /\ ptrs' = ptrs \ {t.parts} /\ ipTable' = [ipTable EXCEPT ![t] = None]
      /\ unread' = unread \ {t.parts}
      /\ UNCHANGED <<multi, odd, tails>>
    BY Zenon, <1>1, WorkerEffect
<1>3. /\ Paired' /\ store'[t.parts] = None
      /\ \A key \in Keys : key # t.parts => store'[key] = store[key]
    BY Zenon, <1>1, <1>2, PairedChange DEF Blocks
<1>4. /\ ipTable'[t] = None
      /\ \A s \in Texts : s # t => ipTable'[s] = ipTable[s]
    BY Zenon, <1>1, <1>2 DEF TypeOK
<1>5. Shadowed'
  <2>1. V6 \subseteq Keys
      BY Zenon DEF Keys, Addresses
  <2>. QED BY Zenon, <1>1, <1>2, <1>3, <2>1 DEF Shadowed
<1>6. OddOnly'
    BY Zenon, <1>1, <1>2, <1>4, V4Texts DEF OddOnly
<1>7. Exact'
  <2>. SUFFICES ASSUME NEW a \in V4, a \notin odd, a \notin tails
                PROVE  /\ a \notin unread' => ipTable'[Dotted(a)] = store'[a]
                       /\ a \in unread' => ipTable'[Dotted(a)] = None
      BY Zenon, <1>2 DEF Exact
  <2>1. /\ a \notin unread => ipTable[Dotted(a)] = store[a]
        /\ a \in unread => ipTable[Dotted(a)] = None
        /\ a \in Keys /\ Dotted(a) \in Texts /\ Dotted(a).parts = a
      BY Zenon, <1>1, V4Texts DEF Exact
  <2>2. CASE t.parts = a
    <3>1. t # Mapped(a)
        BY Zenon, <1>1, <1>2, NamesAssumption DEF OddOnly
    <3>2. t = Dotted(a)
        BY Zenon, <2>2, <3>1, TextTyped
    <3>. QED BY Zenon, <1>3, <1>4, <2>2, <3>2
  <2>3. CASE t.parts # a
    <3>1. t # Dotted(a)
        BY Zenon, <2>1, <2>3
    <3>2. ipTable'[Dotted(a)] = ipTable[Dotted(a)] /\ store'[a] = store[a]
        BY Zenon, <1>3, <1>4, <2>1, <2>3, <3>1
    <3>3. a \in unread' <=> a \in unread
        BY Zenon, <1>2, <2>3
    <3>. QED BY Zenon, <2>1, <3>2, <3>3
  <2>. QED BY Zenon, <2>2, <2>3
<1>. QED BY Zenon, <1>3, <1>5, <1>6, <1>7

\* Kept by a restart: only keys that give the text of an address are loaded
\* under it.
LEMMA AgreeingLoad ==
  ASSUME Agreeing, loadFromEtcd
  PROVE  Paired' /\ Shadowed' /\ OddOnly' /\ Exact'
<1>1. TypeOK /\ Paired /\ Shadowed /\ OddOnly /\ Exact
    BY Zenon DEF Agreeing
<1>2. odd' = {} /\ store' = store /\ ptrs' = ptrs /\ tails' = tails
    BY Zenon, LoadShape
<1>3. Paired' /\ Shadowed'
    BY Zenon, <1>1, <1>2 DEF Paired, Shadowed
<1>4. ASSUME NEW a \in V4
      PROVE  ipTable'[Mapped(a)] = None
  <2>1. \A p : Dotted(p) # Mapped(a)
      BY FormsOf
  <2>2. LiveFrom(Mapped(a)) = {}
      BY Zenon, <2>1 DEF LiveFrom
  <2>. QED BY Zenon, <2>2, V4Texts, NamesLoad, LoadShape
<1>5. ASSUME loadKeys, NEW a \in V4, a \notin tails
      PROVE  ipTable'[Dotted(a)] = store[a]
  <2>1. a \in Keys /\ Dotted(a) \in Texts /\ Dotted(a).parts = a /\ Tail4(a) = a
      BY Zenon, V4Texts, AddressTyped
  <2>2. ASSUME NEW key \in LiveFrom(Dotted(a))
        PROVE  key = a
    <3>1. key \in Keys /\ store[key] # None /\ Dotted(Tail4(key)) = Dotted(a)
        BY Zenon DEF LiveFrom
    <3>2. Tail4(key) = a
      <4>1. Dotted(Tail4(key)).parts = Tail4(key)
          BY Zenon, FormsOf
      <4>. QED BY Zenon, <2>1, <3>1, <4>1
    <3>3. key \notin V6
        BY Zenon, <1>1, <1>5, <3>1, <3>2 DEF Shadowed
    <3>. QED BY Zenon, <3>1, <3>2, <3>3, KeyTyped
  <2>3. CASE store[a] = None
    <3>1. LiveFrom(Dotted(a)) = {}
        BY Zenon, <2>2, <2>3 DEF LiveFrom
    <3>. QED BY Zenon, <1>5, <2>1, <2>3, <3>1, NamesLoad
  <2>4. CASE store[a] # None
    <3>1. a \in LiveFrom(Dotted(a))
        BY Zenon, <2>1, <2>4 DEF LiveFrom
    <3>2. PICK key \in LiveFrom(Dotted(a)) : ipTable'[Dotted(a)] = store[key]
        BY Zenon, <1>5, <2>1, <3>1, NamesLoad
    <3>. QED BY Zenon, <2>2, <3>2
  <2>. QED BY Zenon, <2>3, <2>4
<1>6. OddOnly'
    BY Zenon, <1>2, <1>4 DEF OddOnly
<1>7. Exact'
  <2>1. CASE loadKeys /\ unread' = {}
      BY Zenon, <1>2, <1>5, <2>1 DEF Exact
  <2>2. CASE /\ \A t \in Texts : ipTable'[t] = None
             /\ unread' = {a \in V4 : store[a] # None}
      BY Zenon, <1>2, <2>2, V4Texts DEF Exact
  <2>. QED BY Zenon, <2>1, <2>2, LoadShape
<1>. QED BY Zenon, <1>3, <1>6, <1>7

\* Agreeing is an inductive invariant.
LEMMA AgreeingNext ==
  ASSUME Agreeing, [Next]_namesVars
  PROVE  Agreeing'
<1>1. TypeOK'
    BY Zenon, NamesTypesNext DEF Agreeing
<1>2. ASSUME NEW t \in Texts, NEW b \in BOOLEAN, Changed(t, b),
             tails' = IF t.parts \in V6 THEN tails \cup {Tail4(t.parts)} ELSE tails
      PROVE  Paired' /\ Shadowed' /\ OddOnly' /\ Exact'
  <2>1. /\ b \in Blocks /\ tails \subseteq tails'
        /\ b # None /\ t.parts \in V6 => Tail4(t.parts) \in tails'
      BY Zenon, <1>2 DEF Blocks
  <2>. QED BY Zenon, <1>2, <2>1, AgreeingChange
<1>3. ASSUME NEW t \in Texts, Changed(t, None), tails' = tails
      PROVE  Paired' /\ Shadowed' /\ OddOnly' /\ Exact'
  <2>1. None \in Blocks
      BY Zenon DEF Blocks
  <2>. QED BY Zenon, <1>3, <2>1, AgreeingChange
<1>4. CASE UNCHANGED namesVars
    BY Zenon, <1>1, <1>4
       DEF namesVars, Agreeing, Paired, Shadowed, OddOnly, Exact
<1>. QED BY Zenon, <1>1, <1>2, <1>3, <1>4, AgreeingWorker, AgreeingLoad, NamesCases
       DEF Agreeing

\* A sequence of four octets, reversed.
LEMMA Reversed ==
  ASSUME NEW s \in Seq(Octets), Len(s) = 4
  PROVE  /\ reversed(s) \in Seq(Octets) /\ Len(reversed(s)) = 4
         /\ \A k \in 1..4 : reversed(s)[k] = s[5 - k]
<1>1. reversed(s) = [k \in 1..4 |-> s[(4 - k) + 1]]
    BY Zenon DEF reversed
<1>2. \A k \in 1..4 : s[(4 - k) + 1] \in Octets /\ (4 - k) + 1 = 5 - k
    BY SMTT(30)
<1>3. PICK r : r = [k \in 1..4 |-> s[(4 - k) + 1]]
    BY Zenon
<1>4. r \in Seq(Octets) /\ Len(r) = 4 /\ \A k \in 1..4 : r[k] = s[5 - k]
    BY <1>2, <1>3
<1>. QED BY Zenon, <1>1, <1>3, <1>4

\* The labels of a query, reversed again.
LEMMA LabelsOf ==
  ASSUME NEW a \in V4
  PROVE  rblQueryToIP(reversed(a)) = Dotted(a) /\ ptrQueryToIP(reversed(a)) = Dotted(a)
<1>1. a \in Seq(Octets) /\ Len(a) = 4
    BY Zenon, NamesAssumption
<1>2. PICK r : r = reversed(a)
    OBVIOUS
<1>3. r \in Seq(Octets) /\ Len(r) = 4 /\ \A k \in 1..4 : r[k] = a[5 - k]
    BY Zenon, <1>1, <1>2, Reversed
<1>4. PICK q : q = reversed(r)
    OBVIOUS
<1>5. q \in Seq(Octets) /\ Len(q) = 4 /\ \A k \in 1..4 : q[k] = r[5 - k]
    BY Zenon, <1>3, <1>4, Reversed
<1>6. \A k \in 1..4 : q[k] = a[k]
  <2>1. \A k \in 1..4 : 5 - k \in 1..4 /\ 5 - (5 - k) = k
      OBVIOUS
  <2>. QED BY <1>3, <1>5, <2>1
<1>7. q = a
    BY <1>1, <1>5, <1>6
<1>. QED BY Zenon, <1>2, <1>3, <1>4, <1>7 DEF rblQueryToIP, ptrQueryToIP

\* Whatever set of addresses is named by whichever texts, in either mode: an
\* IPv4 address is found in the table, by an RBL query and by a reverse query
\* exactly if etcd has a block for it, and then it has a PTR record.  Excepted
\* are addresses named by their IPv4-mapped text since the last restart, and
\* those that spell the last four nibbles of a blocked IPv6 address; and what
\* was blocked when a load failed is found in no way until it changes.
THEOREM V4ExactCorrect == Spec => []V4Exact
<1>1. Agreeing /\ [Next]_namesVars => Agreeing'
    BY Zenon, AgreeingNext
<1>2. Agreeing => V4Exact
  <2>. SUFFICES ASSUME Agreeing, NEW a \in V4 \ (odd \cup tails)
                PROVE  /\ \A t \in {Dotted(a), rblQueryToIP(reversed(a)),
                                      ptrQueryToIP(reversed(a))} :
                            Entry(t) = IF a \in unread THEN None ELSE store[rblKey(a)]
                       /\ a \in ptrs <=> store[rblKey(a)] # None
      BY Zenon DEF V4Exact
  <2>1. a \in V4 /\ a \notin odd /\ a \notin tails
      BY Zenon
  <2>2. a \in Keys /\ Dotted(a) \in Texts
      BY Zenon, <2>1, V4Texts
  <2>3. /\ ipTable[Dotted(a)] = IF a \in unread THEN None ELSE store[a]
        /\ a \in ptrs <=> store[a] # None
      BY Zenon, <2>1, <2>2 DEF Agreeing, Exact, Paired
  <2>. QED BY Zenon, <2>1, <2>2, <2>3, LabelsOf DEF Entry, rblKey
<1>. QED BY <1>1, <1>2, AgreeingInit, PTL DEF Spec

----------------------------------------------------------------------------
(* What is found for an IPv6 address                                       *)

\* The text of an IPv6 address is not dotted.
LEMMA V6NotDotted ==
  ASSUME NEW t \in Texts, t.parts \in V6
  PROVE  t.form # "dotted"
<1>. SUFFICES ASSUME t.form = "dotted"
              PROVE  FALSE
    OBVIOUS
<1>1. Len(t.parts) # 4
    BY Zenon, AddressTyped
<1>2. CASE \E a \in V6 : t = loadedText(a)
  <2>1. PICK a \in V6 : t = Dotted(Tail4(a))
      BY Zenon, <1>2 DEF loadedText
  <2>2. a \in Seq(Nibbles) /\ Len(a) >= 4
      BY Zenon, AddressTyped
  <2>3. Len(Tail4(a)) = 4
      BY Zenon, <2>2, TailTyped
  <2>. QED BY Zenon, <1>1, <2>1, <2>3, FormsOf
<1>3. CASE \E a \in Addresses : t \in Spellings(a)
  <2>1. PICK a \in Addresses : t \in Spellings(a)
      BY Zenon, <1>3
  <2>2. t.parts = a
      BY Zenon, <2>1, SpellingTyped
  <2>3. a \notin V4
      BY Zenon, <1>1, <2>2, AddressTyped
  <2>4. t \in {Short(a), Grouped(a)}
      BY Zenon, <1>1, <2>1, <2>2, <2>3 DEF Spellings, String
  <2>5. Short(a).form # "dotted" /\ Grouped(a).form # "dotted"
      BY FormsOf
  <2>. QED BY Zenon, <2>4, <2>5
<1>. QED BY Zenon, <1>2, <1>3 DEF Texts

\* An entry of an IPv6 address that was always named by its usual text is
\* under that text, and is the block etcd has.
Usual ==
  \A t \in Texts : t.parts \in V6 /\ t.parts \notin odd /\ ipTable[t] # None =>
    t = String(t.parts) /\ ipTable[t] = store[t.parts]

\* Kept by a change: the text of a request is the usual one, or the address
\* is excepted.
LEMMA UsualChange ==
  ASSUME TypeOK, TypeOK', Usual, NEW t \in Texts, NEW b \in Blocks, Changed(t, b)
  PROVE  Usual'
<1>1. PICK k \in Keys : k = t.parts
    BY Zenon, ChangeEffect
<1>2. /\ multi' = multi /\ store' = [store EXCEPT ![k] = b]
      /\ odd \subseteq odd' /\ (~multi /\ t # String(k) => k \in odd')
      /\ multi \/ ipTable' = [ipTable EXCEPT ![t] = b]
    BY Zenon, <1>1, ChangeEffect
<1>3. store \in [Keys -> Blocks] /\ ipTable \in [Texts -> Blocks]
    BY Zenon DEF TypeOK
<1>. SUFFICES ASSUME NEW s \in Texts, s.parts \in V6, s.parts \notin odd', ipTable'[s] # None
              PROVE  s = String(s.parts) /\ ipTable'[s] = store'[s.parts]
    BY Zenon DEF Usual
<1>4. ~multi
    BY Zenon, <1>2, V6NotDotted DEF TypeOK
<1>5. s.parts \in Keys
    BY Zenon, TextTyped
<1>6. CASE s = t
    BY Zenon, <1>1, <1>2, <1>3, <1>4, <1>6
<1>7. CASE s # t
  <2>1. ipTable'[s] = ipTable[s]
      BY Zenon, <1>2, <1>3, <1>4, <1>7
  <2>2. s = String(s.parts) /\ ipTable[s] = store[s.parts]
      BY Zenon, <1>2, <2>1 DEF Usual
  <2>3. s.parts # k
      BY Zenon, <1>2, <1>4, <1>7, <2>2
  <2>4. store'[s.parts] = store[s.parts]
      BY Zenon, <1>2, <1>3, <1>5, <2>3
  <2>. QED BY Zenon, <2>1, <2>2, <2>4
<1>. QED BY Zenon, <1>6, <1>7

\* Kept by the worker, which finds the block under the usual text only.
LEMMA UsualWorker ==
  ASSUME TypeOK, Usual, NEW t \in Texts, expirationWorker(t)
  PROVE  Usual'
<1>1. PICK k \in Keys : k = t.parts
    BY Zenon, WorkerEffect
<1>2. /\ ipTable[t] = TRUE /\ store' = [store EXCEPT ![k] = None]
      /\ ipTable' = [ipTable EXCEPT ![t] = None] /\ odd' = odd
    BY Zenon, <1>1, WorkerEffect
<1>3. store \in [Keys -> Blocks] /\ ipTable \in [Texts -> Blocks]
    BY Zenon DEF TypeOK
<1>. SUFFICES ASSUME NEW s \in Texts, s.parts \in V6, s.parts \notin odd, ipTable'[s] # None
              PROVE  s = String(s.parts) /\ ipTable'[s] = store'[s.parts]
    BY Zenon, <1>2 DEF Usual
<1>4. s # t
    BY Zenon, <1>2, <1>3
<1>5. ipTable'[s] = ipTable[s] /\ s.parts \in Keys
    BY Zenon, <1>2, <1>3, <1>4, TextTyped
<1>6. s = String(s.parts) /\ ipTable[s] = store[s.parts]
    BY Zenon, <1>5 DEF Usual
<1>7. s.parts # k
    BY Zenon, <1>1, <1>2, <1>4, <1>6, NamesAssumption DEF Usual
<1>8. store'[s.parts] = store[s.parts]
    BY Zenon, <1>2, <1>3, <1>5, <1>7
<1>. QED BY Zenon, <1>5, <1>6, <1>8

\* After a restart there are dotted texts only.
LEMMA UsualLoad ==
  ASSUME loadFromEtcd
  PROVE  Usual'
<1>. SUFFICES ASSUME NEW s \in Texts, s.parts \in V6
              PROVE  ipTable'[s] = None
    BY Zenon DEF Usual
<1>1. \A p : Dotted(p) # s
  <2>1. s.form # "dotted"
      BY Zenon, V6NotDotted
  <2>. QED BY Zenon, <2>1, FormsOf
<1>2. LiveFrom(s) = {}
    BY Zenon, <1>1 DEF LiveFrom
<1>. QED BY Zenon, <1>2, NamesLoad, LoadShape

\* Labels put in the opposite order twice are the same labels.
LEMMA ReversedTwice ==
  ASSUME NEW s \in Seq(Nibbles)
  PROVE  Len(reversed(s)) = Len(s) /\ reversed(reversed(s)) = s
<1>1. PICK n \in Nat : n = Len(s)
    OBVIOUS
<1>2. PICK r : r = reversed(s)
    OBVIOUS
<1>3. r = [k \in 1..n |-> s[(n - k) + 1]]
    BY Zenon, <1>1, <1>2 DEF reversed
<1>4. \A k \in 1..n : (n - k) + 1 \in 1..n /\ (n - ((n - k) + 1)) + 1 = k
    OBVIOUS
<1>5. \A k \in 1..n : s[(n - k) + 1] \in Nibbles
    BY <1>1, <1>4
<1>6. r \in Seq(Nibbles) /\ Len(r) = n
    BY <1>3, <1>5
<1>7. \A k \in 1..n : r[(n - k) + 1] = s[k]
    BY <1>3, <1>4
<1>8. reversed(r) = [k \in 1..n |-> r[(n - k) + 1]]
    BY Zenon, <1>6 DEF reversed
<1>9. [k \in 1..n |-> r[(n - k) + 1]] = [k \in 1..n |-> s[k]]
    BY Zenon, <1>7
<1>10. s = [k \in 1..n |-> s[k]]
    BY <1>1
<1>. QED BY Zenon, <1>1, <1>2, <1>6, <1>8, <1>9, <1>10

\* Whatever set of addresses is named by whichever texts, in either mode: what
\* a lookup or an RBL query finds for an IPv6 address is the block etcd has for
\* it, and never one that was deleted or has run out.  Excepted are addresses
\* named, in single-instance mode and since the last restart, by another text
\* than the usual one.
THEOREM V6SoundCorrect == Spec => []V6Sound
<1>1. Init => Usual
    BY Zenon DEF Init, Usual
<1>2. ASSUME TypeOK, Usual, [Next]_namesVars
      PROVE  TypeOK' /\ Usual'
  <2>1. TypeOK'
      BY Zenon, <1>2, NamesTypesNext
  <2>2. BOOLEAN \subseteq Blocks /\ None \in Blocks
      BY Zenon DEF Blocks
  <2>3. CASE UNCHANGED namesVars
    <3>1. UNCHANGED <<store, ipTable, odd>>
        BY Zenon, <2>3 DEF namesVars
    <3>. QED BY <1>2, <2>1, <3>1 DEF Usual
  <2>. QED BY Zenon, <1>2, <2>1, <2>2, <2>3, NamesCases, UsualChange, UsualWorker, UsualLoad
<1>3. TypeOK /\ Usual => V6Sound
  <2>. SUFFICES ASSUME TypeOK, Usual, NEW a \in V6, a \notin odd,
                       NEW t \in {String(a), rblQueryToIP(reversed(a))}, t \in Texts
                PROVE  ipTable[t] \in {None, store[a]}
      BY Zenon DEF V6Sound, Entry, rblKey
  <2>1. a \in Seq(Nibbles) /\ Len(a) # 4
      BY Zenon, AddressTyped
  <2>2. t \in {String(a), Grouped(a)}
      BY Zenon, <2>1, ReversedTwice DEF rblQueryToIP
  <2>3. t.parts = a
      BY Zenon, <2>1, <2>2, FormsOf DEF String
  <2>. QED BY Zenon, <2>3 DEF Usual
<1>. QED BY <1>1, <1>2, <1>3, NamesTypesInit, PTL DEF Spec

----------------------------------------------------------------------------
(* Return codes as text                                                  *)

\* Every set of numbers has a least one.
LEMMA Least ==
  ASSUME NEW T \in SUBSET Nat, T # {}
  PROVE  \E k \in T : \A j \in T : k <= j
<1>1. PICK k \in T : \A j \in T : <<j, k>> \notin OpToRel(<, Nat)
    BY Zenon, NatLessThanWellFounded, WFMin
<1>2. \A j \in T : ~(j < k)
    BY Zenon, <1>1 DEF OpToRel
<1>. QED BY <1>2

\* f has the states of the loop for the first n characters of t.
Loops(f, t, n) ==
  f = [k \in 0..n |-> IF k = 0 THEN Start ELSE scan(f[k - 1], t[k])]

\* The loop runs over every text.
LEMMA LoopsOver ==
  ASSUME NEW t, NEW n \in Nat
  PROVE  \E f : Loops(f, t, n)
<1>. SUFFICES ASSUME ~\E f : Loops(f, t, n) PROVE FALSE
    OBVIOUS
<1>1. PICK T : T = {m \in Nat : ~\E f : Loops(f, t, m)}
    BY Zenon
<1>2. PICK m \in T : \A j \in T : m <= j
  <2>1. T \in SUBSET Nat /\ T # {}
      BY Zenon, <1>1
  <2>. QED BY Zenon, <2>1, Least
<1>3. m \in Nat /\ ~\E f : Loops(f, t, m)
    BY Zenon, <1>1
<1>4. CASE m = 0
  <2>1. PICK f : f = [k \in 0..0 |-> Start]
      BY Zenon
  <2>2. f = [k \in 0..0 |-> IF k = 0 THEN Start ELSE scan(f[k - 1], t[k])]
      BY <2>1
  <2>. QED BY Zenon, <1>3, <1>4, <2>2 DEF Loops
<1>5. CASE m # 0
  <2>1. m - 1 \in Nat /\ m - 1 \notin T
      BY <1>2, <1>3, <1>5
  <2>2. PICK f : Loops(f, t, m - 1)
      BY Zenon, <1>1, <2>1
  <2>3. PICK g : g = [k \in 0..m |-> IF k = m THEN scan(f[m - 1], t[m]) ELSE f[k]]
      BY Zenon
  <2>4. \A k \in 0..m : g[k] = IF k = 0 THEN Start ELSE scan(g[k - 1], t[k])
    <3>. SUFFICES ASSUME NEW k \in 0..m
                  PROVE  g[k] = IF k = 0 THEN Start ELSE scan(g[k - 1], t[k])
        OBVIOUS
    <3>1. CASE k = m
      <4>1. m - 1 \in 0..m /\ m - 1 # m
          BY <1>3, <1>5
      <4>2. g[k] = scan(f[m - 1], t[m]) /\ g[m - 1] = f[m - 1]
          BY Zenon, <2>3, <3>1, <4>1
      <4>. QED BY Zenon, <1>5, <3>1, <4>2
    <3>2. CASE k # m
      <4>1. k \in 0..(m - 1)
          BY <1>3, <3>2
      <4>2. g[k] = f[k]
          BY Zenon, <2>3, <3>2
      <4>3. f[k] = IF k = 0 THEN Start ELSE scan(f[k - 1], t[k])
          BY Zenon, <2>2, <4>1 DEF Loops
      <4>4. CASE k = 0
          BY Zenon, <4>2, <4>3, <4>4
      <4>5. CASE k # 0
        <5>1. k - 1 \in 0..m /\ k - 1 # m
            BY <1>3, <4>1, <4>5
        <5>2. g[k - 1] = f[k - 1]
            BY Zenon, <2>3, <5>1
        <5>. QED BY Zenon, <4>2, <4>3, <4>5, <5>2
      <4>. QED BY Zenon, <4>4, <4>5
    <3>. QED BY Zenon, <3>1, <3>2
  <2>5. Loops(g, t, m)
      BY Zenon, <2>3, <2>4 DEF Loops
  <2>. QED BY Zenon, <1>3, <2>5
<1>. QED BY Zenon, <1>4, <1>5

\* What the loop does with a text.
LEMMA ScansLoop ==
  ASSUME NEW t, Len(t) \in Nat
  PROVE  /\ scans(t)[0] = Start
         /\ \A n \in 1..Len(t) : scans(t)[n] = scan(scans(t)[n - 1], t[n])
<1>1. PICK m \in Nat : m = Len(t)
    OBVIOUS
<1>2. PICK f : Loops(f, t, m)
    BY Zenon, LoopsOver
<1>3. scans(t) = CHOOSE at : at = [n \in 0..m |-> IF n = 0 THEN Start ELSE scan(at[n - 1], t[n])]
    BY Zenon, <1>1 DEF scans
<1>4. Loops(scans(t), t, m)
    BY Zenon, <1>2, <1>3 DEF Loops
<1>5. 0 \in 0..m /\ \A n \in 1..m : n \in 0..m /\ n # 0
    OBVIOUS
<1>6. scans(t)[0] = Start
    BY Zenon, <1>4, <1>5 DEF Loops
<1>7. \A n \in 1..m : scans(t)[n] = scan(scans(t)[n - 1], t[n])
    BY Zenon, <1>4, <1>5 DEF Loops
<1>. QED BY Zenon, <1>1, <1>6, <1>7

\* The characters of a text, the values of a uint32 and the states of the loop.
Chars == 0..9 \cup {Dot, Other}
Bytes == {r \in Seq(0..255) : Len(r) = 4}
States == [result : Bytes, octet : 0..255, dots : 0..3, ok : BOOLEAN]

\* The loop goes on with one more character.
LEMMA ScansAppend ==
  ASSUME NEW t \in Seq(Chars), NEW c \in Chars, NEW u, u = Append(t, c)
  PROVE  /\ u \in Seq(Chars)
         /\ scans(u)[Len(u)] = scan(scans(t)[Len(t)], c)
<1>1. PICK m \in Nat : m = Len(t)
    OBVIOUS
<1>2. /\ u \in Seq(Chars) /\ Len(u) = m + 1 /\ u[m + 1] = c
      /\ \A k \in 1..m : u[k] = t[k]
    BY <1>1
<1>3. /\ scans(t)[0] = Start
      /\ \A n \in 1..m : scans(t)[n] = scan(scans(t)[n - 1], t[n])
    BY Zenon, <1>1, ScansLoop
<1>4. /\ scans(u)[0] = Start
      /\ \A n \in 1..(m + 1) : scans(u)[n] = scan(scans(u)[n - 1], u[n])
  <2>1. Len(u) \in Nat
      BY <1>2
  <2>. QED BY Zenon, <1>2, <2>1, ScansLoop
<1>5. \A n \in 0..m : scans(u)[n] = scans(t)[n]
  <2>. SUFFICES ASSUME ~\A n \in 0..m : scans(u)[n] = scans(t)[n] PROVE FALSE
      OBVIOUS
  <2>1. PICK T : T = {n \in 0..m : scans(u)[n] # scans(t)[n]}
      BY Zenon
  <2>2. T \in SUBSET Nat /\ T # {}
    <3>1. 0..m \subseteq Nat
        OBVIOUS
    <3>. QED BY Zenon, <2>1, <3>1
  <2>3. PICK n \in T : \A j \in T : n <= j
      BY Zenon, <2>2, Least
  <2>4. n \in 0..m /\ scans(u)[n] # scans(t)[n]
      BY Zenon, <2>1
  <2>5. n # 0
      BY Zenon, <1>3, <1>4, <2>4
  <2>6. /\ n \in 1..m /\ n \in 1..(m + 1) /\ n - 1 \in 0..m /\ n - 1 \notin T
      BY <2>3, <2>4, <2>5
  <2>7. scans(u)[n - 1] = scans(t)[n - 1]
      BY Zenon, <2>1, <2>6
  <2>. QED BY Zenon, <1>2, <1>3, <1>4, <2>4, <2>6, <2>7
<1>6. m + 1 \in 1..(m + 1) /\ m \in 0..m /\ (m + 1) - 1 = m
    OBVIOUS
<1>7. scans(u)[m + 1] = scan(scans(t)[m], c)
    BY Zenon, <1>2, <1>4, <1>5, <1>6
<1>. QED BY Zenon, <1>1, <1>2, <1>7

\* The first m elements of q are in S.
All(q, m, S) == \A i \in 1..m : q[i] \in S

\* The elements of a sequence.
LEMMA ElementsOf ==
  ASSUME NEW S, NEW q \in Seq(S), NEW m \in Nat, m = Len(q)
  PROVE  All(q, m, S)
    BY DEF All

\* The bytes of a uint32.
LEMMA BytesOf ==
  ASSUME NEW r \in Bytes
  PROVE  \E a \in 0..255, b \in 0..255, c \in 0..255, d \in 0..255 :
           r[1] = a /\ r[2] = b /\ r[3] = c /\ r[4] = d
<1>1. r \in Seq(0..255) /\ Len(r) = 4
    BY Zenon DEF Bytes
<1>2. 1 \in 1..4 /\ 2 \in 1..4 /\ 3 \in 1..4 /\ 4 \in 1..4 /\ 4 \in Nat
    OBVIOUS
<1>3. All(r, 4, 0..255)
    BY ZenonT(30), <1>1, <1>2, ElementsOf
<1>4. r[1] \in 0..255 /\ r[2] \in 0..255 /\ r[3] \in 0..255 /\ r[4] \in 0..255
    BY ZenonT(30), <1>2, <1>3 DEF All
<1>. QED BY ZenonT(30), <1>4

\* They move up by one.
LEMMA ShiftedTyped ==
  ASSUME NEW r \in Bytes, NEW o \in 0..255
  PROVE  Shifted(r, o) \in Bytes
<1>1. PICK a \in 0..255, b \in 0..255, c \in 0..255, d \in 0..255 :
        r[1] = a /\ r[2] = b /\ r[3] = c /\ r[4] = d
    BY ZenonT(30), BytesOf
<1>2. <<b, c, d, o>> \in Bytes
    BY DEF Bytes
<1>. QED BY Zenon, <1>1, <1>2 DEF Shifted

\* The initial state of the loop.
LEMMA StartStates ==
  /\ Start \in States /\ Start.ok /\ Start.result = Zero
  /\ Start.octet = 0 /\ Start.dots = 0
  /\ Fail \in States
<1>1. Zero \in Bytes
    BY DEF Zero, Bytes
<1>2. 0 \in 0..255 /\ 0 \in 0..3
    OBVIOUS
<1>3. Start \in States
    BY Zenon, <1>1, <1>2 DEF Start, States
<1>4. Start.ok /\ Start.result = Zero /\ Start.octet = 0 /\ Start.dots = 0
    BY Zenon DEF Start
<1>5. Fail \in States
    BY ZenonT(30), <1>3 DEF Fail, States
<1>. QED BY Zenon, <1>3, <1>4, <1>5

\* What a digit, a dot and another character do.
LEMMA ScanDigit ==
  ASSUME NEW s \in States, s.ok, NEW c \in 0..9
  PROVE  IF s.octet * 10 + c <= 255
           THEN /\ scan(s, c) \in States /\ scan(s, c).ok
                /\ scan(s, c).result = s.result /\ scan(s, c).dots = s.dots
                /\ scan(s, c).octet = s.octet * 10 + c
           ELSE scan(s, c) = Fail
<1>1. c # Dot /\ c # Other
    BY Zenon, Ipv4TextAssumption
<1>2. PICK o \in 0..255 : o = s.octet
    BY Zenon DEF States
<1>3. CASE o * 10 + c <= 255
  <2>1. o * 10 + c \in 0..255 /\ ~(o * 10 + c > 255)
      BY <1>3
  <2>2. scan(s, c) = [s EXCEPT !.octet = o * 10 + c]
      BY Zenon, <1>1, <1>2, <2>1 DEF scan
  <2>3. scan(s, c) \in States
      BY <2>1, <2>2 DEF States
  <2>4. /\ scan(s, c).ok /\ scan(s, c).result = s.result
        /\ scan(s, c).dots = s.dots /\ scan(s, c).octet = o * 10 + c
      BY Zenon, <2>2 DEF States
  <2>. QED BY Zenon, <1>2, <1>3, <2>3, <2>4
<1>4. CASE ~(o * 10 + c <= 255)
  <2>1. o * 10 + c > 255
      BY <1>4
  <2>2. scan(s, c) = Fail
      BY Zenon, <1>1, <1>2, <2>1 DEF scan
  <2>. QED BY Zenon, <1>2, <1>4, <2>2
<1>. QED BY Zenon, <1>3, <1>4

\* A record with three fields changed.
LEMMA StatesExcept ==
  ASSUME NEW r \in Bytes, NEW o \in 0..255, NEW d \in 0..3, NEW s \in States,
         NEW x, x = [s EXCEPT !.result = r, !.octet = o, !.dots = d]
  PROVE  x \in States
<1>1. PICK B : B = 0..255
    BY Zenon
<1>2. PICK D : D = 0..3
    BY Zenon
<1>3. States = [result : Bytes, octet : B, dots : D, ok : BOOLEAN] /\ o \in B /\ d \in D
    BY ZenonT(30), <1>1, <1>2 DEF States
<1>. QED BY Zenon, <1>3

\* A dot ends a byte, and the fourth one ends the scan.
LEMMA ScanDot ==
  ASSUME NEW s \in States, s.ok
  PROVE  IF s.dots < 3
           THEN /\ scan(s, Dot) \in States /\ scan(s, Dot).ok
                /\ scan(s, Dot).result = Shifted(s.result, s.octet)
                /\ scan(s, Dot).octet = 0 /\ scan(s, Dot).dots = s.dots + 1
           ELSE scan(s, Dot) = Fail
<1>1. Dot # Other
    BY Zenon, Ipv4TextAssumption
<1>2. PICK d \in 0..3 : d = s.dots
    BY Zenon DEF States
<1>3. s.result \in Bytes /\ s.octet \in 0..255
    BY Zenon DEF States
<1>4. CASE d < 3
  <2>1. d # 3
      BY <1>4
  <2>2. PICK r \in Bytes : r = Shifted(s.result, s.octet)
      BY Zenon, <1>3, ShiftedTyped
  <2>3. PICK z \in 0..255 : z = 0
      OBVIOUS
  <2>4. PICK e \in 0..3 : e = d + 1
      BY <1>4
  <2>5. scan(s, Dot) = [s EXCEPT !.result = r, !.octet = z, !.dots = e]
      BY Zenon, <1>1, <1>2, <2>1, <2>2, <2>3, <2>4 DEF scan
  <2>6. scan(s, Dot) \in States
      BY ZenonT(30), <2>5, StatesExcept
  <2>7. /\ scan(s, Dot).ok /\ scan(s, Dot).result = r
        /\ scan(s, Dot).octet = z /\ scan(s, Dot).dots = e
      BY <2>5 DEF States
  <2>. QED BY Zenon, <1>2, <1>4, <2>2, <2>3, <2>4, <2>6, <2>7
<1>5. CASE ~(d < 3)
  <2>1. d = 3
      BY <1>5
  <2>2. scan(s, Dot) = Fail
      BY Zenon, <1>2, <2>1 DEF scan
  <2>. QED BY Zenon, <1>2, <1>5, <2>2
<1>. QED BY Zenon, <1>4, <1>5

\* The loop stays in its states.
LEMMA ScanTyped ==
  ASSUME NEW s \in States, NEW c \in Chars
  PROVE  scan(s, c) \in States
<1>1. CASE ~s.ok \/ c = Other
  <2>1. scan(s, c) = Fail
      BY Zenon, <1>1 DEF scan
  <2>. QED BY Zenon, <2>1, StartStates
<1>2. CASE s.ok /\ c \in 0..9
    BY ZenonT(30), <1>2, ScanDigit, StartStates
<1>3. CASE s.ok /\ c = Dot
    BY Zenon, <1>3, ScanDot, StartStates
<1>. QED BY Zenon, <1>1, <1>2, <1>3 DEF Chars

\* And so ends in one of them, after every text.
LEMMA ScansTyped ==
  ASSUME NEW t \in Seq(Chars)
  PROVE  scans(t)[Len(t)] \in States
<1>1. PICK m \in Nat : m = Len(t)
    OBVIOUS
<1>2. \A n \in 1..m : t[n] \in Chars
    BY <1>1
<1>3. /\ scans(t)[0] = Start
      /\ \A n \in 1..m : scans(t)[n] = scan(scans(t)[n - 1], t[n])
    BY Zenon, <1>1, ScansLoop
<1>4. \A n \in 0..m : scans(t)[n] \in States
  <2>. SUFFICES ASSUME ~\A n \in 0..m : scans(t)[n] \in States PROVE FALSE
      OBVIOUS
  <2>1. PICK T : T = {n \in 0..m : scans(t)[n] \notin States}
      BY Zenon
  <2>2. T \in SUBSET Nat /\ T # {}
    <3>1. 0..m \subseteq Nat
        OBVIOUS
    <3>. QED BY Zenon, <2>1, <3>1
  <2>3. PICK n \in T : \A j \in T : n <= j
      BY Zenon, <2>2, Least
  <2>4. n \in 0..m /\ scans(t)[n] \notin States
      BY Zenon, <2>1
  <2>5. n # 0
      BY Zenon, <1>3, <2>4, StartStates
  <2>6. n \in 1..m /\ n - 1 \in 0..m /\ n - 1 \notin T
      BY <2>3, <2>4, <2>5
  <2>7. scans(t)[n - 1] \in States /\ t[n] \in Chars
      BY Zenon, <1>2, <2>1, <2>6
  <2>. QED BY Zenon, <1>3, <2>4, <2>6, <2>7, ScanTyped
<1>5. m \in 0..m
    OBVIOUS
<1>. QED BY Zenon, <1>1, <1>4, <1>5

\* IPv4StrToUint32 gives a uint32 for every text.
LEMMA ParseTyped ==
  ASSUME NEW t \in Seq(Chars)
  PROVE  IPv4StrToUint32(t) \in Bytes
<1>1. PICK s \in States : s = scans(t)[Len(t)]
    BY Zenon, ScansTyped
<1>2. s.result \in Bytes /\ s.octet \in 0..255
    BY Zenon DEF States
<1>3. Shifted(s.result, s.octet) \in Bytes
    BY Zenon, <1>2, ShiftedTyped
<1>4. Zero \in Bytes
    BY DEF Zero, Bytes
<1>. QED BY Zenon, <1>1, <1>3, <1>4 DEF IPv4StrToUint32

\* After text t, the loop has the bytes r, the octet o and d dots.
At(t, r, o, d) ==
  /\ t \in Seq(Chars) /\ scans(t)[Len(t)] \in States
  /\ scans(t)[Len(t)].ok
  /\ scans(t)[Len(t)].result = r /\ scans(t)[Len(t)].octet = o
  /\ scans(t)[Len(t)].dots = d

\* A text that gets one character more.
LEMMA OneMore ==
  ASSUME NEW S, NEW t \in Seq(S), NEW a \in S, NEW u, u = <<a>>
  PROVE  t \o u = Append(t, a)
    OBVIOUS

\* A text that gets two.
LEMMA TwoMore ==
  ASSUME NEW S, NEW t \in Seq(S), NEW a \in S, NEW b \in S, NEW u, u = <<a, b>>,
         NEW z, z = Append(Append(t, a), b)
  PROVE  t \o u = z
    OBVIOUS

\* A text that gets three digits.
LEMMA ThreeMore ==
  ASSUME NEW t \in Seq(Chars), NEW a \in 0..9, NEW b \in 0..9, NEW c \in 0..9,
         NEW u, u = <<a, b, c>>, NEW z, z = Append(Append(Append(t, a), b), c)
  PROVE  t \o u = z
<1>1. PICK x \in Chars, y \in Chars, w \in Chars : x = a /\ y = b /\ w = c
    BY Zenon DEF Chars
<1>2. u = <<x, y, w>> /\ z = Append(Append(Append(t, x), y), w)
    BY Zenon, <1>1
<1>. QED BY SMTT(30), <1>2

\* Before the first character.
LEMMA AtStart == At(<<>>, Zero, 0, 0)
<1>1. <<>> \in Seq(Chars) /\ Len(<<>>) = 0 /\ 0 \in Nat
    OBVIOUS
<1>2. scans(<<>>)[0] = Start
    BY Zenon, <1>1, ScansLoop
<1>. QED BY Zenon, <1>1, <1>2, StartStates DEF At

\* After a digit.
LEMMA AtDigit ==
  ASSUME NEW t, NEW r, NEW o \in 0..255, NEW d, At(t, r, o, d),
         NEW c \in 0..9, NEW q \in 0..255, q = o * 10 + c
  PROVE  Append(t, c) \in Seq(Chars) /\ At(Append(t, c), r, q, d)
<1>1. PICK s \in States : s = scans(t)[Len(t)]
    BY Zenon DEF At
<1>2. t \in Seq(Chars) /\ s.ok /\ s.result = r /\ s.octet = o /\ s.dots = d
    BY Zenon, <1>1 DEF At
<1>3. c \in Chars
    BY Zenon DEF Chars
<1>4. PICK u : u = Append(t, c)
    BY Zenon
<1>5. u \in Seq(Chars) /\ scans(u)[Len(u)] = scan(s, c)
    BY Zenon, <1>1, <1>2, <1>3, <1>4, ScansAppend
<1>6. o * 10 + c <= 255
    OBVIOUS
<1>7. /\ scan(s, c) \in States /\ scan(s, c).ok
      /\ scan(s, c).result = r /\ scan(s, c).dots = d /\ scan(s, c).octet = q
    BY ZenonT(30), <1>2, <1>6, ScanDigit
<1>. QED BY Zenon, <1>4, <1>5, <1>7 DEF At

\* After a dot.
LEMMA AtDot ==
  ASSUME NEW t, NEW r, NEW o, NEW d \in 0..3, At(t, r, o, d),
         NEW e \in 0..3, e = d + 1
  PROVE  At(t \o <<Dot>>, Shifted(r, o), 0, e)
<1>1. PICK s \in States : s = scans(t)[Len(t)]
    BY Zenon DEF At
<1>2. t \in Seq(Chars) /\ s.ok /\ s.result = r /\ s.octet = o /\ s.dots = d
    BY Zenon, <1>1 DEF At
<1>3. Dot \in Chars
    BY Zenon DEF Chars
<1>4. PICK u : u = Append(t, Dot)
    BY Zenon
<1>5. u \in Seq(Chars) /\ scans(u)[Len(u)] = scan(s, Dot)
    BY Zenon, <1>1, <1>2, <1>3, <1>4, ScansAppend
<1>6. t \o <<Dot>> = u
    BY Zenon, <1>2, <1>3, <1>4, OneMore
<1>7. d < 3
    OBVIOUS
<1>8. /\ scan(s, Dot) \in States /\ scan(s, Dot).ok
      /\ scan(s, Dot).result = Shifted(r, o)
      /\ scan(s, Dot).octet = 0 /\ scan(s, Dot).dots = e
    BY Zenon, <1>2, <1>7, ScanDot
<1>. QED BY Zenon, <1>5, <1>6, <1>8 DEF At

\* v has the digits a, b and c, and the octet is x and then y before the last.
Splits(v, a, b, c, x, y) ==
  /\ appendUint8(v) = <<a, b, c>>
  /\ x = 0 * 10 + a /\ y = x * 10 + b /\ v = y * 10 + c

\* The digits of a byte with three digits.
LEMMA ThreeDigits ==
  ASSUME NEW v \in 0..255, v >= 100
  PROVE  \E a \in 0..9, b \in 0..9, c \in 0..9, x \in 0..255, y \in 0..255 :
           Splits(v, a, b, c, x, y)
<1>1. PICK a, b, c : a = v \div 100 /\ b = (v \div 10) % 10 /\ c = v % 10
    BY Zenon
<1>2. a \in 0..9 /\ b \in 0..9 /\ c \in 0..9
    BY <1>1
<1>3. v = (a * 10 + b) * 10 + c
    BY <1>1, <1>2
<1>4. a \in 0..255 /\ a = 0 * 10 + a /\ a * 10 + b \in 0..255
    BY <1>2
<1>5. appendUint8(v) = <<a, b, c>>
    BY Zenon, <1>1 DEF appendUint8
<1>6. Splits(v, a, b, c, a, a * 10 + b)
    BY Zenon, <1>3, <1>4, <1>5 DEF Splits
<1>. QED BY ZenonT(30), <1>2, <1>4, <1>6

\* After the digits of a byte.
LEMMA AtByte ==
  ASSUME NEW t, NEW r, NEW d, At(t, r, 0, d), NEW v \in 0..255
  PROVE  At(t \o appendUint8(v), r, v, d)
<1>1. t \in Seq(Chars) /\ 0 \in 0..255
    BY DEF At
<1>2. 0..9 \subseteq Chars
    BY Zenon DEF Chars
<1>3. CASE v >= 100
  <2>1. PICK a \in 0..9, b \in 0..9, c \in 0..9, x \in 0..255, y \in 0..255 :
           Splits(v, a, b, c, x, y)
      BY ZenonT(30), <1>3, ThreeDigits
  <2>2. At(Append(t, a), r, x, d)
      BY ZenonT(30), <1>1, <2>1, AtDigit DEF Splits
  <2>3. At(Append(Append(t, a), b), r, y, d)
      BY ZenonT(30), <2>1, <2>2, AtDigit DEF Splits
  <2>4. At(Append(Append(Append(t, a), b), c), r, v, d)
      BY ZenonT(30), <2>1, <2>3, AtDigit DEF Splits
  <2>5. PICK z : z = Append(Append(Append(t, a), b), c)
      BY Zenon
  <2>6. t \o appendUint8(v) = z
      BY ZenonT(30), <1>1, <2>1, <2>5, ThreeMore DEF Splits
  <2>. QED BY Zenon, <2>4, <2>5, <2>6
<1>4. CASE ~(v >= 100) /\ v >= 10
  <2>1. PICK a \in 0..9, b \in 0..9 : a = v \div 10 /\ b = v % 10
      BY SMTT(30), <1>4
  <2>2. PICK x \in 0..255 : x = 0 * 10 + a /\ v = x * 10 + b
      BY <1>4, <2>1
  <2>3. appendUint8(v) = <<a, b>>
      BY ZenonT(30), <1>4, <2>1 DEF appendUint8
  <2>4. At(Append(t, a), r, x, d)
      BY ZenonT(30), <1>1, <2>2, AtDigit
  <2>5. At(Append(Append(t, a), b), r, v, d)
      BY ZenonT(30), <2>2, <2>4, AtDigit
  <2>6. a \in Chars /\ b \in Chars
      BY Zenon, <1>2
  <2>7. PICK z : z = Append(Append(t, a), b)
      BY Zenon
  <2>8. t \o appendUint8(v) = z
      BY Zenon, <1>1, <2>3, <2>6, <2>7, TwoMore
  <2>. QED BY Zenon, <2>5, <2>7, <2>8
<1>5. CASE ~(v >= 100) /\ ~(v >= 10)
  <2>1. v \in 0..9 /\ v = 0 * 10 + v
      BY <1>5
  <2>2. appendUint8(v) = <<v>>
      BY Zenon, <1>5 DEF appendUint8
  <2>3. At(Append(t, v), r, v, d)
      BY ZenonT(30), <1>1, <2>1, AtDigit
  <2>. QED BY ZenonT(30), <1>1, <1>2, <2>1, <2>2, <2>3, OneMore
<1>. QED BY Zenon, <1>3, <1>4, <1>5

\* The digits of a byte are a text, which is appended to nothing first.
LEMMA FirstByte ==
  ASSUME NEW v \in 0..255
  PROVE  At(appendUint8(v), Zero, v, 0)
<1>1. PICK u : u = appendUint8(v)
    BY Zenon
<1>2. \E S : u \in Seq(S)
  <2>1. CASE v >= 100
    <3>1. PICK a, b, c : u = <<a, b, c>>
        BY Zenon, <1>1, <2>1 DEF appendUint8
    <3>2. u \in Seq({a, b, c})
        BY <3>1
    <3>. QED BY Zenon, <3>2
  <2>2. CASE ~(v >= 100) /\ v >= 10
    <3>1. PICK a, b : u = <<a, b>>
        BY Zenon, <1>1, <2>2 DEF appendUint8
    <3>2. u \in Seq({a, b})
        BY <3>1
    <3>. QED BY Zenon, <3>2
  <2>3. CASE ~(v >= 100) /\ ~(v >= 10)
    <3>1. u = <<v>>
        BY Zenon, <1>1, <2>3 DEF appendUint8
    <3>2. u \in Seq({v})
        BY <3>1
    <3>. QED BY Zenon, <3>2
  <2>. QED BY Zenon, <2>1, <2>2, <2>3
<1>3. <<>> \o u = u
  <2>1. \A S : \A q \in Seq(S) : <<>> \o q = q
      OBVIOUS
  <2>. QED BY Zenon, <1>2, <2>1
<1>4. At(<<>> \o u, Zero, v, 0)
    BY ZenonT(30), <1>1, AtStart, AtByte
<1>. QED BY Zenon, <1>1, <1>3, <1>4

\* The text of a return code is read as that return code.
LEMMA ReadBack ==
  ASSUME NEW n \in Bytes
  PROVE  IPv4StrToUint32(Uint32ToIPv4Str(n)) = n
<1>1. PICK a \in 0..255, b \in 0..255, c \in 0..255, d \in 0..255 :
        n[1] = a /\ n[2] = b /\ n[3] = c /\ n[4] = d
    BY ZenonT(30), BytesOf
<1>2. PICK r1 \in Bytes, r2 \in Bytes, r3 \in Bytes, r4 \in Bytes :
        /\ r1 = Shifted(Zero, a) /\ r2 = Shifted(r1, b)
        /\ r3 = Shifted(r2, c) /\ r4 = Shifted(r3, d)
  <2>1. Zero \in Bytes
      BY DEF Zero, Bytes
  <2>2. PICK r1 \in Bytes : r1 = Shifted(Zero, a)
      BY ZenonT(30), <2>1, ShiftedTyped
  <2>3. PICK r2 \in Bytes : r2 = Shifted(r1, b)
      BY ZenonT(30), ShiftedTyped
  <2>4. PICK r3 \in Bytes : r3 = Shifted(r2, c)
      BY ZenonT(30), ShiftedTyped
  <2>5. PICK r4 \in Bytes : r4 = Shifted(r3, d)
      BY ZenonT(30), ShiftedTyped
  <2>. QED BY Zenon, <2>2, <2>3, <2>4, <2>5
<1>3. PICK t1, t2, t3, t4 :
        /\ t1 = appendUint8(a) /\ t2 = t1 \o <<Dot>> \o appendUint8(b)
        /\ t3 = t2 \o <<Dot>> \o appendUint8(c)
        /\ t4 = t3 \o <<Dot>> \o appendUint8(d)
    BY Zenon
<1>4. 0 \in 0..3 /\ 1 \in 0..3 /\ 2 \in 0..3 /\ 3 \in 0..3
      /\ 0 + 1 = 1 /\ 1 + 1 = 2 /\ 2 + 1 = 3
    OBVIOUS
<1>5. At(t1, Zero, a, 0)
    BY Zenon, <1>3, FirstByte
<1>6. At(t2, r1, b, 1)
  <2>1. At(t1 \o <<Dot>>, r1, 0, 1)
      BY Zenon, <1>2, <1>4, <1>5, AtDot
  <2>. QED BY ZenonT(30), <1>3, <2>1, AtByte
<1>7. At(t3, r2, c, 2)
  <2>1. At(t2 \o <<Dot>>, r2, 0, 2)
      BY Zenon, <1>2, <1>4, <1>6, AtDot
  <2>. QED BY ZenonT(30), <1>3, <2>1, AtByte
<1>8. At(t4, r3, d, 3)
  <2>1. At(t3 \o <<Dot>>, r3, 0, 3)
      BY Zenon, <1>2, <1>4, <1>7, AtDot
  <2>. QED BY ZenonT(30), <1>3, <2>1, AtByte
<1>9. Uint32ToIPv4Str(n) = t4
    BY Zenon, <1>1, <1>3 DEF Uint32ToIPv4Str
<1>10. IPv4StrToUint32(t4) = r4
    BY Zenon, <1>2, <1>8 DEF IPv4StrToUint32, At
<1>11. r4 = <<a, b, c, d>>
  <2>1. r1 = <<Zero[2], Zero[3], Zero[4], a>>
      BY Zenon, <1>2 DEF Shifted
  <2>2. r2 = <<r1[2], r1[3], r1[4], b>>
      BY Zenon, <1>2 DEF Shifted
  <2>3. r3 = <<r2[2], r2[3], r2[4], c>>
      BY Zenon, <1>2 DEF Shifted
  <2>4. r4 = <<r3[2], r3[3], r3[4], d>>
      BY Zenon, <1>2 DEF Shifted
  <2>5. r1[4] = a
      BY SMTT(30), <2>1
  <2>6. r2[3] = a /\ r2[4] = b
      BY SMTT(30), <2>2, <2>5
  <2>7. r3[2] = a /\ r3[3] = b /\ r3[4] = c
      BY SMTT(30), <2>3, <2>6
  <2>. QED BY Zenon, <2>4, <2>7
<1>12. n = <<a, b, c, d>>
  <2>1. n \in Seq(0..255) /\ Len(n) = 4
      BY ZenonT(30) DEF Bytes
  <2>. QED BY <1>1, <2>1
<1>. QED BY ZenonT(30), <1>9, <1>10, <1>11, <1>12

\* The text has characters, whatever its length.
TextChars == text \in Seq(Chars)

\* A text consists of characters.
LEMMA TextCharsCorrect == TextSpec => []TextChars
<1>1. text = <<>> => TextChars
    BY DEF TextChars
<1>2. TextChars /\ [longer]_text => TextChars'
  <2>. SUFFICES ASSUME text \in Seq(Chars), [longer]_text
                PROVE  text' \in Seq(Chars)
      BY Zenon DEF TextChars
  <2>1. CASE longer
    <3>1. PICK c \in Chars : text' = Append(text, c)
        BY Zenon, <2>1, Ipv4TextAssumption DEF longer, Chars
    <3>. QED BY <3>1
  <2>. QED BY <2>1
<1>. QED BY <1>1, <1>2, PTL DEF TextSpec

\* For every text over all digits and of any length: the number it is read as
\* is read back from the text that Uint32ToIPv4Str stores for it.
THEOREM RoundTripCorrect == TextSpec => []RoundTrip
<1>1. TextSpec => []TextChars
    BY TextCharsCorrect
<1>2. TextChars => RoundTrip
    BY Zenon, ParseTyped, ReadBack DEF RoundTrip, TextChars
<1>. QED BY <1>1, <1>2, PTL

----------------------------------------------------------------------------
(* What a text is read as                                                  *)

\* Induction from i to n, with the set of the numbers something holds for.
LEMMA Climbs ==
  ASSUME NEW i \in Nat, NEW n \in Nat, NEW T, i \in T,
         \A k \in i..n : k \in T /\ k + 1 <= n => k + 1 \in T
  PROVE  i..n \subseteq T
<1>1. PICK B : B = {k \in i..n : k \notin T}
    BY Zenon
<1>. SUFFICES ASSUME B # {} PROVE FALSE
    BY Zenon, <1>1
<1>2. B \in SUBSET Nat
  <2>1. i..n \subseteq Nat
      OBVIOUS
  <2>. QED BY Zenon, <1>1, <2>1
<1>3. PICK m \in B : \A j \in B : m <= j
    BY Zenon, <1>2, Least
<1>4. m \in i..n /\ m \notin T
    BY Zenon, <1>1
<1>5. m # i
    BY Zenon, <1>4
<1>6. m - 1 \in i..n /\ m - 1 \notin B /\ (m - 1) + 1 = m /\ m <= n
    BY <1>3, <1>4, <1>5
<1>7. m - 1 \in T
    BY Zenon, <1>1, <1>6
<1>8. (m - 1) + 1 \in T
    BY Zenon, <1>6, <1>7
<1>. QED BY Zenon, <1>4, <1>6, <1>8

\* f has the powers of ten up to the n-th.
Powers(f, n) == f = [k \in 0..n |-> IF k = 0 THEN 1 ELSE 10 * f[k - 1]]

\* There is such a function.
LEMMA PowersOver ==
  ASSUME NEW n \in Nat
  PROVE  \E f : Powers(f, n)
<1>1. PICK T : T = {m \in 0..n : \E f : Powers(f, m)}
    BY Zenon
<1>2. 0 \in T
  <2>1. PICK f : f = [k \in 0..0 |-> 1]
      BY Zenon
  <2>2. f = [k \in 0..0 |-> IF k = 0 THEN 1 ELSE 10 * f[k - 1]]
      BY <2>1
  <2>3. 0 \in 0..n
      OBVIOUS
  <2>. QED BY Zenon, <1>1, <2>2, <2>3 DEF Powers
<1>3. ASSUME NEW m \in 0..n, m \in T, m + 1 <= n PROVE m + 1 \in T
  <2>1. PICK f : Powers(f, m)
      BY Zenon, <1>1, <1>3
  <2>2. PICK g : g = [k \in 0..(m + 1) |-> IF k = m + 1 THEN 10 * f[m] ELSE f[k]]
      BY Zenon
  <2>3. ASSUME NEW k \in 0..(m + 1)
        PROVE  g[k] = IF k = 0 THEN 1 ELSE 10 * g[k - 1]
    <3>1. CASE k = m + 1
      <4>1. m \in 0..(m + 1) /\ m # m + 1 /\ k # 0 /\ k - 1 = m
          BY <3>1
      <4>2. g[k] = 10 * f[m] /\ g[m] = f[m]
          BY Zenon, <2>2, <3>1, <4>1
      <4>. QED BY Zenon, <4>1, <4>2
    <3>2. CASE k # m + 1
      <4>1. k \in 0..m
          BY <3>2
      <4>2. g[k] = f[k] /\ f[k] = IF k = 0 THEN 1 ELSE 10 * f[k - 1]
          BY Zenon, <2>1, <2>2, <3>2, <4>1 DEF Powers
      <4>3. CASE k = 0
          BY Zenon, <4>2, <4>3
      <4>4. CASE k # 0
        <5>1. k - 1 \in 0..(m + 1) /\ k - 1 # m + 1
            BY <4>1, <4>4
        <5>2. g[k - 1] = f[k - 1]
            BY Zenon, <2>2, <5>1
        <5>. QED BY Zenon, <4>2, <4>4, <5>2
      <4>. QED BY Zenon, <4>3, <4>4
    <3>. QED BY Zenon, <3>1, <3>2
  <2>4. Powers(g, m + 1)
      BY Zenon, <2>2, <2>3 DEF Powers
  <2>5. m + 1 \in 0..n
      BY <1>3
  <2>. QED BY Zenon, <1>1, <2>4, <2>5
<1>4. 0 \in Nat /\ n \in 0..n
    OBVIOUS
<1>5. 0..n \subseteq T
    BY Zenon, <1>2, <1>3, <1>4, Climbs
<1>. QED BY Zenon, <1>1, <1>4, <1>5

\* Any two have the same powers.
LEMMA PowersAgree ==
  ASSUME NEW n \in Nat, NEW m \in Nat, n <= m,
         NEW f, Powers(f, n), NEW g, Powers(g, m)
  PROVE  f[n] \in Nat /\ f[n] = g[n]
<1>1. PICK T : T = {k \in 0..n : f[k] \in Nat /\ f[k] = g[k]}
    BY Zenon
<1>2. 0 \in T
  <2>1. 0 \in 0..n /\ 0 \in 0..m /\ 1 \in Nat
      OBVIOUS
  <2>2. f[0] = 1 /\ g[0] = 1
      BY Zenon, <2>1 DEF Powers
  <2>. QED BY Zenon, <1>1, <2>1, <2>2
<1>3. ASSUME NEW k \in 0..n, k \in T, k + 1 <= n PROVE k + 1 \in T
  <2>1. /\ k + 1 \in 0..n /\ k + 1 \in 0..m /\ k + 1 # 0 /\ (k + 1) - 1 = k
      BY <1>3
  <2>2. f[k + 1] = 10 * f[k] /\ g[k + 1] = 10 * g[k]
      BY Zenon, <2>1 DEF Powers
  <2>3. f[k] \in Nat /\ f[k] = g[k]
      BY Zenon, <1>1, <1>3
  <2>4. PICK x \in Nat : x = f[k]
      BY Zenon, <2>3
  <2>5. 10 * x \in Nat
      OBVIOUS
  <2>. QED BY Zenon, <1>1, <2>1, <2>2, <2>3, <2>4, <2>5
<1>4. 0 \in Nat /\ n \in 0..n
    OBVIOUS
<1>5. 0..n \subseteq T
    BY Zenon, <1>2, <1>3, <1>4, Climbs
<1>. QED BY Zenon, <1>1, <1>4, <1>5

\* A weight is ten times the one to its right.
LEMMA Tens ==
  /\ tens(0) = 1
  /\ \A n \in Nat : tens(n) \in Nat /\ tens(n + 1) = 10 * tens(n)
<1>1. ASSUME NEW n \in Nat PROVE \E f : Powers(f, n) /\ tens(n) = f[n]
  <2>1. PICK f : Powers(f, n)
      BY Zenon, PowersOver
  <2>2. PICK g : g = CHOOSE power :
          power = [k \in 0..n |-> IF k = 0 THEN 1 ELSE 10 * power[k - 1]]
      OBVIOUS
  <2>3. Powers(g, n)
      BY Zenon, <2>1, <2>2 DEF Powers
  <2>4. tens(n) = g[n]
      BY Zenon, <2>2 DEF tens
  <2>. QED BY Zenon, <2>3, <2>4
<1>2. tens(0) = 1
  <2>1. 0 \in Nat /\ 0 \in 0..0
      OBVIOUS
  <2>2. PICK f : Powers(f, 0) /\ tens(0) = f[0]
      BY Zenon, <1>1, <2>1
  <2>. QED BY Zenon, <2>1, <2>2 DEF Powers
<1>3. ASSUME NEW n \in Nat PROVE tens(n) \in Nat /\ tens(n + 1) = 10 * tens(n)
  <2>1. /\ n + 1 \in Nat /\ n <= n + 1 /\ n + 1 \in 0..(n + 1) /\ n + 1 # 0
        /\ (n + 1) - 1 = n
      OBVIOUS
  <2>2. PICK f : Powers(f, n) /\ tens(n) = f[n]
      BY Zenon, <1>1
  <2>3. PICK g : Powers(g, n + 1) /\ tens(n + 1) = g[n + 1]
      BY Zenon, <1>1, <2>1
  <2>4. f[n] \in Nat /\ f[n] = g[n]
    <3>1. PICK m \in Nat : m = n + 1
        BY Zenon, <2>1
    <3>2. n <= m /\ Powers(f, n) /\ Powers(g, m)
        BY Zenon, <2>1, <2>2, <2>3, <3>1
    <3>. QED BY ZenonT(30), <3>2, PowersAgree
  <2>5. g[n + 1] = 10 * g[n]
      BY Zenon, <2>1, <2>3 DEF Powers
  <2>. QED BY Zenon, <2>2, <2>3, <2>4, <2>5
<1>. QED BY Zenon, <1>2, <1>3

\* f has the sums of the digits after i with the weights they have before j,
\* up to the digit at m.
Sums(f, t, i, j, m) ==
  f = [k \in i..m |-> IF k = i THEN 0 ELSE f[k - 1] + t[k] * tens((j - 1) - k)]

\* There are such sums.
LEMMA SumsOver ==
  ASSUME NEW t, NEW i \in Nat, NEW j \in Nat, i < j
  PROVE  \E f : Sums(f, t, i, j, j - 1)
<1>0. PICK n \in Nat : n = j - 1 /\ i <= n
    OBVIOUS
<1>1. PICK T : T = {m \in i..n : \E f : Sums(f, t, i, j, m)}
    BY Zenon
<1>2. i \in T
  <2>1. PICK f : f = [k \in i..i |-> 0]
      BY ZenonT(30)
  <2>2. /\ i \in i..n
        /\ f = [k \in i..i |-> IF k = i THEN 0
                               ELSE f[k - 1] + t[k] * tens((j - 1) - k)]
      BY <1>0, <2>1
  <2>. QED BY Zenon, <1>1, <2>2 DEF Sums
<1>3. ASSUME NEW m \in i..n, m \in T, m + 1 <= n PROVE m + 1 \in T
  <2>1. PICK f : Sums(f, t, i, j, m)
      BY Zenon, <1>1, <1>3
  <2>2. PICK x : x = f[m] + t[m + 1] * tens((j - 1) - (m + 1))
      OBVIOUS
  <2>3. PICK g : g = [k \in i..(m + 1) |-> IF k = m + 1 THEN x ELSE f[k]]
      BY ZenonT(30)
  <2>4. ASSUME NEW k \in i..(m + 1)
        PROVE  g[k] = IF k = i THEN 0
                      ELSE g[k - 1] + t[k] * tens((j - 1) - k)
    <3>1. CASE k = m + 1
      <4>1. m \in i..(m + 1) /\ m # m + 1 /\ k # i /\ k - 1 = m
          BY <3>1
      <4>2. g[k] = x /\ g[m] = f[m]
          BY Zenon, <2>3, <3>1, <4>1
      <4>. QED BY Zenon, <2>2, <3>1, <4>1, <4>2
    <3>2. CASE k # m + 1
      <4>1. k \in i..m
          BY SMTT(30), <3>2
      <4>2. /\ g[k] = f[k]
            /\ f[k] = IF k = i THEN 0 ELSE f[k - 1] + t[k] * tens((j - 1) - k)
          BY Zenon, <2>1, <2>3, <3>2, <4>1 DEF Sums
      <4>3. CASE k = i
          BY Zenon, <4>2, <4>3
      <4>4. CASE k # i
        <5>1. k - 1 \in i..(m + 1) /\ k - 1 # m + 1
            BY SMTT(30), <4>1, <4>4
        <5>2. g[k - 1] = f[k - 1]
            BY Zenon, <2>3, <5>1
        <5>. QED BY Zenon, <4>2, <4>4, <5>2
      <4>. QED BY Zenon, <4>3, <4>4
    <3>. QED BY Zenon, <3>1, <3>2
  <2>5. Sums(g, t, i, j, m + 1)
      BY ZenonT(30), <2>3, <2>4 DEF Sums
  <2>6. m + 1 \in i..n
      BY SMTT(30), <1>3
  <2>. QED BY Zenon, <1>1, <2>5, <2>6
<1>4. i..n \subseteq T
    BY ZenonT(30), <1>2, <1>3, Climbs
<1>5. n \in i..n
    BY SMTT(30), <1>0
<1>. QED BY Zenon, <1>0, <1>1, <1>4, <1>5

Totals(t, i, j, n) ==
  \E f : Sums(f, t, i, j, n) /\ Number(t, i, j) = f[n]

\* Number is the last of the sums.
LEMMA NumberSum ==
  ASSUME NEW t, NEW i \in Nat, NEW n \in Nat, i <= n, NEW j, j = n + 1
  PROVE  Totals(t, i, j, n)
<1>1. j \in Nat /\ i < j /\ j - 1 = n
    OBVIOUS
<1>2. PICK f : Sums(f, t, i, j, n)
    BY ZenonT(30), <1>1, SumsOver
<1>3. PICK g : g = CHOOSE sum : sum = [k \in i..(j - 1) |->
        IF k = i THEN 0 ELSE sum[k - 1] + t[k] * tens((j - 1) - k)]
    OBVIOUS
<1>4. Sums(g, t, i, j, j - 1)
    BY ZenonT(30), <1>1, <1>2, <1>3 DEF Sums
<1>5. Number(t, i, j) = g[j - 1]
    BY Zenon, <1>3 DEF Number
<1>. QED BY Zenon, <1>1, <1>4, <1>5 DEF Totals

\* No digit is the number 0.
LEMMA NumberNone ==
  ASSUME NEW t, NEW i \in Nat
  PROVE  Number(t, i, i + 1) = 0
<1>1. i <= i /\ i \in i..i
    OBVIOUS
<1>2. PICK f : Sums(f, t, i, i + 1, i) /\ Number(t, i, i + 1) = f[i]
  <2>1. Totals(t, i, i + 1, i)
      BY Zenon, <1>1, NumberSum
  <2>. QED BY Zenon, <2>1 DEF Totals
<1>3. f[i] = 0
    BY Zenon, <1>1, <1>2 DEF Sums
<1>. QED BY Zenon, <1>2, <1>3

\* One digit more: ten times the number, and the digit.
LEMMA NumberMore ==
  ASSUME NEW t, NEW i \in Nat, NEW j \in Nat, i < j,
         \A k \in (i + 1)..j : t[k] \in 0..9
  PROVE  /\ Number(t, i, j) \in Nat
         /\ Number(t, i, j + 1) = 10 * Number(t, i, j) + t[j]
<1>1. PICK n \in Nat : n = j - 1 /\ i <= n /\ n + 1 = j
    OBVIOUS
<1>2. PICK f : Sums(f, t, i, j, n) /\ Number(t, i, j) = f[n]
  <2>1. Totals(t, i, j, n)
      BY Zenon, <1>1, NumberSum
  <2>. QED BY Zenon, <2>1 DEF Totals
<1>3. PICK g : Sums(g, t, i, j + 1, j) /\ Number(t, i, j + 1) = g[j]
  <2>1. i <= j
      OBVIOUS
  <2>2. Totals(t, i, j + 1, j)
      BY Zenon, <2>1, NumberSum
  <2>. QED BY Zenon, <2>2 DEF Totals
<1>4. PICK T : T = {k \in i..n : f[k] \in Nat /\ g[k] = 10 * f[k]}
    BY Zenon
<1>5. i \in T
  <2>1. i \in i..n /\ i \in i..j /\ 0 \in Nat /\ 0 = 10 * 0
      BY SMTT(30), <1>1
  <2>2. f[i] = 0 /\ g[i] = 0
      BY Zenon, <1>2, <1>3, <2>1 DEF Sums
  <2>. QED BY Zenon, <1>4, <2>1, <2>2
<1>6. ASSUME NEW k \in i..n, k \in T, k + 1 <= n PROVE k + 1 \in T
  <2>1. /\ k + 1 \in i..n /\ k + 1 \in i..j /\ k + 1 # i /\ (k + 1) - 1 = k
        /\ k + 1 \in (i + 1)..j
      BY SMTT(30), <1>1, <1>6
  <2>2. PICK d \in 0..9 : d = t[k + 1]
      BY Zenon, <2>1
  <2>3. PICK w \in Nat : w = (j - 1) - (k + 1) /\ w + 1 = ((j + 1) - 1) - (k + 1)
      BY SMTT(30), <1>1, <1>6
  <2>4. PICK x \in Nat : x = tens(w) /\ tens(w + 1) = 10 * x
      BY Zenon, Tens
  <2>5. PICK a \in Nat : a = f[k] /\ g[k] = 10 * a
      BY ZenonT(30), <1>4, <1>6
  <2>6. f[k + 1] = a + d * x
      BY ZenonT(30), <1>2, <2>1, <2>2, <2>3, <2>4, <2>5 DEF Sums
  <2>7. g[k + 1] = 10 * a + d * (10 * x)
      BY ZenonT(30), <1>3, <2>1, <2>2, <2>3, <2>4, <2>5 DEF Sums
  <2>8. 10 * a + d * (10 * x) = 10 * (a + d * x) /\ a + d * x \in Nat
      BY SMTT(30), <2>2, <2>4, <2>5
  <2>. QED BY Zenon, <1>4, <2>1, <2>6, <2>7, <2>8
<1>7. n \in i..n /\ j \in i..j /\ j # i /\ ((j + 1) - 1) - j = 0 /\ j \in (i + 1)..j
    BY SMTT(30), <1>1
<1>8. i..n \subseteq T
    BY Zenon, <1>5, <1>6, Climbs
<1>9. PICK a \in Nat : a = f[n] /\ g[n] = 10 * a
    BY Zenon, <1>4, <1>7, <1>8
<1>10. PICK d \in 0..9 : d = t[j]
    BY Zenon, <1>7
<1>11. g[j] = 10 * a + d * 1
  <2>1. g[j] = g[j - 1] + t[j] * tens(((j + 1) - 1) - j)
      BY ZenonT(30), <1>3, <1>7 DEF Sums
  <2>. QED BY Zenon, <1>1, <1>7, <1>9, <1>10, <2>1, Tens
<1>12. d * 1 = d
    BY <1>10
<1>. QED BY Zenon, <1>2, <1>3, <1>9, <1>10, <1>11, <1>12

\* More digits: a number that is not less.
LEMMA NumberGrows ==
  ASSUME NEW t, NEW i \in Nat, NEW j \in Nat, NEW n \in Nat, i < j, j <= n,
         \A k \in (i + 1)..n : t[k] \in 0..9 \/ k = n
  PROVE  /\ Number(t, i, j) \in Nat /\ Number(t, i, n) \in Nat
         /\ Number(t, i, j) <= Number(t, i, n)
<1>0. Number(t, i, j) \in Nat
  <2>1. CASE j = i + 1
      BY SMTT(30), <2>1, NumberNone
  <2>2. CASE j # i + 1
    <3>1. PICK h \in Nat : h + 1 = j /\ i < h
        BY SMTT(30), <2>2
    <3>2. \A k \in (i + 1)..h : t[k] \in 0..9
        BY SMTT(30), <3>1
    <3>3. Number(t, i, h) \in Nat /\ Number(t, i, j) = 10 * Number(t, i, h) + t[h]
        BY ZenonT(30), <3>1, <3>2, NumberMore
    <3>4. t[h] \in 0..9
        BY SMTT(30), <3>1, <3>2
    <3>. QED BY <3>3, <3>4
  <2>. QED BY ZenonT(30), <2>1, <2>2
<1>1. PICK T : T = {m \in j..n : Number(t, i, m) \in Nat
                                 /\ Number(t, i, j) <= Number(t, i, m)}
    BY ZenonT(30)
<1>2. j \in T
    BY <1>0, <1>1
<1>3. ASSUME NEW m \in j..n, m \in T, m + 1 <= n PROVE m + 1 \in T
  <2>1. m \in Nat /\ i < m /\ m + 1 \in j..n /\ m \in (i + 1)..m
      BY SMTT(30), <1>3
  <2>2. \A k \in (i + 1)..m : t[k] \in 0..9
      BY SMTT(30), <1>3
  <2>3. Number(t, i, m + 1) = 10 * Number(t, i, m) + t[m]
      BY Zenon, <2>1, <2>2, NumberMore
  <2>4. PICK d \in 0..9 : d = t[m]
      BY Zenon, <2>1, <2>2
  <2>5. PICK a \in Nat : a = Number(t, i, m) /\ Number(t, i, j) <= a
      BY Zenon, <1>1, <1>3
  <2>6. PICK b \in Nat : b = Number(t, i, j)
      BY ZenonT(30), <1>0
  <2>7. 10 * a + d \in Nat /\ b <= 10 * a + d
      BY SMTT(30), <2>5, <2>6
  <2>. QED BY Zenon, <1>1, <2>1, <2>3, <2>4, <2>5, <2>6, <2>7
<1>4. j..n \subseteq T
    BY Zenon, <1>2, <1>3, Climbs
<1>5. n \in j..n
    OBVIOUS
<1>. QED BY Zenon, <1>0, <1>1, <1>4, <1>5

\* t is not the dotted text of four bytes.
Hopeless(t) == \A i, j, k \in Dots(t) : ~Quad(t, i, j, k)

\* Another character leaves no hope.
LEMMA OtherHopeless ==
  ASSUME NEW t \in Seq(Chars), NEW n \in 1..Len(t), t[n] = Other
  PROVE  Hopeless(t)
<1>1. n \in DOMAIN t
    OBVIOUS
<1>2. Other \in Range(t)
    BY Zenon, <1>1 DEF Range
<1>. QED BY ZenonT(30), <1>2 DEF Hopeless, Quad

\* Nor do four dots.
LEMMA FourHopeless ==
  ASSUME NEW t \in Seq(Chars), NEW a \in Dots(t), NEW b \in Dots(t),
         NEW c \in Dots(t), NEW d \in Dots(t),
         a # b, a # c, a # d, b # c, b # d, c # d
  PROVE  Hopeless(t)
<1>1. ASSUME NEW i, NEW j, NEW k, Dots(t) = {i, j, k} PROVE FALSE
  <2>1. a \in {i, j, k} /\ b \in {i, j, k} /\ c \in {i, j, k} /\ d \in {i, j, k}
      BY Zenon, <1>1
  <2>. QED BY <2>1
<1>. QED BY ZenonT(30), <1>1 DEF Hopeless, Quad

\* Nor do less than three.
LEMMA FewHopeless ==
  ASSUME NEW t \in Seq(Chars), NEW a, NEW b, Dots(t) \subseteq {a, b}
  PROVE  Hopeless(t)
<1>1. ASSUME NEW i \in Dots(t), NEW j \in Dots(t), NEW k \in Dots(t),
             i < j, j < k
      PROVE  FALSE
  <2>1. i \in Nat /\ j \in Nat /\ k \in Nat
      BY DEF Dots
  <2>2. i # j /\ i # k /\ j # k
      BY SMTT(30), <1>1, <2>1
  <2>. QED BY Zenon, <2>2
<1>. QED BY ZenonT(30), <1>1 DEF Hopeless, Quad

\* Between two dots next to each other, or before the first or behind the last,
\* there are digits only.
LEMMA DigitsBetween ==
  ASSUME NEW t \in Seq(Chars), Other \notin Range(t),
         NEW e \in Nat, NEW f \in Nat, f <= Len(t) + 1,
         \A k \in Dots(t) : k <= e \/ f <= k,
         NEW k \in (e + 1)..f, k # f
  PROVE  t[k] \in 0..9
<1>1. k \in 1..Len(t) /\ k \in DOMAIN t /\ ~(k <= e) /\ ~(f <= k)
    OBVIOUS
<1>2. t[k] \in Chars
    BY <1>1
<1>3. t[k] # Other
    BY Zenon, <1>1 DEF Range
<1>4. t[k] # Dot
    BY ZenonT(30), <1>1 DEF Dots
<1>. QED BY Zenon, <1>2, <1>3, <1>4 DEF Chars

\* A part that ends at f and is above 255 before it does stays so.
LEMMA PartAbove ==
  ASSUME NEW t \in Seq(Chars), Other \notin Range(t),
         NEW e \in Nat, NEW h \in Nat, NEW f \in Nat, e < h, h <= f,
         f <= Len(t) + 1, \A k \in Dots(t) : k <= e \/ f <= k,
         Number(t, e, h) > 255
  PROVE  ~(Number(t, e, f) <= 255)
<1>1. \A k \in (e + 1)..f : t[k] \in 0..9 \/ k = f
    BY Zenon, DigitsBetween
<1>2. /\ Number(t, e, h) \in Nat /\ Number(t, e, f) \in Nat
      /\ Number(t, e, h) <= Number(t, e, f)
    BY Zenon, <1>1, NumberGrows
<1>. QED BY SMTT(30), <1>2

\* A part above 255 leaves no hope either.
LEMMA AboveHopeless ==
  ASSUME NEW t \in Seq(Chars), NEW e \in Nat, NEW h \in Nat, e < h,
         h <= Len(t) + 1, e = 0 \/ e \in Dots(t),
         \A k \in Dots(t) : k <= e \/ h <= k,
         Number(t, e, h) > 255
  PROVE  Hopeless(t)
<1>. SUFFICES ASSUME NEW i \in Dots(t), NEW j \in Dots(t), NEW k \in Dots(t),
                     Quad(t, i, j, k)
              PROVE  FALSE
    BY Zenon DEF Hopeless
<1>1. PICK L \in Nat : L = Len(t) + 1
    OBVIOUS
<1>2. /\ Other \notin Range(t) /\ Dots(t) = {i, j, k} /\ i < j /\ j < k
      /\ \A n \in 1..4 : Numbers(t, i, j, k)[n] <= 255
    BY ZenonT(30) DEF Quad
<1>3. /\ i \in Nat /\ j \in Nat /\ k \in Nat /\ 0 < i /\ k < L
    BY SMTT(30), <1>1 DEF Dots
<1>4. /\ Number(t, 0, i) <= 255 /\ Number(t, i, j) <= 255
      /\ Number(t, j, k) <= 255 /\ Number(t, k, L) <= 255
  <2>1. /\ Numbers(t, i, j, k)[1] <= 255 /\ Numbers(t, i, j, k)[2] <= 255
        /\ Numbers(t, i, j, k)[3] <= 255 /\ Numbers(t, i, j, k)[4] <= 255
    <3>1. 1 \in 1..4 /\ 2 \in 1..4 /\ 3 \in 1..4 /\ 4 \in 1..4
        OBVIOUS
    <3>. QED BY ZenonT(30), <1>2, <3>1
  <2>2. /\ Numbers(t, i, j, k)[1] = Number(t, 0, i)
        /\ Numbers(t, i, j, k)[2] = Number(t, i, j)
        /\ Numbers(t, i, j, k)[3] = Number(t, j, k)
        /\ Numbers(t, i, j, k)[4] = Number(t, k, L)
      BY SMTT(30), <1>1 DEF Numbers
  <2>. QED BY ZenonT(30), <2>1, <2>2
<1>5. ASSUME NEW f \in Nat, h <= f, f <= L, \A d \in {i, j, k} : d <= e \/ f <= d
      PROVE  ~(Number(t, e, f) <= 255)
  <2>1. f <= Len(t) + 1 /\ \A d \in Dots(t) : d <= e \/ f <= d
      BY ZenonT(30), <1>1, <1>2, <1>5
  <2>. QED BY ZenonT(30), <1>2, <1>5, <2>1, PartAbove
<1>6. CASE e = 0
  <2>1. h <= i /\ i <= L /\ \A d \in {i, j, k} : d <= e \/ i <= d
      BY <1>2, <1>3, <1>6
  <2>2. ~(Number(t, e, i) <= 255)
      BY ZenonT(30), <1>3, <1>5, <2>1
  <2>. QED BY ZenonT(30), <1>4, <1>6, <2>2
<1>7. CASE e = i
  <2>1. h <= j /\ j <= L /\ \A d \in {i, j, k} : d <= e \/ j <= d
      BY SMTT(30), <1>2, <1>3, <1>7
  <2>2. ~(Number(t, e, j) <= 255)
      BY ZenonT(30), <1>3, <1>5, <2>1
  <2>. QED BY ZenonT(30), <1>4, <1>7, <2>2
<1>8. CASE e = j
  <2>1. h <= k /\ k <= L /\ \A d \in {i, j, k} : d <= e \/ k <= d
      BY <1>2, <1>3, <1>8
  <2>2. ~(Number(t, e, k) <= 255)
      BY ZenonT(30), <1>3, <1>5, <2>1
  <2>. QED BY ZenonT(30), <1>4, <1>8, <2>2
<1>9. CASE e = k
  <2>1. h <= L /\ L <= L /\ \A d \in {i, j, k} : d <= e \/ L <= d
      BY <1>1, <1>2, <1>3, <1>9
  <2>2. ~(Number(t, e, L) <= 255)
      BY ZenonT(30), <1>3, <1>5, <2>1
  <2>. QED BY ZenonT(30), <1>4, <1>9, <2>2
<1>. QED BY Zenon, <1>2, <1>6, <1>7, <1>8, <1>9

\* The dots among the first n characters.
DotsTo(t, n) == {k \in 1..n : t[k] = Dot}

\* d of them have been read, the last at e, and r has the parts they end.
Cuts(t, n, d, r, e) ==
  \/ d = 0 /\ e = 0 /\ DotsTo(t, n) = {} /\ r = Zero
  \/ d = 1 /\ DotsTo(t, n) = {e} /\ r = <<0, 0, 0, Number(t, 0, e)>>
  \/ d = 2 /\ \E i \in Nat :
       /\ i < e /\ DotsTo(t, n) = {i, e}
       /\ r = <<0, 0, Number(t, 0, i), Number(t, i, e)>>
  \/ d = 3 /\ \E i, j \in Nat :
       /\ i < j /\ j < e /\ DotsTo(t, n) = {i, j, e}
       /\ r = <<0, Number(t, 0, i), Number(t, i, j), Number(t, j, e)>>

\* The state of the loop after n characters, while no character has failed.
Follows(t, n, s, e) ==
  /\ e \in 0..n /\ (e = 0 \/ t[e] = Dot) /\ \A k \in (e + 1)..n : t[k] \in 0..9
  /\ s.octet = Number(t, e, n + 1) /\ Cuts(t, n, s.dots, s.result, e)

\* The loop goes on as long as the text may become the dotted text of four bytes.
Right(t, n, s) ==
  /\ s \in States
  /\ s.ok => (\A k \in 1..n : t[k] # Other) /\ \E e : Follows(t, n, s, e)
  /\ ~s.ok => Hopeless(t)

\* One character more adds a dot if it is one.
LEMMA DotsNext ==
  ASSUME NEW t, NEW n \in Nat
  PROVE  /\ t[n + 1] # Dot => DotsTo(t, n + 1) = DotsTo(t, n)
         /\ t[n + 1] = Dot => DotsTo(t, n + 1) = DotsTo(t, n) \cup {n + 1}
<1>1. \A k : k \in 1..(n + 1) <=> k \in 1..n \/ k = n + 1
    BY SMTT(30)
<1>. QED BY Zenon, <1>1 DEF DotsTo

\* A dot ends the part behind the dot before it.
LEMMA CutsDot ==
  ASSUME NEW t, NEW n \in Nat, NEW d \in 0..3, d < 3, NEW r, NEW e \in 0..n,
         Cuts(t, n, d, r, e), NEW f \in Nat, f = n + 1, t[f] = Dot,
         NEW o, o = Number(t, e, f), NEW c, c = d + 1
  PROVE  Cuts(t, f, c, Shifted(r, o), f)
<1>1. DotsTo(t, f) = DotsTo(t, n) \cup {f}
    BY Zenon, DotsNext
<1>2. CASE d = 0
  <2>1. e = 0 /\ DotsTo(t, n) = {} /\ r = <<0, 0, 0, 0>>
      BY SMTT(30), <1>2 DEF Cuts, Zero
  <2>2. Shifted(r, o) = <<0, 0, 0, o>>
      BY SMTT(30), <2>1 DEF Shifted
  <2>3. DotsTo(t, f) = {f} /\ c = 1
      BY SMTT(30), <1>1, <1>2, <2>1
  <2>. QED BY Zenon, <2>1, <2>2, <2>3 DEF Cuts
<1>3. CASE d = 1
  <2>1. DotsTo(t, n) = {e} /\ r = <<0, 0, 0, Number(t, 0, e)>>
      BY SMTT(30), <1>3 DEF Cuts
  <2>2. Shifted(r, o) = <<0, 0, Number(t, 0, e), o>>
      BY SMTT(30), <2>1 DEF Shifted
  <2>3. DotsTo(t, f) = {e, f} /\ c = 2 /\ e \in Nat /\ e < f
      BY SMTT(30), <1>1, <1>3, <2>1
  <2>. QED BY ZenonT(30), <2>2, <2>3 DEF Cuts
<1>4. CASE d = 2
  <2>1. PICK i \in Nat :
          /\ i < e /\ DotsTo(t, n) = {i, e}
          /\ r = <<0, 0, Number(t, 0, i), Number(t, i, e)>>
      BY SMTT(30), <1>4 DEF Cuts
  <2>2. Shifted(r, o) = <<0, Number(t, 0, i), Number(t, i, e), o>>
      BY SMTT(30), <2>1 DEF Shifted
  <2>3. DotsTo(t, f) = {i, e, f} /\ c = 3 /\ e \in Nat /\ e < f
      BY SMTT(30), <1>1, <1>4, <2>1
  <2>. QED BY Zenon, <2>1, <2>2, <2>3 DEF Cuts
<1>. QED BY SMTT(30), <1>2, <1>3, <1>4

\* One step of the loop, for the character at f.
LEMMA RightNext ==
  ASSUME NEW t \in Seq(Chars), NEW n \in Nat, NEW f \in 1..Len(t), f = n + 1,
         NEW s, Right(t, n, s)
  PROVE  Right(t, f, scan(s, t[f]))
<1>1. s \in States /\ t[f] \in Chars /\ scan(s, t[f]) \in States
  <2>1. s \in States
      BY Zenon DEF Right
  <2>2. t[f] \in Chars
      OBVIOUS
  <2>. QED BY ZenonT(30), <2>1, <2>2, ScanTyped
<1>2. ~Fail.ok
    BY DEF Fail, Start
<1>3. ASSUME Hopeless(t), scan(s, t[f]) = Fail PROVE Right(t, f, scan(s, t[f]))
    BY Zenon, <1>1, <1>2, <1>3 DEF Right
<1>4. CASE ~s.ok
  <2>1. scan(s, t[f]) = Fail
      BY Zenon, <1>4 DEF scan
  <2>. QED BY ZenonT(30), <1>3, <1>4, <2>1 DEF Right
<1>5. CASE s.ok /\ t[f] = Other
  <2>1. scan(s, t[f]) = Fail
      BY ZenonT(30), <1>5 DEF scan
  <2>. QED BY ZenonT(30), <1>3, <1>5, <2>1, OtherHopeless
<1>6. ASSUME s.ok, t[f] # Other PROVE Right(t, f, scan(s, t[f]))
  <2>1. PICK e : Follows(t, n, s, e)
      BY Zenon, <1>6 DEF Right
  <2>2. /\ e \in 0..n /\ (e = 0 \/ t[e] = Dot)
        /\ \A k \in (e + 1)..n : t[k] \in 0..9
        /\ s.octet = Number(t, e, f) /\ Cuts(t, n, s.dots, s.result, e)
      BY Zenon, <2>1 DEF Follows
  <2>3. \A k \in 1..f : t[k] # Other
    <3>1. \A k \in 1..f : k \in 1..n \/ k = f
        BY SMTT(30)
    <3>. QED BY Zenon, <1>6, <3>1 DEF Right
  <2>4. /\ f \in Nat /\ e \in Nat /\ f + 1 \in Nat /\ e < f /\ f \in 0..f
        /\ (f + 1)..f = {} /\ e \in 0..f
      BY SMTT(30), <2>2
  <2>5. PICK o \in 0..255 : o = s.octet
      BY ZenonT(30), <1>1 DEF States
  <2>6. PICK d \in 0..3 : d = s.dots
      BY ZenonT(30), <1>1 DEF States
  <2>7. ASSUME NEW g, Follows(t, f, scan(s, t[f]), g)
        PROVE  Right(t, f, scan(s, t[f])) \/ ~scan(s, t[f]).ok
      BY Zenon, <1>1, <2>3, <2>7 DEF Right
  <2>8. CASE t[f] \in 0..9
    <3>1. \A k \in (e + 1)..f : t[k] \in 0..9
      <4>1. \A k \in (e + 1)..f : k \in (e + 1)..n \/ k = f
          BY SMTT(30), <2>4
      <4>. QED BY Zenon, <2>2, <2>8, <4>1
    <3>2. PICK c \in 0..9 : c = t[f]
        BY Zenon, <2>8
    <3>3. Number(t, e, f + 1) = 10 * o + c
      <4>1. Number(t, e, f + 1) = 10 * Number(t, e, f) + t[f]
          BY ZenonT(30), <2>4, <3>1, NumberMore
      <4>. QED BY Zenon, <2>2, <2>5, <3>2, <4>1
    <3>4. o * 10 + c = 10 * o + c
        BY SMTT(30), <2>5, <3>2
    <3>5. CASE o * 10 + c <= 255
      <4>1. /\ scan(s, t[f]).ok /\ scan(s, t[f]).result = s.result
            /\ scan(s, t[f]).dots = s.dots
            /\ scan(s, t[f]).octet = o * 10 + c
          BY ZenonT(30), <1>1, <1>6, <2>5, <3>2, <3>5, ScanDigit
      <4>2. t[f] # Dot
          BY ZenonT(30), <2>8, Ipv4TextAssumption
      <4>3. DotsTo(t, f) = DotsTo(t, n)
          BY ZenonT(30), <4>2, DotsNext
      <4>4. Cuts(t, f, s.dots, s.result, e)
          BY ZenonT(30), <2>2, <4>3 DEF Cuts
      <4>5. Follows(t, f, scan(s, t[f]), e)
          BY ZenonT(30), <2>2, <2>4, <3>1, <3>3, <3>4, <4>1, <4>4 DEF Follows
      <4>. QED BY Zenon, <2>7, <4>1, <4>5
    <3>6. CASE ~(o * 10 + c <= 255)
      <4>1. scan(s, t[f]) = Fail
          BY ZenonT(30), <1>1, <1>6, <2>5, <3>2, <3>6, ScanDigit
      <4>2. Number(t, e, f + 1) > 255
          BY SMTT(30), <2>5, <3>2, <3>3, <3>6
      <4>3. e = 0 \/ e \in Dots(t)
          BY SMTT(30), <2>2, <2>4 DEF Dots
      <4>4. \A k \in Dots(t) : k <= e \/ f + 1 <= k
        <5>. SUFFICES ASSUME NEW k \in Dots(t) PROVE k <= e \/ f + 1 <= k
            BY SMTT(30)
        <5>1. k \in 1..Len(t) /\ t[k] = Dot
            BY SMTT(30) DEF Dots
        <5>2. k <= e \/ f + 1 <= k \/ k \in (e + 1)..f
            BY SMTT(30), <2>4, <5>1
        <5>3. Dot \notin 0..9
            BY ZenonT(30), Ipv4TextAssumption
        <5>4. k \notin (e + 1)..f
            BY Zenon, <3>1, <5>1, <5>3
        <5>. QED BY ZenonT(30), <5>2, <5>4
      <4>5. e < f + 1 /\ f + 1 <= Len(t) + 1
          BY SMTT(30), <2>4
      <4>6. Hopeless(t)
          BY ZenonT(30), <2>4, <4>2, <4>3, <4>4, <4>5, AboveHopeless
      <4>. QED BY Zenon, <1>3, <4>1, <4>6
    <3>. QED BY Zenon, <3>5, <3>6
  <2>9. CASE t[f] = Dot
    <3>1. CASE d < 3
      <4>1. /\ scan(s, Dot).ok /\ scan(s, Dot).result = Shifted(s.result, o)
            /\ scan(s, Dot).octet = 0 /\ scan(s, Dot).dots = d + 1
          BY ZenonT(30), <1>1, <1>6, <2>5, <2>6, <3>1, ScanDot
      <4>2. PICK r : r = s.result
          OBVIOUS
      <4>3. Cuts(t, f, d + 1, Shifted(r, o), f)
          BY ZenonT(30), <2>2, <2>4, <2>5, <2>6, <2>9, <3>1, <4>2, CutsDot
      <4>4. Number(t, f, f + 1) = 0
          BY ZenonT(30), <2>4, NumberNone
      <4>5. Follows(t, f, scan(s, Dot), f)
          BY ZenonT(30), <2>4, <2>9, <4>1, <4>2, <4>3, <4>4 DEF Follows
      <4>. QED BY Zenon, <2>7, <2>9, <4>1, <4>5
    <3>2. CASE ~(d < 3)
      <4>1. scan(s, Dot) = Fail
          BY ZenonT(30), <1>1, <1>6, <2>6, <3>2, ScanDot
      <4>2. Cuts(t, n, 3, s.result, e)
        <5>1. d = 3
            BY SMTT(30), <3>2
        <5>. QED BY ZenonT(30), <2>2, <2>6, <5>1
      <4>3. PICK i \in Nat, j \in Nat : i < j /\ j < e /\ DotsTo(t, n) = {i, j, e}
          BY SMTT(30), <4>2 DEF Cuts
      <4>4. DotsTo(t, n) \subseteq Dots(t) /\ f \in Dots(t)
          BY SMTT(30), <2>9 DEF DotsTo, Dots
      <4>5. i # j /\ i # e /\ i # f /\ j # e /\ j # f /\ e # f
          BY SMTT(30), <2>4, <4>3
      <4>6. Hopeless(t)
          BY ZenonT(30), <4>3, <4>4, <4>5, FourHopeless
      <4>. QED BY Zenon, <1>3, <2>9, <4>1, <4>6
    <3>. QED BY Zenon, <3>1, <3>2
  <2>. QED BY Zenon, <1>1, <1>6, <2>8, <2>9 DEF Chars
<1>. QED BY Zenon, <1>4, <1>5, <1>6

\* After the whole text, the result is the one the text is written for.
LEMMA ReadsExactly ==
  ASSUME NEW t \in Seq(Chars)
  PROVE  /\ \A i, j, k \in Dots(t) :
              Quad(t, i, j, k) => IPv4StrToUint32(t) = Numbers(t, i, j, k)
         /\ Hopeless(t) => IPv4StrToUint32(t) = Zero
<1>1. PICK m \in Nat : m = Len(t)
    OBVIOUS
<1>2. /\ scans(t)[0] = Start
      /\ \A n \in 1..m : scans(t)[n] = scan(scans(t)[n - 1], t[n])
    BY Zenon, <1>1, ScansLoop
<1>3. PICK T : T = {n \in 0..m : Right(t, n, scans(t)[n])}
    BY ZenonT(30)
<1>4. 0 \in T
  <2>1. 0 \in 0..m /\ 0 \in 0..0 /\ 1..0 = {} /\ (0 + 1)..0 = {} /\ 0 \in Nat
      OBVIOUS
  <2>2. Cuts(t, 0, 0, Zero, 0)
      BY ZenonT(30), <2>1 DEF Cuts, DotsTo
  <2>3. Follows(t, 0, Start, 0)
      BY Zenon, <2>1, <2>2, StartStates, NumberNone DEF Follows
  <2>4. Right(t, 0, Start)
      BY Zenon, <2>1, <2>3, StartStates DEF Right
  <2>. QED BY Zenon, <1>2, <1>3, <2>1, <2>4
<1>5. ASSUME NEW n \in 0..m, n \in T, n + 1 <= m PROVE n + 1 \in T
  <2>1. PICK f \in 1..m : f = n + 1 /\ f - 1 = n /\ f \in 0..m /\ n \in Nat
      BY SMTT(30), <1>5
  <2>2. PICK s : s = scans(t)[n] /\ Right(t, n, s)
      BY Zenon, <1>3, <1>5
  <2>3. Right(t, f, scan(s, t[f]))
      BY ZenonT(30), <1>1, <2>1, <2>2, RightNext
  <2>4. scans(t)[f] = scan(s, t[f])
      BY ZenonT(30), <1>2, <2>1, <2>2
  <2>. QED BY Zenon, <1>3, <2>1, <2>3, <2>4
<1>6. 0 \in Nat /\ m \in 0..m
    OBVIOUS
<1>7. 0..m \subseteq T
    BY ZenonT(30), <1>4, <1>5, <1>6, Climbs
<1>8. PICK s : s = scans(t)[m] /\ Right(t, m, s)
    BY Zenon, <1>3, <1>6, <1>7
<1>9. IPv4StrToUint32(t) =
        IF s.ok /\ s.dots = 3 THEN Shifted(s.result, s.octet) ELSE Zero
    BY Zenon, <1>1, <1>8 DEF IPv4StrToUint32
<1>10. ASSUME Hopeless(t), IPv4StrToUint32(t) = Zero
       PROVE  /\ \A i, j, k \in Dots(t) :
                   Quad(t, i, j, k) => IPv4StrToUint32(t) = Numbers(t, i, j, k)
              /\ Hopeless(t) => IPv4StrToUint32(t) = Zero
    BY Zenon, <1>10 DEF Hopeless
<1>11. CASE ~s.ok
  <2>1. Hopeless(t)
      BY Zenon, <1>8, <1>11 DEF Right
  <2>. QED BY Zenon, <1>9, <1>10, <1>11, <2>1
<1>12. DotsTo(t, m) = Dots(t)
    BY SMTT(30), <1>1 DEF DotsTo, Dots
<1>13. CASE s.ok
  <2>1. s \in States /\ \A k \in 1..m : t[k] # Other
      BY Zenon, <1>8, <1>13 DEF Right
  <2>2. PICK e : Follows(t, m, s, e)
      BY Zenon, <1>8, <1>13 DEF Right
  <2>3. e \in 0..m /\ s.octet = Number(t, e, m + 1)
      BY Zenon, <2>2 DEF Follows
  <2>4. PICK d \in 0..3 : d = s.dots
      BY Zenon, <2>1 DEF States
  <2>5. PICK r \in Bytes : r = s.result
      BY Zenon, <2>1 DEF States
  <2>6. Cuts(t, m, d, r, e)
      BY Zenon, <2>2, <2>4, <2>5 DEF Follows
  <2>7. PICK o \in 0..255 : o = s.octet
      BY Zenon, <2>1 DEF States
  <2>8. CASE d # 3
    <3>1. \E a, b : DotsTo(t, m) \subseteq {a, b}
        BY Zenon, <2>6, <2>8 DEF Cuts
    <3>2. Hopeless(t)
        BY Zenon, <1>12, <3>1, FewHopeless
    <3>. QED BY Zenon, <1>9, <1>10, <2>4, <2>8, <3>2
  <2>9. CASE d = 3
    <3>1. PICK i \in Nat, j \in Nat :
            /\ i < j /\ j < e /\ DotsTo(t, m) = {i, j, e}
            /\ r = <<0, Number(t, 0, i), Number(t, i, j), Number(t, j, e)>>
        BY <2>6, <2>9 DEF Cuts
    <3>2. o = Number(t, e, Len(t) + 1)
        BY Zenon, <1>1, <2>3, <2>7
    <3>3. Shifted(r, o) = Numbers(t, i, j, e)
        BY <3>1, <3>2 DEF Shifted, Numbers
    <3>4. IPv4StrToUint32(t) = Numbers(t, i, j, e)
        BY Zenon, <1>9, <1>13, <2>4, <2>5, <2>7, <2>9, <3>3
    <3>5. Dots(t) = {i, j, e} /\ i < j /\ j < e
        BY Zenon, <1>12, <3>1
    <3>6. e \in Nat
        BY <2>3
    <3>7. ASSUME NEW a \in Dots(t), NEW b \in Dots(t), NEW c \in Dots(t),
                 Quad(t, a, b, c)
          PROVE  IPv4StrToUint32(t) = Numbers(t, a, b, c)
      <4>1. Dots(t) = {a, b, c} /\ a < b /\ b < c
          BY Zenon, <3>7 DEF Quad
      <4>2. a \in Nat /\ b \in Nat /\ c \in Nat
          BY DEF Dots
      <4>3. /\ a \in {i, j, e} /\ b \in {i, j, e} /\ c \in {i, j, e}
            /\ i \in {a, b, c} /\ j \in {a, b, c} /\ e \in {a, b, c}
          BY Zenon, <3>5, <4>1
      <4>4. a = i /\ b = j /\ c = e
          BY <3>5, <3>6, <4>1, <4>2, <4>3
      <4>. QED BY Zenon, <3>4, <4>4
    <3>8. Quad(t, i, j, e)
      <4>1. Other \notin Range(t)
        <5>1. DOMAIN t = 1..m
            BY <1>1
        <5>. QED BY Zenon, <2>1, <5>1 DEF Range
      <4>2. Shifted(r, o) \in Bytes
          BY Zenon, ShiftedTyped
      <4>3. \A n \in 1..4 : Numbers(t, i, j, e)[n] <= 255
        <5>1. PICK q \in Bytes : q = Numbers(t, i, j, e)
            BY Zenon, <3>3, <4>2
        <5>2. All(q, 4, 0..255)
          <6>1. q \in Seq(0..255) /\ Len(q) = 4 /\ 4 \in Nat
              BY DEF Bytes
          <6>. QED BY Zenon, <6>1, ElementsOf
        <5>3. ASSUME NEW n \in 1..4 PROVE q[n] <= 255
          <6>1. PICK x \in 0..255 : x = q[n]
              BY Zenon, <5>2 DEF All
          <6>2. x <= 255
              OBVIOUS
          <6>. QED BY Zenon, <6>1, <6>2
        <5>. QED BY Zenon, <5>1, <5>3
      <4>. QED BY Zenon, <3>5, <4>1, <4>3 DEF Quad
    <3>9. ~Hopeless(t)
        BY Zenon, <3>5, <3>8 DEF Hopeless
    <3>. QED BY Zenon, <3>7, <3>9
  <2>. QED BY Zenon, <2>8, <2>9
<1>. QED BY Zenon, <1>11, <1>13

\* For texts of every length, IPv4StrToUint32 gives exactly the bytes that the
\* four parts of a dotted text are written for, and 0 for every text that is
\* not four numbers up to 255 with dots between them; what it gives when some
\* of the four are empty is left open.
THEOREM ParsesExactlyCorrect == TextSpec => []ParsesExactly
<1>1. TextSpec => []TextChars
    BY TextCharsCorrect
<1>2. TextChars => ParsesExactly
    BY Zenon, ReadsExactly DEF ParsesExactly, TextChars, Hopeless
<1>. QED BY <1>1, <1>2, PTL
=============================================================================
