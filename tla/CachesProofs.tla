---------------------------- MODULE CachesProofs ----------------------------
(***************************************************************************)
(* Proofs about Caches: the type invariant and NoForgottenInvalidation, for  *)
(* any number of requests, workloads and versions.  The programs of the       *)
(* handlers are used through one predicate, sound, that says what they have    *)
(* in common and that each of the 29 is shown to satisfy.                     *)
(***************************************************************************)
EXTENDS Caches, SequenceTheorems, TLAPS

-----------------------------------------------------------------------------
(* The keys, and sequences put together from two tuples. *)

LEMMA KeysAre ==
  Keys = {"session", "user", "tenant", "property", "roomTemplates", "roomTemplateDetail",
          "occupancy"}
BY DEF Keys, Keeps

LEMMA KeepsTables == \A key \in Keys : Keeps[key] \subseteq Tables
BY KeysAre DEF Keeps, Tables

\* Which keys each table is in.
LEMMA KeptIn ==
  \A key \in Keys :
    /\ "profile" \in Keeps[key] <=> key \in {"session", "user"}
    /\ "avatar" \in Keeps[key] <=> key = "user"
    /\ "phone" \in Keeps[key] <=> key = "user"
    /\ "tenant" \in Keeps[key] <=> key = "tenant"
    /\ "property" \in Keeps[key] <=> key = "property"
    /\ "template" \in Keeps[key] <=> key \in {"roomTemplates", "roomTemplateDetail"}
    /\ "room" \in Keeps[key] <=> key = "roomTemplateDetail"
    /\ "booking" \in Keeps[key] <=> key = "occupancy"
BY KeysAre DEF Keeps

LEMMA OneAndTwo ==
  ASSUME NEW a, NEW b, NEW c
  PROVE  <<a>> \o <<b, c>> = <<a, b, c>>
<1> DEFINE S == {a, b, c}
           s == <<a>> \o <<b, c>>
           t == <<a, b, c>>
<1>1. /\ <<a>> \in Seq(S) /\ Len(<<a>>) = 1
      /\ <<b, c>> \in Seq(S) /\ Len(<<b, c>>) = 2
      /\ t \in Seq(S) /\ Len(t) = 3
  OBVIOUS
<1>2. /\ s \in Seq(S)
      /\ Len(s) = 3
      /\ \A i \in 1 .. 3 : s[i] = IF i <= 1 THEN <<a>>[i] ELSE <<b, c>>[i - 1]
  BY <1>1, ConcatProperties
<1>3. s[1] = a /\ s[2] = b /\ s[3] = c
  BY <1>2
<1>4. t[1] = a /\ t[2] = b /\ t[3] = c
  OBVIOUS
<1>5. Len(s) = Len(t) /\ \A i \in 1 .. Len(s) : s[i] = t[i]
  <2> HIDE DEF s, t
  <2> QED
    BY <1>1, <1>2, <1>3, <1>4
<1> HIDE DEF s, t, S
<1>6. s = t
  BY <1>1, <1>2, <1>5, SeqEqual
<1> QED
  BY <1>6 DEF s, t

LEMMA TwoAndTwo ==
  ASSUME NEW a, NEW b, NEW c, NEW d
  PROVE  <<a, b>> \o <<c, d>> = <<a, b, c, d>>
<1> DEFINE S == {a, b, c, d}
           s == <<a, b>> \o <<c, d>>
           t == <<a, b, c, d>>
<1>1. /\ <<a, b>> \in Seq(S) /\ Len(<<a, b>>) = 2
      /\ <<c, d>> \in Seq(S) /\ Len(<<c, d>>) = 2
      /\ t \in Seq(S) /\ Len(t) = 4
  OBVIOUS
<1>2. /\ s \in Seq(S)
      /\ Len(s) = 4
      /\ \A i \in 1 .. 4 : s[i] = IF i <= 2 THEN <<a, b>>[i] ELSE <<c, d>>[i - 2]
  BY <1>1, ConcatProperties
<1>3. s[1] = a /\ s[2] = b /\ s[3] = c /\ s[4] = d
  BY <1>2
<1>4. t[1] = a /\ t[2] = b /\ t[3] = c /\ t[4] = d
  OBVIOUS
<1>5. Len(s) = Len(t) /\ \A i \in 1 .. Len(s) : s[i] = t[i]
  <2> HIDE DEF s, t
  <2> QED
    BY <1>1, <1>2, <1>3, <1>4
<1> HIDE DEF s, t, S
<1>6. s = t
  BY <1>1, <1>2, <1>5, SeqEqual
<1> QED
  BY <1>6 DEF s, t

-----------------------------------------------------------------------------
(* What every handler's program keeps to. *)

Refreshing == {"set", "del", "delScanned"}

\* A hit can only be the first answer, what is set or deleted by a scan was read or
\* scanned in the step before, a row that is set was written before, and a write goes
\* before a step for each key that it makes outdated, but for those the handler forgets.
soundAt(h, p, i) ==
  /\ p[i].op # "write" => p[i].key \in Keys
  /\ p[i].op = "get" => i = 1
  /\ p[i].op = "delScanned" => i > 1 /\ p[i - 1].op = "scan" /\ p[i - 1].key = p[i].key
  /\ p[i].op = "set" /\ p[i].of # "row" =>
       i > 1 /\ p[i - 1].op = "read" /\ p[i - 1].key = p[i].key
  /\ p[i].op = "set" /\ p[i].of = "row" => \E j \in 1 .. i - 1 : p[j].op = "write"
  /\ p[i].op = "write" =>
       \A key \in Keys : p[i].tables \cap Keeps[key] # {} =>
         \/ key \in forgets(h)
         \/ \E j \in i + 1 .. Len(p) : p[j].op \in Refreshing /\ p[j].key = key

sound(h, p) ==
  /\ Len(p) \in Nat \ {0}
  /\ \A i \in 1 .. Len(p) : soundAt(h, p, i)

\* One step of a program at a time.
LEMMA GetFirst ==
  ASSUME NEW h, NEW p, NEW key \in Keys, p[1] = Get(key)
  PROVE  soundAt(h, p, 1)
BY DEF soundAt, Get

LEMMA PlainAt ==
  ASSUME NEW h, NEW p, NEW i, NEW key \in Keys, p[i] \in {Read(key), Del(key), Scan(key)}
  PROVE  soundAt(h, p, i)
<1>1. p[i].key = key /\ p[i].op \in {"read", "del", "scan"}
  BY DEF Read, Del, Scan
<1> QED
  BY <1>1 DEF soundAt

LEMMA PutAt ==
  ASSUME NEW h, NEW p, NEW i, NEW key \in Keys, p[i] = Put(key),
         NEW j \in 1 .. i - 1, NEW tables, p[j] = Write(tables)
  PROVE  soundAt(h, p, i)
<1>1. p[i].key = key /\ p[i].op = "set" /\ p[i].of = "row" /\ p[j].op = "write"
  BY DEF Put, Write
<1> QED
  BY <1>1 DEF soundAt

LEMMA FillAt ==
  ASSUME NEW h, NEW p, NEW i \in Nat, i > 1, NEW key \in Keys,
         p[i - 1] = Read(key), p[i] = Fill(key)
  PROVE  soundAt(h, p, i)
<1>1. /\ p[i].key = key /\ p[i].op = "set" /\ p[i].of = "seen"
      /\ p[i - 1].op = "read" /\ p[i - 1].key = key
  BY DEF Fill, Read
<1> QED
  BY <1>1 DEF soundAt

LEMMA DelScannedAt ==
  ASSUME NEW h, NEW p, NEW i \in Nat, i > 1, NEW key \in Keys,
         p[i - 1] = Scan(key), p[i] = DelScanned(key)
  PROVE  soundAt(h, p, i)
<1>1. /\ p[i].key = key /\ p[i].op = "delScanned"
      /\ p[i - 1].op = "scan" /\ p[i - 1].key = key
  BY DEF DelScanned, Scan
<1> QED
  BY <1>1 DEF soundAt

\* A write of tables makes no key outdated but keys and those h forgets.
covers(keys, h, tables) ==
  \A key \in Keys : tables \cap Keeps[key] # {} => key \in keys \cup forgets(h)

\* The steps after i set or delete keys.
refreshes(p, i, keys) ==
  \A key \in keys : \E j \in i + 1 .. Len(p) : p[j].op \in Refreshing /\ p[j].key = key

LEMMA WriteAt ==
  ASSUME NEW h, NEW p, NEW i, NEW tables, NEW keys, p[i] = Write(tables),
         covers(keys, h, tables), refreshes(p, i, keys)
  PROVE  soundAt(h, p, i)
<1>1. p[i].op = "write" /\ p[i].tables = tables
  BY DEF Write
<1> QED
  BY <1>1 DEF soundAt, covers, refreshes

LEMMA ReadThroughSound ==
  ASSUME NEW h, NEW key \in Keys
  PROVE  sound(h, readThrough(key))
<1> DEFINE p == readThrough(key)
<1>1. Len(p) = 3 /\ p[1] = Get(key) /\ p[2] = Read(key) /\ p[3] = Fill(key)
  BY DEF readThrough
<1> HIDE DEF p
<1>2. soundAt(h, p, 1)
  BY <1>1, GetFirst
<1>3. soundAt(h, p, 2)
  BY <1>1, PlainAt
<1>4. p[3 - 1] = Read(key)
  BY <1>1
<1>5. soundAt(h, p, 3)
  BY <1>1, <1>4, FillAt
<1> QED
  BY <1>1, <1>2, <1>3, <1>5 DEF sound, p

\* Writes, and what is kept up to date after them, one way or the other.
LEMMA WritePutSound ==
  ASSUME NEW h, NEW key \in Keys, NEW t, \A k \in Keys : t \in Keeps[k] <=> k = key
  PROVE  sound(h, <<Write({t}), Put(key)>>)
<1> DEFINE p == <<Write({t}), Put(key)>>
<1>1. Len(p) = 2 /\ p[1] = Write({t}) /\ p[2] = Put(key)
  OBVIOUS
<1> HIDE DEF p
<1>2. covers({key}, h, {t})
  BY DEF covers
<1>3. refreshes(p, 1, {key})
  BY <1>1 DEF refreshes, Refreshing, Put, Del
<1>4. soundAt(h, p, 1)
  BY <1>1, <1>2, <1>3, WriteAt
<1>5. 1 \in 1 .. 2 - 1
  OBVIOUS
<1>6. soundAt(h, p, 2)
  BY <1>1, <1>5, PutAt
<1>7. \A i \in 1 .. 2 : soundAt(h, p, i)
  BY <1>4, <1>6
<1> QED
  BY <1>1, <1>7 DEF sound, p

LEMMA WriteDelSound ==
  ASSUME NEW h, NEW key \in Keys, NEW t, \A k \in Keys : t \in Keeps[k] <=> k = key
  PROVE  sound(h, <<Write({t}), Del(key)>>)
<1> DEFINE p == <<Write({t}), Del(key)>>
<1>1. Len(p) = 2 /\ p[1] = Write({t}) /\ p[2] = Del(key)
  OBVIOUS
<1> HIDE DEF p
<1>2. covers({key}, h, {t})
  BY DEF covers
<1>3. refreshes(p, 1, {key})
  BY <1>1 DEF refreshes, Refreshing, Put, Del
<1>4. soundAt(h, p, 1)
  BY <1>1, <1>2, <1>3, WriteAt
<1>5. soundAt(h, p, 2)
  BY <1>1, PlainAt
<1>6. \A i \in 1 .. 2 : soundAt(h, p, i)
  BY <1>4, <1>5
<1> QED
  BY <1>1, <1>6 DEF sound, p

LEMMA WriteForgottenSound ==
  ASSUME NEW h, "occupancy" \in forgets(h)
  PROVE  sound(h, <<Write({"booking"})>>)
<1> DEFINE p == <<Write({"booking"})>>
<1>1. Len(p) = 1 /\ p[1] = Write({"booking"})
  OBVIOUS
<1> HIDE DEF p
<1>2. covers({}, h, {"booking"})
  BY KeptIn DEF covers
<1>3. refreshes(p, 1, {})
  BY DEF refreshes
<1>4. soundAt(h, p, 1)
  BY <1>1, <1>2, <1>3, WriteAt
<1> QED
  BY <1>1, <1>4 DEF sound, p

LEMMA CreateTenantSound ==
  ASSUME NEW h
  PROVE  sound(h, <<Write({"profile"}), Put("session"), Write({"tenant"}),
            Read("user"), Fill("user"), Put("tenant")>>)
<1> DEFINE p == <<Write({"profile"}), Put("session"), Write({"tenant"}), Read("user"),
          Fill("user"), Put("tenant")>>
<1>1. /\ Len(p) = 6
      /\ p[1] = Write({"profile"})
      /\ p[2] = Put("session")
      /\ p[3] = Write({"tenant"})
      /\ p[4] = Read("user")
      /\ p[5] = Fill("user")
      /\ p[6] = Put("tenant")
  OBVIOUS
<1> HIDE DEF p
<1>2. covers({"session", "user"}, h, {"profile"})
  BY KeptIn DEF covers
<1>3. refreshes(p, 1, {"session", "user"})
  <2>1. /\ p[2].op \in Refreshing /\ p[2].key = "session"
       /\ p[5].op \in Refreshing /\ p[5].key = "user"
    BY <1>1 DEF Refreshing, Put, Fill
  <2>2. 2 \in 1 + 1 .. Len(p) /\ 5 \in 1 + 1 .. Len(p)
    BY <1>1
  <2> QED
    BY <2>1, <2>2 DEF refreshes
<1>4. soundAt(h, p, 1)
  BY <1>1, <1>2, <1>3, WriteAt
<1>5. 1 \in 1 .. 2 - 1
  OBVIOUS
<1>6. soundAt(h, p, 2)
  BY <1>1, <1>5, KeysAre, PutAt
<1>7. covers({"tenant"}, h, {"tenant"})
  BY KeptIn DEF covers
<1>8. refreshes(p, 3, {"tenant"})
  <2>1. p[6].op \in Refreshing /\ p[6].key = "tenant"
    BY <1>1 DEF Refreshing, Put
  <2>2. 6 \in 3 + 1 .. Len(p)
    BY <1>1
  <2> QED
    BY <2>1, <2>2 DEF refreshes
<1>9. soundAt(h, p, 3)
  BY <1>1, <1>7, <1>8, WriteAt
<1>10. soundAt(h, p, 4)
  BY <1>1, KeysAre, PlainAt
<1>11. p[5 - 1] = Read("user")
  BY <1>1
<1>12. soundAt(h, p, 5)
  BY <1>1, <1>11, KeysAre, FillAt
<1>13. 3 \in 1 .. 6 - 1
  OBVIOUS
<1>14. soundAt(h, p, 6)
  BY <1>1, <1>13, KeysAre, PutAt
<1>15. \A i \in 1 .. 6 : soundAt(h, p, i)
  BY <1>4, <1>6, <1>9, <1>10, <1>12, <1>14
<1> QED
  BY <1>1, <1>15 DEF sound, p

LEMMA ClearTemplatesSound ==
  ASSUME NEW h
  PROVE  sound(h, <<Write({"template"}), Del("roomTemplates"),
            Del("roomTemplateDetail")>>)
<1> DEFINE p == <<Write({"template"}), Del("roomTemplates"), Del("roomTemplateDetail")>>
<1>1. /\ Len(p) = 3
      /\ p[1] = Write({"template"})
      /\ p[2] = Del("roomTemplates")
      /\ p[3] = Del("roomTemplateDetail")
  OBVIOUS
<1> HIDE DEF p
<1>2. covers({"roomTemplates", "roomTemplateDetail"}, h, {"template"})
  BY KeptIn DEF covers
<1>3. refreshes(p, 1, {"roomTemplates", "roomTemplateDetail"})
  <2>1. /\ p[2].op \in Refreshing /\ p[2].key = "roomTemplates"
       /\ p[3].op \in Refreshing /\ p[3].key = "roomTemplateDetail"
    BY <1>1 DEF Refreshing, Del
  <2>2. 2 \in 1 + 1 .. Len(p) /\ 3 \in 1 + 1 .. Len(p)
    BY <1>1
  <2> QED
    BY <2>1, <2>2 DEF refreshes
<1>4. soundAt(h, p, 1)
  BY <1>1, <1>2, <1>3, WriteAt
<1>5. soundAt(h, p, 2)
  BY <1>1, KeysAre, PlainAt
<1>6. soundAt(h, p, 3)
  BY <1>1, KeysAre, PlainAt
<1>7. \A i \in 1 .. 3 : soundAt(h, p, i)
  BY <1>4, <1>5, <1>6
<1> QED
  BY <1>1, <1>7 DEF sound, p

LEMMA UpdateTemplateSound ==
  ASSUME NEW h
  PROVE  sound(h, <<Write({"template"}), Write({"room"}), Del("roomTemplates"),
            Del("roomTemplateDetail")>>)
<1> DEFINE p == <<Write({"template"}), Write({"room"}), Del("roomTemplates"),
          Del("roomTemplateDetail")>>
<1>1. /\ Len(p) = 4
      /\ p[1] = Write({"template"})
      /\ p[2] = Write({"room"})
      /\ p[3] = Del("roomTemplates")
      /\ p[4] = Del("roomTemplateDetail")
  OBVIOUS
<1> HIDE DEF p
<1>2. covers({"roomTemplates", "roomTemplateDetail"}, h, {"template"})
  BY KeptIn DEF covers
<1>3. refreshes(p, 1, {"roomTemplates", "roomTemplateDetail"})
  <2>1. /\ p[3].op \in Refreshing /\ p[3].key = "roomTemplates"
       /\ p[4].op \in Refreshing /\ p[4].key = "roomTemplateDetail"
    BY <1>1 DEF Refreshing, Del
  <2>2. 3 \in 1 + 1 .. Len(p) /\ 4 \in 1 + 1 .. Len(p)
    BY <1>1
  <2> QED
    BY <2>1, <2>2 DEF refreshes
<1>4. soundAt(h, p, 1)
  BY <1>1, <1>2, <1>3, WriteAt
<1>5. covers({"roomTemplateDetail"}, h, {"room"})
  BY KeptIn DEF covers
<1>6. refreshes(p, 2, {"roomTemplateDetail"})
  <2>1. p[4].op \in Refreshing /\ p[4].key = "roomTemplateDetail"
    BY <1>1 DEF Refreshing, Del
  <2>2. 4 \in 2 + 1 .. Len(p)
    BY <1>1
  <2> QED
    BY <2>1, <2>2 DEF refreshes
<1>7. soundAt(h, p, 2)
  BY <1>1, <1>5, <1>6, WriteAt
<1>8. soundAt(h, p, 3)
  BY <1>1, KeysAre, PlainAt
<1>9. soundAt(h, p, 4)
  BY <1>1, KeysAre, PlainAt
<1>10. \A i \in 1 .. 4 : soundAt(h, p, i)
  BY <1>4, <1>7, <1>8, <1>9
<1> QED
  BY <1>1, <1>10 DEF sound, p

LEMMA DeleteTemplateSound ==
  sound("deleteRoomTemplate", <<Write({"booking"}), Write({"template"}),
            Del("roomTemplates"), Del("roomTemplateDetail")>>)
<1> DEFINE p == <<Write({"booking"}), Write({"template"}), Del("roomTemplates"),
          Del("roomTemplateDetail")>>
<1>1. /\ Len(p) = 4
      /\ p[1] = Write({"booking"})
      /\ p[2] = Write({"template"})
      /\ p[3] = Del("roomTemplates")
      /\ p[4] = Del("roomTemplateDetail")
  OBVIOUS
<1> HIDE DEF p
<1>2. covers({}, "deleteRoomTemplate", {"booking"})
  BY KeptIn DEF covers, forgets
<1>3. refreshes(p, 1, {})
  BY DEF refreshes
<1>4. soundAt("deleteRoomTemplate", p, 1)
  BY <1>1, <1>2, <1>3, WriteAt
<1>5. covers({"roomTemplates", "roomTemplateDetail"}, "deleteRoomTemplate",
     {"template"})
  BY KeptIn DEF covers, forgets
<1>6. refreshes(p, 2, {"roomTemplates", "roomTemplateDetail"})
  <2>1. /\ p[3].op \in Refreshing /\ p[3].key = "roomTemplates"
       /\ p[4].op \in Refreshing /\ p[4].key = "roomTemplateDetail"
    BY <1>1 DEF Refreshing, Del
  <2>2. 3 \in 2 + 1 .. Len(p) /\ 4 \in 2 + 1 .. Len(p)
    BY <1>1
  <2> QED
    BY <2>1, <2>2 DEF refreshes
<1>7. soundAt("deleteRoomTemplate", p, 2)
  BY <1>1, <1>5, <1>6, WriteAt
<1>8. soundAt("deleteRoomTemplate", p, 3)
  BY <1>1, KeysAre, PlainAt
<1>9. soundAt("deleteRoomTemplate", p, 4)
  BY <1>1, KeysAre, PlainAt
<1>10. \A i \in 1 .. 4 : soundAt("deleteRoomTemplate", p, i)
  BY <1>4, <1>7, <1>8, <1>9
<1> QED
  BY <1>1, <1>10 DEF sound, p

LEMMA LogoutSound ==
  ASSUME NEW h
  PROVE  sound(h, <<Del("user"), Del("session")>>)
<1> DEFINE p == <<Del("user"), Del("session")>>
<1>1. /\ Len(p) = 2
      /\ p[1] = Del("user")
      /\ p[2] = Del("session")
  OBVIOUS
<1> HIDE DEF p
<1>2. soundAt(h, p, 1)
  BY <1>1, KeysAre, PlainAt
<1>3. soundAt(h, p, 2)
  BY <1>1, KeysAre, PlainAt
<1>4. \A i \in 1 .. 2 : soundAt(h, p, i)
  BY <1>2, <1>3
<1> QED
  BY <1>1, <1>4 DEF sound, p

LEMMA UpdateUserSound ==
  ASSUME NEW h
  PROVE  sound(h, <<Write({"profile", "phone"}), Put("user"), Put("session")>>)
<1> DEFINE p == <<Write({"profile", "phone"}), Put("user"), Put("session")>>
<1>1. /\ Len(p) = 3
      /\ p[1] = Write({"profile", "phone"})
      /\ p[2] = Put("user")
      /\ p[3] = Put("session")
  OBVIOUS
<1> HIDE DEF p
<1>2. covers({"session", "user"}, h, {"profile", "phone"})
  BY KeptIn DEF covers
<1>3. refreshes(p, 1, {"session", "user"})
  <2>1. /\ p[3].op \in Refreshing /\ p[3].key = "session"
       /\ p[2].op \in Refreshing /\ p[2].key = "user"
    BY <1>1 DEF Refreshing, Put
  <2>2. 3 \in 1 + 1 .. Len(p) /\ 2 \in 1 + 1 .. Len(p)
    BY <1>1
  <2> QED
    BY <2>1, <2>2 DEF refreshes
<1>4. soundAt(h, p, 1)
  BY <1>1, <1>2, <1>3, WriteAt
<1>5. 1 \in 1 .. 2 - 1
  OBVIOUS
<1>6. soundAt(h, p, 2)
  BY <1>1, <1>5, KeysAre, PutAt
<1>7. 1 \in 1 .. 3 - 1
  OBVIOUS
<1>8. soundAt(h, p, 3)
  BY <1>1, <1>7, KeysAre, PutAt
<1>9. \A i \in 1 .. 3 : soundAt(h, p, i)
  BY <1>4, <1>6, <1>8
<1> QED
  BY <1>1, <1>9 DEF sound, p

\* The session is what loginUser forgets.
LEMMA LoginUserSound ==
  sound("loginUser", <<Get("user"), Write({"profile"}), Put("user")>>)
<1> DEFINE p == <<Get("user"), Write({"profile"}), Put("user")>>
<1>1. /\ Len(p) = 3
      /\ p[1] = Get("user")
      /\ p[2] = Write({"profile"})
      /\ p[3] = Put("user")
  OBVIOUS
<1> HIDE DEF p
<1>2. soundAt("loginUser", p, 1)
  BY <1>1, KeysAre, GetFirst
<1>3. covers({"user"}, "loginUser", {"profile"})
  BY KeptIn DEF covers, forgets
<1>4. refreshes(p, 2, {"user"})
  <2>1. p[3].op \in Refreshing /\ p[3].key = "user"
    BY <1>1 DEF Refreshing, Put
  <2>2. 3 \in 2 + 1 .. Len(p)
    BY <1>1
  <2> QED
    BY <2>1, <2>2 DEF refreshes
<1>5. soundAt("loginUser", p, 2)
  BY <1>1, <1>3, <1>4, WriteAt
<1>6. 2 \in 1 .. 3 - 1
  OBVIOUS
<1>7. soundAt("loginUser", p, 3)
  BY <1>1, <1>6, KeysAre, PutAt
<1>8. \A i \in 1 .. 3 : soundAt("loginUser", p, i)
  BY <1>2, <1>5, <1>7
<1> QED
  BY <1>1, <1>8 DEF sound, p

LEMMA DeleteUserSound ==
  ASSUME NEW h
  PROVE  sound(h, <<Write({"profile"}), Del("user"), Del("session")>>)
<1> DEFINE p == <<Write({"profile"}), Del("user"), Del("session")>>
<1>1. /\ Len(p) = 3
      /\ p[1] = Write({"profile"})
      /\ p[2] = Del("user")
      /\ p[3] = Del("session")
  OBVIOUS
<1> HIDE DEF p
<1>2. covers({"session", "user"}, h, {"profile"})
  BY KeptIn DEF covers
<1>3. refreshes(p, 1, {"session", "user"})
  <2>1. /\ p[3].op \in Refreshing /\ p[3].key = "session"
       /\ p[2].op \in Refreshing /\ p[2].key = "user"
    BY <1>1 DEF Refreshing, Del
  <2>2. 3 \in 1 + 1 .. Len(p) /\ 2 \in 1 + 1 .. Len(p)
    BY <1>1
  <2> QED
    BY <2>1, <2>2 DEF refreshes
<1>4. soundAt(h, p, 1)
  BY <1>1, <1>2, <1>3, WriteAt
<1>5. soundAt(h, p, 2)
  BY <1>1, KeysAre, PlainAt
<1>6. soundAt(h, p, 3)
  BY <1>1, KeysAre, PlainAt
<1>7. \A i \in 1 .. 3 : soundAt(h, p, i)
  BY <1>4, <1>5, <1>6
<1> QED
  BY <1>1, <1>7 DEF sound, p

LEMMA ClearOccupancySound ==
  ASSUME NEW h
  PROVE  sound(h, <<Write({"booking"}), Scan("occupancy"), DelScanned("occupancy")>>)
<1> DEFINE p == <<Write({"booking"}), Scan("occupancy"), DelScanned("occupancy")>>
<1>1. /\ Len(p) = 3
      /\ p[1] = Write({"booking"})
      /\ p[2] = Scan("occupancy")
      /\ p[3] = DelScanned("occupancy")
  OBVIOUS
<1> HIDE DEF p
<1>2. covers({"occupancy"}, h, {"booking"})
  BY KeptIn DEF covers
<1>3. refreshes(p, 1, {"occupancy"})
  <2>1. p[3].op \in Refreshing /\ p[3].key = "occupancy"
    BY <1>1 DEF Refreshing, DelScanned
  <2>2. 3 \in 1 + 1 .. Len(p)
    BY <1>1
  <2> QED
    BY <2>1, <2>2 DEF refreshes
<1>4. soundAt(h, p, 1)
  BY <1>1, <1>2, <1>3, WriteAt
<1>5. soundAt(h, p, 2)
  BY <1>1, KeysAre, PlainAt
<1>6. p[3 - 1] = Scan("occupancy")
  BY <1>1
<1>7. soundAt(h, p, 3)
  BY <1>1, <1>6, KeysAre, DelScannedAt
<1>8. \A i \in 1 .. 3 : soundAt(h, p, i)
  BY <1>4, <1>5, <1>7
<1> QED
  BY <1>1, <1>8 DEF sound, p

LEMMA CreateBookingSound ==
  sound("createBooking", <<Write({"booking", "phone"}), Del("roomTemplateDetail"),
            Scan("occupancy"), DelScanned("occupancy")>>)
<1> DEFINE p == <<Write({"booking", "phone"}), Del("roomTemplateDetail"),
          Scan("occupancy"), DelScanned("occupancy")>>
<1>1. /\ Len(p) = 4
      /\ p[1] = Write({"booking", "phone"})
      /\ p[2] = Del("roomTemplateDetail")
      /\ p[3] = Scan("occupancy")
      /\ p[4] = DelScanned("occupancy")
  OBVIOUS
<1> HIDE DEF p
<1>2. covers({"occupancy"}, "createBooking", {"booking", "phone"})
  BY KeptIn DEF covers, forgets
<1>3. refreshes(p, 1, {"occupancy"})
  <2>1. p[4].op \in Refreshing /\ p[4].key = "occupancy"
    BY <1>1 DEF Refreshing, DelScanned
  <2>2. 4 \in 1 + 1 .. Len(p)
    BY <1>1
  <2> QED
    BY <2>1, <2>2 DEF refreshes
<1>4. soundAt("createBooking", p, 1)
  BY <1>1, <1>2, <1>3, WriteAt
<1>5. soundAt("createBooking", p, 2)
  BY <1>1, KeysAre, PlainAt
<1>6. soundAt("createBooking", p, 3)
  BY <1>1, KeysAre, PlainAt
<1>7. p[4 - 1] = Scan("occupancy")
  BY <1>1
<1>8. soundAt("createBooking", p, 4)
  BY <1>1, <1>7, KeysAre, DelScannedAt
<1>9. \A i \in 1 .. 4 : soundAt("createBooking", p, i)
  BY <1>4, <1>5, <1>6, <1>8
<1> QED
  BY <1>1, <1>9 DEF sound, p

LEMMA HandlersAre ==
  Handlers = {
    "getPropertyDetail", "createProperty", "updateProperty", "deleteProperty",
    "getRoomTemplates", "getRoomTemplateDetail", "createRoomTemplate",
    "updateRoomTemplate", "deleteRoomTemplate", "sessionMiddleware", "authBridge",
    "logout", "loginUser", "updateUserProfile", "updateAvatar", "deleteUser",
    "createTenant", "getTenantDetail", "updateTenant", "updateTenantProfile",
    "getOccupancy", "cancelBooking", "settleRefund", "createBooking",
    "updateUserBooking", "verifyRazorpayPayment", "handleOrderPaid",
    "handlePaymentFailed", "invoiceWorker"}
BY DEF Handlers, Program

\* The programs of the property controller.
LEMMA PropertyProgramsSound ==
  \A h \in {"getPropertyDetail", "createProperty", "updateProperty", "deleteProperty"} :
    sound(h, Program[h])
<1>1. /\ Program["getPropertyDetail"] = readThrough("property")
      /\ Program["createProperty"] = <<Write({"property"}), Put("property")>>
      /\ Program["updateProperty"] = <<Write({"property"}), Put("property")>>
      /\ Program["deleteProperty"] = <<Write({"property"}), Del("property")>>
  BY DEF Program, getPropertyDetail, createProperty, updateProperty, deleteProperty
<1>2. /\ "property" \in Keys
      /\ \A key \in Keys : "property" \in Keeps[key] <=> key = "property"
  BY KeysAre, KeptIn
<1>3. \A h : sound(h, readThrough("property"))
  BY <1>2, ReadThroughSound
<1>4. \A h : /\ sound(h, <<Write({"property"}), Put("property")>>)
             /\ sound(h, <<Write({"property"}), Del("property")>>)
  BY <1>2, WritePutSound, WriteDelSound
<1> QED
  BY <1>1, <1>3, <1>4

\* Those of the tenant controller.
LEMMA TenantProgramsSound ==
  \A h \in {"getTenantDetail", "updateTenant", "updateTenantProfile", "createTenant"} :
    sound(h, Program[h])
<1>1. /\ Program["getTenantDetail"] = readThrough("tenant")
      /\ Program["updateTenant"] = <<Write({"tenant"}), Put("tenant")>>
      /\ Program["updateTenantProfile"] = <<Write({"tenant"}), Del("tenant")>>
  BY DEF Program, getTenantDetail, updateTenant, updateTenantProfile
<1>2. Program["createTenant"] =
        <<Write({"profile"}), Put("session"), Write({"tenant"}), Read("user"), Fill("user"),
          Put("tenant")>>
  BY DEF Program, createTenant
<1>3. /\ "tenant" \in Keys
      /\ \A key \in Keys : "tenant" \in Keeps[key] <=> key = "tenant"
  BY KeysAre, KeptIn
<1>4. \A h : sound(h, readThrough("tenant"))
  BY <1>3, ReadThroughSound
<1>5. \A h : /\ sound(h, <<Write({"tenant"}), Put("tenant")>>)
             /\ sound(h, <<Write({"tenant"}), Del("tenant")>>)
  BY <1>3, WritePutSound, WriteDelSound
<1>6. sound("createTenant", Program["createTenant"])
  BY <1>2, CreateTenantSound
<1> QED
  BY <1>1, <1>4, <1>5, <1>6

\* Those of the room template controller.
LEMMA TemplateProgramsSound ==
  \A h \in {"getRoomTemplates", "getRoomTemplateDetail", "createRoomTemplate",
            "updateRoomTemplate", "deleteRoomTemplate"} : sound(h, Program[h])
<1>1. /\ Program["getRoomTemplates"] = readThrough("roomTemplates")
      /\ Program["getRoomTemplateDetail"] = readThrough("roomTemplateDetail")
  BY DEF Program, getRoomTemplates, getRoomTemplateDetail
<1>2. \A h : sound(h, readThrough("roomTemplates")) /\ sound(h, readThrough("roomTemplateDetail"))
  BY KeysAre, ReadThroughSound
<1>3. Program["createRoomTemplate"] =
        <<Write({"template"}), Del("roomTemplates"), Del("roomTemplateDetail")>>
  BY OneAndTwo DEF Program, createRoomTemplate, clearTemplates
<1>4. Program["updateRoomTemplate"] =
        <<Write({"template"}), Write({"room"}), Del("roomTemplates"),
          Del("roomTemplateDetail")>>
  BY TwoAndTwo DEF Program, updateRoomTemplate, clearTemplates
<1>5. Program["deleteRoomTemplate"] =
        <<Write({"booking"}), Write({"template"}), Del("roomTemplates"),
          Del("roomTemplateDetail")>>
  BY TwoAndTwo DEF Program, deleteRoomTemplate, clearTemplates
<1>6. sound("createRoomTemplate", Program["createRoomTemplate"])
  BY <1>3, ClearTemplatesSound
<1>7. sound("updateRoomTemplate", Program["updateRoomTemplate"])
  BY <1>4, UpdateTemplateSound
<1>8. sound("deleteRoomTemplate", Program["deleteRoomTemplate"])
  BY <1>5, DeleteTemplateSound
<1> QED
  BY <1>1, <1>2, <1>6, <1>7, <1>8

\* Those of the accounts: middleware, auth and user controllers.
LEMMA AccountProgramsSound ==
  \A h \in {"sessionMiddleware", "authBridge", "logout", "loginUser", "updateUserProfile",
            "updateAvatar", "deleteUser"} : sound(h, Program[h])
<1>1. /\ Program["sessionMiddleware"] = readThrough("session")
      /\ Program["authBridge"] = readThrough("session")
      /\ Program["loginUser"] = <<Get("user"), Write({"profile"}), Put("user")>>
  BY DEF Program, sessionMiddleware, authBridge, loginUser
<1>2. \A h : sound(h, readThrough("session"))
  BY KeysAre, ReadThroughSound
<1>3. /\ Program["logout"] = <<Del("user"), Del("session")>>
      /\ Program["updateUserProfile"] =
           <<Write({"profile", "phone"}), Put("user"), Put("session")>>
      /\ Program["updateAvatar"] = <<Write({"avatar"}), Del("user")>>
  BY DEF Program, logout, updateUserProfile, updateAvatar
<1>4. Program["deleteUser"] = <<Write({"profile"}), Del("user"), Del("session")>>
  BY OneAndTwo DEF Program, deleteUser, logout
<1>5. sound("logout", Program["logout"])
  BY <1>3, LogoutSound
<1>6. sound("updateUserProfile", Program["updateUserProfile"])
  BY <1>3, UpdateUserSound
<1>7. "user" \in Keys /\ \A key \in Keys : "avatar" \in Keeps[key] <=> key = "user"
  BY KeysAre, KeptIn
<1>8. sound("updateAvatar", Program["updateAvatar"])
  BY <1>3, <1>7, WriteDelSound
<1>9. sound("deleteUser", Program["deleteUser"])
  BY <1>4, DeleteUserSound
<1> QED
  BY <1>1, <1>2, <1>5, <1>6, <1>8, <1>9, LoginUserSound

\* Those that change a booking, and the occupancy they make outdated.
LEMMA BookingProgramsSound ==
  \A h \in {"getOccupancy", "cancelBooking", "settleRefund", "createBooking",
            "updateUserBooking", "verifyRazorpayPayment", "handleOrderPaid",
            "handlePaymentFailed", "invoiceWorker"} : sound(h, Program[h])
<1>1. sound("getOccupancy", Program["getOccupancy"])
  <2>1. Program["getOccupancy"] = readThrough("occupancy")
    BY DEF Program, getOccupancy
  <2> QED
    BY <2>1, KeysAre, ReadThroughSound
<1>2. /\ Program["cancelBooking"] =
           <<Write({"booking"}), Scan("occupancy"), DelScanned("occupancy")>>
      /\ Program["settleRefund"] =
           <<Write({"booking"}), Scan("occupancy"), DelScanned("occupancy")>>
  BY OneAndTwo DEF Program, cancelBooking, settleRefund, deleteOccupancyCache
<1>3. \A h : sound(h, <<Write({"booking"}), Scan("occupancy"), DelScanned("occupancy")>>)
  BY ClearOccupancySound
<1>4. Program["createBooking"] =
        <<Write({"booking", "phone"}), Del("roomTemplateDetail"), Scan("occupancy"),
          DelScanned("occupancy")>>
  BY TwoAndTwo DEF Program, createBooking, deleteOccupancyCache
<1>5. sound("createBooking", Program["createBooking"])
  BY <1>4, CreateBookingSound
<1>6. ASSUME NEW h \in {"updateUserBooking", "verifyRazorpayPayment", "handleOrderPaid",
                        "handlePaymentFailed", "invoiceWorker"}
      PROVE  sound(h, Program[h])
  <2>1. Program[h] = <<Write({"booking"})>>
    BY DEF Program, updateUserBooking, verifyRazorpayPayment, handleOrderPaid,
           handlePaymentFailed, invoiceWorker
  <2>2. "occupancy" \in forgets(h)
    BY DEF forgets
  <2> QED
    BY <2>1, <2>2, WriteForgottenSound
<1> QED
  BY <1>1, <1>2, <1>3, <1>5, <1>6

LEMMA ProgramsSound == \A h \in Handlers : sound(h, Program[h])
BY HandlersAre, PropertyProgramsSound, TenantProgramsSound, TemplateProgramsSound,
   AccountProgramsSound, BookingProgramsSound
-----------------------------------------------------------------------------
(* The inductive invariant. *)

program(s) == Program[s.handler]

\* Some statement of the request has changed a table that key is made from.
hasWritten(s, key) ==
  \E i \in 1 .. s.at - 1 : /\ program(s)[i].op = "write"
                           /\ program(s)[i].tables \cap Keeps[key] # {}

willRefresh(s, key) ==
  \E i \in s.at .. Len(program(s)) :
    program(s)[i].op \in Refreshing /\ program(s)[i].key = key

\* The request will bring key up to date: when all that is left is to delete what its
\* scan found, the scan has found it.
answersFor(s, key) ==
  /\ s # NoRequest
  /\ hasWritten(s, key)
  /\ willRefresh(s, key)
  /\ program(s)[s.at].op = "delScanned" /\ program(s)[s.at].key = key => s.scanned

\* What is set from a read was read, and covers the key.
seenKnown(s) ==
  program(s)[s.at].op = "set" /\ program(s)[s.at].of # "row" =>
    s.seen \in [Keeps[program(s)[s.at].key] -> Nat]

\* After a write, its row covers each key that will be set from it.
rowKnown(s) ==
  \A i \in s.at .. Len(program(s)) :
    /\ program(s)[i].op = "set" /\ program(s)[i].of = "row"
    /\ \E j \in 1 .. s.at - 1 : program(s)[j].op = "write"
    => \A t \in Keeps[program(s)[i].key] : t \in DOMAIN s.row /\ s.row[t] \in Nat

slotType(s) ==
  s = [handler |-> s.handler, at |-> s.at, row |-> s.row, seen |-> s.seen,
       scanned |-> s.scanned]

slotOK(s) ==
  /\ slotType(s)
  /\ s # NoRequest =>
       /\ s.handler \in offered
       /\ s.at \in 1 .. Len(program(s))
       /\ s.row # None => isVersions(s.row)
       /\ s.seen # None => isVersions(s.seen)
       /\ s.scanned \in BOOLEAN
       /\ seenKnown(s)
       /\ rowKnown(s)

RequestsInv ==
  /\ DOMAIN request = Requests
  /\ \A r \in Requests : slotOK(request[r])

StoreInv ==
  /\ offered \in Workloads
  /\ db \in [Tables -> Nat]
  /\ DOMAIN cached = Keys
  /\ \A key \in Keys : cached[key] \in Copy(key) \cup {None}
  /\ missed \subseteq Keys

\* A copy that is in the way of a later read has a request that answers for it.
Explained ==
  \A key \in Keys :
    /\ cached[key] # None
    /\ ~cached[key].late
    /\ key \notin missed
    /\ outdated(key, cached[key].of)
    => \E r \in Requests : answersFor(request[r], key)

CachesInv == StoreInv /\ RequestsInv /\ Explained

-----------------------------------------------------------------------------
(* The slots of requests. *)

LEMMA NoRequestOK ==
  slotOK(NoRequest) /\ \A key \in Keys : ~answersFor(NoRequest, key)
BY DEF slotOK, slotType, NoRequest, slotAt, answersFor

\* A request in progress runs one of the programs, and is at one of its steps.
LEMMA SlotProgram ==
  ASSUME StoreInv, NEW s, slotOK(s), s # NoRequest
  PROVE  /\ s.handler \in Handlers
         /\ sound(s.handler, program(s))
         /\ Len(program(s)) \in Nat \ {0}
         /\ s.at \in 1 .. Len(program(s))
<1>1. s.handler \in offered /\ s.at \in 1 .. Len(program(s))
  BY DEF slotOK
<1>2. s.handler \in Handlers
  BY <1>1, CachesAssumption DEF StoreInv
<1>3. sound(s.handler, program(s))
  BY <1>2, ProgramsSound DEF program
<1> QED
  BY <1>1, <1>2, <1>3 DEF sound, soundAt

\* Advance(r, s) leaves this in the slot, when there is another step.
nextSlot(s) ==
  [handler |-> s.handler, at |-> s.at + 1, row |-> s.row, seen |-> s.seen,
   scanned |-> s.scanned]

LEMMA Advanced ==
  ASSUME RequestsInv, NEW r \in Requests, NEW s, slotType(s),
         s.handler = request[r].handler, Advance(r, s)
  PROVE  /\ DOMAIN request' = Requests
         /\ \A q \in Requests \ {r} : request'[q] = request[q]
         /\ s.at = Len(program(s)) => request'[r] = NoRequest
         /\ s.at # Len(program(s)) => request'[r] = nextSlot(s)
<1>1. [s EXCEPT !.at = @ + 1] = nextSlot(s)
  BY DEF slotType, nextSlot
<1>2. steps(r) = program(s)
  BY DEF steps, program
<1>3. request' = [request EXCEPT ![r] =
                    IF s.at = Len(program(s)) THEN NoRequest ELSE nextSlot(s)]
  BY <1>1, <1>2 DEF Advance
<1>4. DOMAIN request = Requests
  BY DEF RequestsInv
<1> HIDE DEF nextSlot
<1> QED
  BY <1>3, <1>4

\* A slot after a step of its request: what the step read or wrote is what the slot
\* has to know for the sets that follow.
LEMMA NextSlotOK ==
  ASSUME StoreInv, NEW s, slotOK(s), s # NoRequest, s.at # Len(program(s)),
         NEW t, slotType(t), t.handler = s.handler, t.at = s.at + 1,
         t.row # None => isVersions(t.row),
         t.seen # None => isVersions(t.seen),
         t.scanned \in BOOLEAN,
         program(s)[s.at].op = "read" =>
           t.seen \in [Keeps[program(s)[s.at].key] -> Nat],
         program(s)[s.at].op # "write" => t.row = s.row,
         program(s)[s.at].op = "write" =>
           \A i \in s.at .. Len(program(s)) :
             program(s)[i].op = "set" /\ program(s)[i].of = "row" =>
               \A v \in Keeps[program(s)[i].key] : v \in DOMAIN t.row /\ t.row[v] \in Nat
  PROVE  slotOK(t)
<1> DEFINE p == program(s)
           n == s.at
<1>1. /\ sound(s.handler, p)
      /\ Len(p) \in Nat \ {0}
      /\ n \in 1 .. Len(p)
  BY SlotProgram
<1>2. program(t) = p /\ t.at = n + 1
  BY DEF program
<1>3. n + 1 \in 1 .. Len(p)
  BY <1>1
<1>4. seenKnown(t)
  <2>1. ASSUME p[n + 1].op = "set", p[n + 1].of # "row"
        PROVE  t.seen \in [Keeps[p[n + 1].key] -> Nat]
    <3>1. p[(n + 1) - 1].op = "read" /\ p[(n + 1) - 1].key = p[n + 1].key
      BY <1>1, <1>3, <2>1 DEF sound, soundAt
    <3>2. (n + 1) - 1 = n
      BY <1>1
    <3>3. p[n].op = "read" /\ p[n].key = p[n + 1].key
      BY <3>1, <3>2
    <3> QED
      BY <3>3
  <2> QED
    BY <1>2, <2>1 DEF seenKnown
<1>5. rowKnown(t)
  <2> SUFFICES ASSUME NEW i \in n + 1 .. Len(p), p[i].op = "set", p[i].of = "row",
                      NEW j \in 1 .. (n + 1) - 1, p[j].op = "write",
                      NEW v \in Keeps[p[i].key]
               PROVE  v \in DOMAIN t.row /\ t.row[v] \in Nat
    BY <1>2 DEF rowKnown
  <2>1. i \in n .. Len(p)
    BY <1>1
  <2>2. CASE p[n].op = "write"
    BY <2>1, <2>2
  <2>3. CASE p[n].op # "write"
    <3>1. j \in 1 .. n - 1
      BY <1>1, <2>3
    <3>2. rowKnown(s)
      BY DEF slotOK
    <3>3. v \in DOMAIN s.row /\ s.row[v] \in Nat
      BY <2>1, <3>1, <3>2 DEF rowKnown
    <3> QED
      BY <2>3, <3>3
  <2> QED
    BY <2>2, <2>3
<1>6. t.handler \in offered
  BY DEF slotOK
<1> QED
  BY <1>2, <1>3, <1>4, <1>5, <1>6 DEF slotOK

\* A slot still answers for a key after a step that does not set or delete it; a scan
\* has to find it.
LEMMA StillAnswers ==
  ASSUME StoreInv, NEW s, slotOK(s), NEW key \in Keys, answersFor(s, key),
         NEW t, t # NoRequest, t.handler = s.handler, t.at = s.at + 1,
         ~(program(s)[s.at].op \in Refreshing /\ program(s)[s.at].key = key),
         program(s)[s.at].op = "scan" /\ program(s)[s.at].key = key => t.scanned
  PROVE  answersFor(t, key)
<1> DEFINE p == program(s)
           n == s.at
<1>1. /\ sound(s.handler, p)
      /\ Len(p) \in Nat \ {0}
      /\ n \in 1 .. Len(p)
  BY SlotProgram DEF answersFor
<1>2. program(t) = p /\ t.at = n + 1
  BY DEF program
<1>3. hasWritten(t, key)
  <2>1. hasWritten(s, key)
    BY DEF answersFor
  <2> QED
    BY <1>1, <1>2, <2>1 DEF hasWritten
<1>4. PICK i \in n .. Len(p) : p[i].op \in Refreshing /\ p[i].key = key
  BY DEF answersFor, willRefresh
<1>5. i \in n + 1 .. Len(p)
  BY <1>1, <1>4
<1>6. willRefresh(t, key)
  BY <1>2, <1>4, <1>5 DEF willRefresh
<1>7. ASSUME p[n + 1].op = "delScanned", p[n + 1].key = key
      PROVE  t.scanned
  <2>1. n + 1 \in 1 .. Len(p)
    BY <1>1, <1>5
  <2>2. p[(n + 1) - 1].op = "scan" /\ p[(n + 1) - 1].key = p[n + 1].key
    BY <1>1, <1>7, <2>1 DEF sound, soundAt
  <2>3. (n + 1) - 1 = n
    BY <1>1
  <2>4. p[n].op = "scan" /\ p[n].key = key
    BY <1>7, <2>2, <2>3
  <2> QED
    BY <2>4
<1> QED
  BY <1>2, <1>3, <1>6, <1>7 DEF answersFor

\* The last step of a program is where the last key is set or deleted.
LEMMA LastStepAnswers ==
  ASSUME StoreInv, NEW s, slotOK(s), NEW key \in Keys, answersFor(s, key),
         s.at = Len(program(s))
  PROVE  program(s)[s.at].op \in Refreshing /\ program(s)[s.at].key = key
<1>1. s.at \in 1 .. Len(program(s)) /\ Len(program(s)) \in Nat
  BY SlotProgram DEF answersFor
<1>2. PICK i \in s.at .. Len(program(s)) :
        program(s)[i].op \in Refreshing /\ program(s)[i].key = key
  BY DEF answersFor, willRefresh
<1>3. i = s.at
  BY <1>1
<1> QED
  BY <1>2, <1>3

-----------------------------------------------------------------------------
(* One step of one request. *)

LEMMA RequestsKept ==
  ASSUME RequestsInv, offered' = offered, NEW r \in Requests,
         DOMAIN request' = Requests,
         \A q \in Requests \ {r} : request'[q] = request[q],
         slotOK(request'[r])
  PROVE  RequestsInv'
<1>1. \A q \in Requests : slotOK(request'[q])
  BY DEF RequestsInv
<1>2. ASSUME NEW q \in Requests
      PROVE  slotOK(request[q])'
  BY <1>1 DEF slotOK
<1> QED
  BY <1>2 DEF RequestsInv

\* A step other than a write may only lose an answer by setting or deleting the key.
LEMMA Progress ==
  ASSUME StoreInv, RequestsInv, offered' = offered, NEW r \in Requests, busy(r),
         NEW s, slotType(s), s.handler = request[r].handler, s.at = request[r].at,
         s.row # None => isVersions(s.row),
         s.seen # None => isVersions(s.seen),
         s.scanned \in BOOLEAN,
         step(r).op = "read" => s.seen \in [Keeps[step(r).key] -> Nat],
         step(r).op # "write" => s.row = request[r].row,
         step(r).op = "write" =>
           \A i \in s.at .. Len(program(s)) :
             program(s)[i].op = "set" /\ program(s)[i].of = "row" =>
               \A v \in Keeps[program(s)[i].key] : v \in DOMAIN s.row /\ s.row[v] \in Nat,
         Advance(r, s)
  PROVE  /\ RequestsInv'
         /\ \A q \in Requests \ {r} : request'[q] = request[q]
         /\ s.at # Len(program(s)) => request'[r] = nextSlot(s)
         /\ \A key \in Keys :
              /\ answersFor(request[r], key)
              /\ ~(step(r).op \in Refreshing /\ step(r).key = key)
              /\ step(r).op = "scan" /\ step(r).key = key => s.scanned
              => answersFor(request'[r], key)
<1> DEFINE o == request[r]
           t == nextSlot(s)
<1>1. /\ slotOK(o)
      /\ o # NoRequest
      /\ program(s) = program(o)
      /\ step(r) = program(o)[o.at]
  BY DEF RequestsInv, busy, program, step, steps
<1>2. /\ DOMAIN request' = Requests
      /\ \A q \in Requests \ {r} : request'[q] = request[q]
      /\ s.at = Len(program(s)) => request'[r] = NoRequest
      /\ s.at # Len(program(s)) => request'[r] = t
  BY Advanced
<1>3. /\ slotType(t) /\ t.handler = o.handler /\ t.at = o.at + 1
      /\ t.row = s.row /\ t.seen = s.seen /\ t.scanned = s.scanned
  BY DEF slotType, nextSlot
<1> HIDE DEF o, t
<1>4. o.at \in Nat
  BY <1>1, SlotProgram
<1>5. t # NoRequest
  <2>1. t.at # 0
    BY <1>3, <1>4
  <2>2. NoRequest.at = 0
    BY DEF NoRequest, slotAt
  <2> QED
    BY <2>1, <2>2
<1>6. s.at # Len(program(s)) => slotOK(t)
  <2>1. o.at = s.at /\ o.row = request[r].row
    BY DEF o
  <2> QED
    BY <1>1, <1>3, <2>1, NextSlotOK
<1>7. slotOK(request'[r])
  BY <1>2, <1>6, NoRequestOK
<1>8. RequestsInv'
  BY <1>2, <1>7, RequestsKept
<1>9. ASSUME NEW key \in Keys, answersFor(o, key),
             ~(step(r).op \in Refreshing /\ step(r).key = key),
             step(r).op = "scan" /\ step(r).key = key => s.scanned
      PROVE  answersFor(request'[r], key)
  <2>1. o.at # Len(program(o))
    BY <1>1, <1>9, LastStepAnswers
  <2>2. request'[r] = t
    BY <1>1, <1>2, <2>1 DEF o
  <2> QED
    BY <1>1, <1>3, <1>5, <1>9, <2>2, StillAnswers
<1> QED
  BY <1>2, <1>8, <1>9 DEF o, t

\* A copy needs no answer when it is gone, late, missed or up to date; otherwise it is
\* the copy of before, and whoever answered for it still does.
LEMMA ExplainedKept ==
  ASSUME Explained, NEW r \in Requests,
         \A q \in Requests \ {r} : request'[q] = request[q],
         \A key \in Keys :
           \/ cached'[key] = None
           \/ cached'[key].late
           \/ key \in missed'
           \/ ~outdated(key, cached[key].of)'
           \/ answersFor(request'[r], key)
           \/ /\ cached'[key] = cached[key]
              /\ key \notin missed
              /\ outdated(key, cached[key].of)
              /\ ~answersFor(request[r], key)
  PROVE  Explained'
<1>a. \A q \in Requests, key \in Keys :
        answersFor(request[q], key)' <=> answersFor(request'[q], key)
  BY DEF answersFor, hasWritten, willRefresh, program
<1> SUFFICES ASSUME NEW key \in Keys,
                    cached'[key] # None, ~cached'[key].late, key \notin missed',
                    outdated(key, cached[key].of)'
             PROVE  \E q \in Requests : answersFor(request'[q], key)
  BY <1>a DEF Explained
<1>1. CASE answersFor(request'[r], key)
  BY <1>1
<1>2. CASE /\ cached'[key] = cached[key]
           /\ key \notin missed
           /\ outdated(key, cached[key].of)
           /\ ~answersFor(request[r], key)
  <2>1. PICK q \in Requests : answersFor(request[q], key)
    BY <1>2 DEF Explained
  <2>2. q # r
    BY <1>2, <2>1
  <2>3. request'[q] = request[q]
    BY <2>2
  <2> QED
    BY <2>1, <2>3
<1> QED
  BY <1>1, <1>2

-----------------------------------------------------------------------------
(* The actions. *)

\* A slot with some fields replaced.
LEMMA SlotUpdates ==
  ASSUME NEW s, slotType(s), NEW a
  PROVE  /\ [s EXCEPT !.row = a] =
              [handler |-> s.handler, at |-> s.at, row |-> a, seen |-> s.seen,
               scanned |-> s.scanned]
         /\ [s EXCEPT !.seen = a] =
              [handler |-> s.handler, at |-> s.at, row |-> s.row, seen |-> a,
               scanned |-> s.scanned]
         /\ [s EXCEPT !.scanned = a] =
              [handler |-> s.handler, at |-> s.at, row |-> s.row, seen |-> s.seen,
               scanned |-> a]
<1>1. /\ DOMAIN s = {"handler", "at", "row", "seen", "scanned"}
      /\ s = [x \in DOMAIN s |-> s[x]]
  BY DEF slotType
<1>2. [s EXCEPT !.row = a] =
        [handler |-> s.handler, at |-> s.at, row |-> a, seen |-> s.seen,
         scanned |-> s.scanned]
  BY <1>1
<1>3. [s EXCEPT !.seen = a] =
        [handler |-> s.handler, at |-> s.at, row |-> s.row, seen |-> a,
         scanned |-> s.scanned]
  BY <1>1
<1>4. [s EXCEPT !.scanned = a] =
        [handler |-> s.handler, at |-> s.at, row |-> s.row, seen |-> s.seen,
         scanned |-> a]
  BY <1>1
<1> QED
  BY <1>2, <1>3, <1>4

\* What every action of a busy request starts from.
LEMMA AtStep ==
  ASSUME StoreInv, RequestsInv, NEW r \in Requests, busy(r)
  PROVE  /\ slotOK(request[r]) /\ slotType(request[r])
         /\ request[r] # NoRequest
         /\ request[r].handler \in Handlers
         /\ step(r) = program(request[r])[request[r].at]
         /\ steps(r) = program(request[r])
         /\ sound(request[r].handler, program(request[r]))
         /\ Len(program(request[r])) \in Nat \ {0}
         /\ request[r].at \in 1 .. Len(program(request[r]))
         /\ request[r].row # None => isVersions(request[r].row)
         /\ request[r].seen # None => isVersions(request[r].seen)
         /\ request[r].scanned \in BOOLEAN
         /\ step(r).op # "write" => step(r).key \in Keys
<1>1. slotOK(request[r]) /\ request[r] # NoRequest
  BY DEF RequestsInv, busy
<1>2. step(r) = program(request[r])[request[r].at] /\ steps(r) = program(request[r])
  BY DEF step, steps, program
<1>3. /\ request[r].handler \in Handlers
      /\ sound(request[r].handler, program(request[r]))
      /\ Len(program(request[r])) \in Nat \ {0}
      /\ request[r].at \in 1 .. Len(program(request[r]))
  BY <1>1, SlotProgram
<1>4. step(r).op # "write" => step(r).key \in Keys
  BY <1>2, <1>3 DEF sound, soundAt
<1>5. /\ slotType(request[r])
      /\ request[r].row # None => isVersions(request[r].row)
      /\ request[r].seen # None => isVersions(request[r].seen)
      /\ request[r].scanned \in BOOLEAN
  BY <1>1 DEF slotOK
<1> QED
  BY <1>1, <1>2, <1>3, <1>4, <1>5

\* The slot of a request that ends early.
LEMMA Ended ==
  ASSUME RequestsInv, offered' = offered, NEW r \in Requests,
         request' = [request EXCEPT ![r] = NoRequest]
  PROVE  /\ RequestsInv'
         /\ \A q \in Requests \ {r} : request'[q] = request[q]
<1>1. /\ DOMAIN request' = Requests
      /\ request'[r] = NoRequest
      /\ \A q \in Requests \ {r} : request'[q] = request[q]
  BY DEF RequestsInv
<1> QED
  BY <1>1, NoRequestOK, RequestsKept

LEMMA CallKeeps ==
  ASSUME CachesInv, offered' = offered, NEW r \in Requests, NEW h \in offered, Call(r, h)
  PROVE  CachesInv'
<1> DEFINE s == slotAt(h, 1)
<1>1. s = [handler |-> h, at |-> 1, row |-> None, seen |-> None, scanned |-> FALSE]
  BY DEF slotAt
<1>2. request[r] = NoRequest /\ request' = [request EXCEPT ![r] = s]
  BY DEF Call, busy
<1> HIDE DEF s
<1>3. /\ DOMAIN request' = Requests
      /\ request'[r] = s
      /\ \A q \in Requests \ {r} : request'[q] = request[q]
  BY <1>2 DEF CachesInv, RequestsInv
<1>4. h \in Handlers
  BY CachesAssumption DEF CachesInv, StoreInv
<1>5. sound(h, Program[h]) /\ program(s) = Program[h]
  BY <1>1, <1>4, ProgramsSound DEF program
<1>6. Len(Program[h]) \in Nat \ {0} /\ 1 \in 1 .. Len(Program[h])
  BY <1>5 DEF sound, soundAt
<1>7. seenKnown(s)
  BY <1>1, <1>5, <1>6 DEF seenKnown, sound, soundAt
<1>8. rowKnown(s)
  BY <1>1 DEF rowKnown
<1>9. slotOK(s)
  BY <1>1, <1>5, <1>6, <1>7, <1>8 DEF slotOK, slotType
<1>10. RequestsInv'
  BY <1>3, <1>9, RequestsKept DEF CachesInv
<1>11. StoreInv'
  BY DEF CachesInv, StoreInv, Call
<1>12. Explained'
  <2>1. cached' = cached /\ missed' = missed /\ db' = db
    BY DEF Call
  <2>2. \A key \in Keys :
          outdated(key, cached[key].of)' <=> outdated(key, cached[key].of)
    BY <2>1 DEF outdated
  <2>3. \A key \in Keys : ~answersFor(request[r], key)
    BY <1>2, NoRequestOK
  <2> QED
    BY <1>3, <2>1, <2>2, <2>3, ExplainedKept DEF CachesInv
<1> QED
  BY <1>10, <1>11, <1>12 DEF CachesInv

LEMMA GetKeyKeeps ==
  ASSUME CachesInv, offered' = offered, NEW r \in Requests, busy(r), GetKey(r)
  PROVE  CachesInv'
<1> DEFINE o == request[r]
<1>1. StoreInv /\ RequestsInv /\ Explained
  BY DEF CachesInv
<1>2. step(r).op = "get" /\ cached' = cached /\ missed' = missed /\ db' = db
  BY DEF GetKey
<1>3. \A key \in Keys : ~answersFor(o, key)
  <2>1. o.at = 1
    BY <1>1, <1>2, AtStep DEF sound, soundAt
  <2> QED
    BY <2>1 DEF answersFor, hasWritten
<1>4. RequestsInv' /\ \A q \in Requests \ {r} : request'[q] = request[q]
  <2>1. CASE cached[step(r).key] = None
    <3>1. Advance(r, o)
      BY <2>1 DEF GetKey
    <3> QED
      BY <1>1, <1>2, <3>1, AtStep, Progress
  <2>2. CASE cached[step(r).key] # None
    BY <1>1, <2>2, Ended DEF GetKey
  <2> QED
    BY <2>1, <2>2
<1>5. StoreInv'
  BY <1>1, <1>2 DEF StoreInv
<1>6. Explained'
  <2>1. \A key \in Keys :
          outdated(key, cached[key].of)' <=> outdated(key, cached[key].of)
    BY <1>2 DEF outdated
  <2> QED
    BY <1>1, <1>2, <1>3, <1>4, <2>1, ExplainedKept
<1> QED
  BY <1>4, <1>5, <1>6 DEF CachesInv

LEMMA QueryKeeps ==
  ASSUME CachesInv, offered' = offered, NEW r \in Requests, busy(r), Query(r)
  PROVE  CachesInv'
<1> DEFINE o == request[r]
           key0 == step(r).key
           v == [t \in Keeps[key0] |-> db[t]]
           s == [o EXCEPT !.seen = v]
<1>1. StoreInv /\ RequestsInv /\ Explained
  BY DEF CachesInv
<1>2. /\ step(r).op = "read" /\ cached' = cached /\ missed' = missed /\ db' = db
      /\ Advance(r, s)
  BY DEF Query
<1>3. key0 \in Keys /\ Keeps[key0] \subseteq Tables
  BY <1>1, <1>2, AtStep, KeepsTables
<1>4. v \in [Keeps[key0] -> Nat] /\ isVersions(v)
  BY <1>1, <1>3 DEF StoreInv, isVersions
<1>5. s = [handler |-> o.handler, at |-> o.at, row |-> o.row, seen |-> v,
           scanned |-> o.scanned]
  <2> HIDE DEF v
  <2>1. slotType(o)
    BY <1>1, AtStep
  <2> QED
    BY <2>1, SlotUpdates
<1> HIDE DEF v, s, key0
<1>6. /\ slotType(s) /\ s.handler = o.handler /\ s.at = o.at /\ s.row = o.row
      /\ s.seen = v /\ s.scanned = o.scanned
  BY <1>5 DEF slotType
<1>7. /\ RequestsInv'
      /\ \A q \in Requests \ {r} : request'[q] = request[q]
      /\ \A key \in Keys : answersFor(o, key) => answersFor(request'[r], key)
  <2>1. step(r).op \notin Refreshing
    BY <1>2 DEF Refreshing
  <2> QED
    BY <1>1, <1>2, <1>4, <1>6, <2>1, AtStep, Progress DEF key0
<1>8. StoreInv'
  BY <1>1, <1>2 DEF StoreInv
<1>9. Explained'
  <2>1. \A key \in Keys :
          outdated(key, cached[key].of)' <=> outdated(key, cached[key].of)
    BY <1>2 DEF outdated
  <2> QED
    BY <1>1, <1>2, <1>7, <2>1, ExplainedKept
<1> QED
  BY <1>7, <1>8, <1>9 DEF CachesInv

\* The row of a write is of tables, and has what the sets after it take from it.
LEMMA RowOfWrite ==
  ASSUME StoreInv, RequestsInv, NEW r \in Requests, busy(r),
         NEW w, w = [t \in returned(r) |-> written(r)[t]]
  PROVE  /\ isVersions(w)
         /\ \A i \in request[r].at .. Len(program(request[r])) :
              LET x == program(request[r])[i]
              IN x.op = "set" /\ x.of = "row" =>
                   \A t \in Keeps[x.key] : t \in DOMAIN w /\ w[t] \in Nat
<1> DEFINE p == program(request[r])
           n == request[r].at
<1>1. /\ sound(request[r].handler, p)
      /\ Len(p) \in Nat \ {0}
      /\ n \in 1 .. Len(p)
      /\ toDo(r) = {p[i] : i \in n .. Len(p)}
  BY AtStep DEF toDo
<1>2. \A i \in n .. Len(p) : p[i].op = "set" => p[i].key \in Keys
  BY <1>1 DEF sound, soundAt
<1>3. returned(r) \subseteq Tables
  <2> SUFFICES ASSUME NEW x \in toDo(r), x.op = "set"
               PROVE  Keeps[x.key] \subseteq Tables
    BY DEF returned
  <2>1. PICK i \in n .. Len(p) : x = p[i]
    BY <1>1
  <2> QED
    BY <1>2, <2>1, KeepsTables
<1>4. \A t \in Tables : written(r)[t] \in Nat
  BY DEF written, StoreInv
<1>5. DOMAIN w = returned(r) /\ \A t \in returned(r) : w[t] \in Nat
  BY <1>3, <1>4
<1>6. ASSUME NEW i \in n .. Len(p), p[i].op = "set", p[i].of = "row"
      PROVE  Keeps[p[i].key] \subseteq returned(r)
  <2>1. p[i] \in toDo(r)
    BY <1>1
  <2> QED
    BY <1>6, <2>1 DEF returned
<1> QED
  BY <1>3, <1>5, <1>6 DEF isVersions

LEMMA MutateKeeps ==
  ASSUME CachesInv, offered' = offered, NEW r \in Requests, busy(r), Mutate(r)
  PROVE  CachesInv'
<1> DEFINE o == request[r]
           p == program(o)
           n == o.at
           w == [t \in returned(r) |-> written(r)[t]]
           s == [o EXCEPT !.row = w]
<1>1. StoreInv /\ RequestsInv /\ Explained
  BY DEF CachesInv
<1>2. /\ step(r).op = "write" /\ cached' = cached /\ db' = written(r)
      /\ missed' = missed \cup {key \in forgets(o.handler) : cached[key] # None}
      /\ Advance(r, s)
  BY DEF Mutate
<1>3. /\ sound(o.handler, p)
      /\ Len(p) \in Nat \ {0}
      /\ n \in 1 .. Len(p)
      /\ step(r) = p[n]
      /\ slotType(o)
      /\ o.handler \in Handlers
      /\ o.seen # None => isVersions(o.seen)
      /\ o.scanned \in BOOLEAN
  BY <1>1, AtStep
<1>4. /\ isVersions(w)
      /\ \A i \in n .. Len(p) :
           p[i].op = "set" /\ p[i].of = "row" =>
             \A t \in Keeps[p[i].key] : t \in DOMAIN w /\ w[t] \in Nat
  BY <1>1, RowOfWrite
<1>5. s = [handler |-> o.handler, at |-> o.at, row |-> w, seen |-> o.seen,
           scanned |-> o.scanned]
  <2> HIDE DEF w
  <2> QED
    BY <1>3, SlotUpdates
<1> HIDE DEF w, s
<1>6. /\ slotType(s) /\ s.handler = o.handler /\ s.at = o.at /\ s.row = w
      /\ s.seen = o.seen /\ s.scanned = o.scanned /\ program(s) = p
  BY <1>5 DEF slotType, program
<1>7. /\ RequestsInv'
      /\ \A q \in Requests \ {r} : request'[q] = request[q]
      /\ s.at # Len(program(s)) => request'[r] = nextSlot(s)
      /\ \A key \in Keys : answersFor(o, key) => answersFor(request'[r], key)
  <2>1. step(r).op \notin Refreshing
    BY <1>2 DEF Refreshing
  <2> HIDE DEF p, n, o
  <2>2. s.handler = request[r].handler /\ s.at = request[r].at
    BY <1>6 DEF o
  <2>3. \A i \in s.at .. Len(program(s)) :
          program(s)[i].op = "set" /\ program(s)[i].of = "row" =>
            \A v \in Keeps[program(s)[i].key] : v \in DOMAIN s.row /\ s.row[v] \in Nat
    BY <1>4, <1>6 DEF n
  <2>4. step(r).op \notin {"read", "scan"}
    BY <1>2
  <2>5. /\ s.row # None => isVersions(s.row)
        /\ s.seen # None => isVersions(s.seen)
        /\ s.scanned \in BOOLEAN
    BY <1>3, <1>4, <1>6
  <2> QED
    BY <1>1, <1>2, <1>6, <2>1, <2>2, <2>3, <2>4, <2>5, Progress DEF o
<1>8. forgets(o.handler) \subseteq Keys
  BY KeysAre DEF forgets
<1>9. StoreInv'
  <2>1. db' \in [Tables -> Nat]
    BY <1>1, <1>2 DEF StoreInv, written
  <2> QED
    BY <1>1, <1>2, <1>8, <2>1 DEF StoreInv
<1>10. ASSUME NEW key \in Keys, p[n].tables \cap Keeps[key] = {}
       PROVE  outdated(key, cached[key].of)' <=> outdated(key, cached[key].of)
  <2>1. \A t \in Keeps[key] : db'[t] = db[t]
    BY <1>2, <1>3, <1>10, KeepsTables DEF written
  <2> QED
    BY <1>2, <2>1 DEF outdated
<1>11. ASSUME NEW key \in Keys, p[n].tables \cap Keeps[key] # {}, cached[key] # None
       PROVE  key \in missed' \/ answersFor(request'[r], key)
  <2>1. CASE key \in forgets(o.handler)
    BY <1>2, <1>11, <2>1
  <2>2. CASE \E j \in n + 1 .. Len(p) : p[j].op \in Refreshing /\ p[j].key = key
    <3> DEFINE t == nextSlot(s)
    <3>1. n # Len(p)
      BY <1>3, <2>2
    <3>2. request'[r] = t
      BY <1>6, <1>7, <3>1
    <3>3. t.at = n + 1 /\ program(t) = p /\ t # NoRequest
      <4>1. t.at = n + 1 /\ t.handler = o.handler
        BY <1>6 DEF nextSlot
      <4>2. t.at # 0 /\ NoRequest.at = 0
        BY <1>3, <4>1 DEF NoRequest, slotAt
      <4> QED
        BY <4>1, <4>2 DEF program
    <3> HIDE DEF t
    <3>4. hasWritten(t, key)
      BY <1>2, <1>3, <1>11, <3>3 DEF hasWritten
    <3>5. willRefresh(t, key)
      BY <2>2, <3>3 DEF willRefresh
    <3>6. p[n + 1].op # "delScanned"
      <4>1. n + 1 \in 1 .. Len(p) /\ (n + 1) - 1 = n
        BY <1>3, <3>1
      <4>2. p[n + 1].op = "delScanned" => p[(n + 1) - 1].op = "scan"
        BY <1>3, <4>1 DEF sound, soundAt
      <4> QED
        BY <1>2, <1>3, <4>1, <4>2
    <3> QED
      BY <3>2, <3>3, <3>4, <3>5, <3>6 DEF answersFor
  <2> QED
    BY <1>2, <1>3, <1>11, <2>1, <2>2 DEF sound, soundAt
<1>12. Explained'
  BY <1>1, <1>2, <1>7, <1>10, <1>11, ExplainedKept
<1> QED
  BY <1>7, <1>9, <1>12 DEF CachesInv

\* The versions that a set stores.
LEMMA CopyOfSet ==
  ASSUME StoreInv, RequestsInv, NEW r \in Requests, busy(r), step(r).op = "set",
         NEW row, row = IF step(r).of = "row" THEN request[r].row ELSE request[r].seen
  PROVE  [t \in Keeps[step(r).key] |-> row[t]] \in [Keeps[step(r).key] -> Nat]
<1> DEFINE p == program(request[r])
           n == request[r].at
<1>1. /\ sound(request[r].handler, p)
      /\ Len(p) \in Nat \ {0}
      /\ n \in 1 .. Len(p)
      /\ step(r) = p[n]
      /\ slotOK(request[r])
      /\ request[r] # NoRequest
  BY AtStep
<1>2. CASE step(r).of = "row"
  <2>1. \E j \in 1 .. n - 1 : p[j].op = "write"
    BY <1>1, <1>2 DEF sound, soundAt
  <2>2. n \in n .. Len(p)
    BY <1>1
  <2>3. rowKnown(request[r])
    BY <1>1 DEF slotOK
  <2>4. \A t \in Keeps[p[n].key] : request[r].row[t] \in Nat
    BY <1>1, <1>2, <2>1, <2>2, <2>3 DEF rowKnown
  <2>5. row = request[r].row /\ step(r).key = p[n].key
    BY <1>1, <1>2
  <2>6. \A t \in Keeps[step(r).key] : row[t] \in Nat
    BY <2>4, <2>5
  <2> HIDE DEF p, n
  <2> QED
    BY <2>6
<1>3. CASE step(r).of # "row"
  <2>1. seenKnown(request[r])
    BY <1>1 DEF slotOK
  <2>2. row \in [Keeps[step(r).key] -> Nat]
    BY <1>1, <1>3, <2>1 DEF seenKnown
  <2> QED
    BY <2>2
<1> QED
  BY <1>2, <1>3

LEMMA SetKeyKeeps ==
  ASSUME CachesInv, offered' = offered, NEW r \in Requests, busy(r), SetKey(r)
  PROVE  CachesInv'
<1> DEFINE o == request[r]
           key0 == step(r).key
           row == IF step(r).of = "row" THEN o.row ELSE o.seen
           copy == [t \in Keeps[key0] |-> row[t]]
           stored == [of |-> copy, late |-> outdated(key0, copy)]
<1>1. StoreInv /\ RequestsInv /\ Explained
  BY DEF CachesInv
<1>2. /\ step(r).op = "set" /\ db' = db
      /\ cached' = [cached EXCEPT ![key0] = stored]
      /\ missed' = missed \ {key0}
      /\ Advance(r, o)
  BY DEF SetKey
<1>3. key0 \in Keys
  BY <1>1, <1>2, AtStep
<1>4. copy \in [Keeps[key0] -> Nat]
  BY <1>1, <1>2, CopyOfSet
<1>5. stored \in Copy(key0)
  <2>1. outdated(key0, copy) \in BOOLEAN
    BY DEF outdated
  <2> HIDE DEF copy
  <2> QED
    BY <1>4, <2>1 DEF Copy
<1>6. stored.of = copy /\ stored.late = outdated(key0, copy)
  OBVIOUS
<1> HIDE DEF stored, copy, row, key0
<1>7. /\ RequestsInv'
      /\ \A q \in Requests \ {r} : request'[q] = request[q]
      /\ \A key \in Keys \ {key0} : answersFor(o, key) => answersFor(request'[r], key)
  BY <1>1, <1>2, AtStep, Progress DEF key0
<1>8. /\ cached'[key0] = stored
      /\ DOMAIN cached' = Keys
      /\ \A key \in Keys \ {key0} : cached'[key] = cached[key]
  BY <1>1, <1>2, <1>3 DEF StoreInv
<1>9. StoreInv'
  BY <1>1, <1>2, <1>5, <1>8 DEF StoreInv
<1>10. ASSUME NEW key \in Keys, key = key0
       PROVE  cached'[key].late \/ ~outdated(key, cached[key].of)'
  <2>1. outdated(key, cached[key].of)' <=> \E t \in Keeps[key] : cached'[key].of[t] # db[t]
    BY <1>2 DEF outdated
  <2>2. cached'[key].late <=> \E t \in Keeps[key] : cached'[key].of[t] # db[t]
    BY <1>6, <1>8, <1>10 DEF outdated
  <2> QED
    BY <2>1, <2>2
<1>11. \A key \in Keys \ {key0} :
         /\ key \in missed' <=> key \in missed
         /\ outdated(key, cached[key].of)' <=> outdated(key, cached[key].of)
  BY <1>2, <1>8 DEF outdated
<1>12. Explained'
  BY <1>1, <1>7, <1>8, <1>10, <1>11, ExplainedKept
<1> QED
  BY <1>7, <1>9, <1>12 DEF CachesInv

\* A key that is removed needs no answer, and no other key changes.
LEMMA RemoveKeeps ==
  ASSUME StoreInv, RequestsInv, Explained, offered' = offered, NEW r \in Requests,
         RequestsInv', \A q \in Requests \ {r} : request'[q] = request[q],
         db' = db, NEW key0 \in Keys, Remove(key0),
         \A key \in Keys \ {key0} :
           answersFor(request[r], key) => answersFor(request'[r], key)
  PROVE  CachesInv'
<1>1. /\ cached'[key0] = None
      /\ DOMAIN cached' = Keys
      /\ \A key \in Keys \ {key0} : cached'[key] = cached[key]
      /\ missed' = missed \ {key0}
  BY DEF StoreInv, Remove
<1>2. StoreInv'
  BY <1>1 DEF StoreInv
<1>3. \A key \in Keys \ {key0} :
        /\ key \in missed' <=> key \in missed
        /\ outdated(key, cached[key].of)' <=> outdated(key, cached[key].of)
  BY <1>1 DEF outdated
<1>4. Explained'
  BY <1>1, <1>3, ExplainedKept
<1> QED
  BY <1>2, <1>4 DEF CachesInv

LEMMA DelKeyKeeps ==
  ASSUME CachesInv, offered' = offered, NEW r \in Requests, busy(r), DelKey(r)
  PROVE  CachesInv'
<1>1. StoreInv /\ RequestsInv /\ Explained
  BY DEF CachesInv
<1>2. /\ step(r).op = "del" /\ db' = db
      /\ Remove(step(r).key)
      /\ Advance(r, request[r])
  BY DEF DelKey
<1>3. /\ RequestsInv'
      /\ \A q \in Requests \ {r} : request'[q] = request[q]
      /\ \A key \in Keys \ {step(r).key} :
           answersFor(request[r], key) => answersFor(request'[r], key)
  BY <1>1, <1>2, AtStep, Progress
<1>4. step(r).key \in Keys
  BY <1>1, <1>2, AtStep
<1> QED
  BY <1>1, <1>2, <1>3, <1>4, RemoveKeeps

LEMMA ExpireKeeps ==
  ASSUME CachesInv, offered' = offered, NEW key \in Keys, Expire(key)
  PROVE  CachesInv'
<1>1. StoreInv /\ RequestsInv /\ Explained
  BY DEF CachesInv
<1>2. Remove(key) /\ db' = db /\ request' = request
  BY DEF Expire
<1>3. RequestsInv'
  BY <1>1, <1>2 DEF RequestsInv, slotOK
<1>4. CASE Requests # {}
  <2>1. PICK r \in Requests : TRUE
    BY <1>4
  <2> QED
    BY <1>1, <1>2, <1>3, RemoveKeeps
<1>5. CASE Requests = {}
  <2>1. \A k \in Keys : cached'[k] # None => cached'[k] = cached[k] /\ k # key
    BY <1>1, <1>2 DEF Remove, StoreInv
  <2>2. StoreInv'
    BY <1>1, <1>2 DEF Remove, StoreInv
  <2>3. Explained'
    <3> SUFFICES ASSUME NEW k \in Keys, cached'[k] # None, ~cached'[k].late,
                        k \notin missed', outdated(k, cached[k].of)'
                 PROVE  FALSE
      BY DEF Explained
    <3>1. cached'[k] = cached[k] /\ k \notin missed
      BY <1>2, <2>1 DEF Remove
    <3>2. outdated(k, cached[k].of)
      BY <1>2, <3>1 DEF outdated
    <3> QED
      BY <1>1, <1>5, <3>1, <3>2 DEF Explained
  <2> QED
    BY <1>3, <2>2, <2>3 DEF CachesInv
<1> QED
  BY <1>4, <1>5

LEMMA ScanKeysKeeps ==
  ASSUME CachesInv, offered' = offered, NEW r \in Requests, busy(r), ScanKeys(r)
  PROVE  CachesInv'
<1> DEFINE o == request[r]
           key0 == step(r).key
           found == cached[key0] # None
           s == [o EXCEPT !.scanned = found]
<1>1. StoreInv /\ RequestsInv /\ Explained
  BY DEF CachesInv
<1>2. /\ step(r).op = "scan" /\ cached' = cached /\ missed' = missed /\ db' = db
      /\ Advance(r, s)
  BY DEF ScanKeys
<1>3. s = [handler |-> o.handler, at |-> o.at, row |-> o.row, seen |-> o.seen,
           scanned |-> found]
  <2>1. slotType(o)
    BY <1>1, AtStep
  <2> HIDE DEF found
  <2> QED
    BY <2>1, SlotUpdates
<1>4. found \in BOOLEAN
  OBVIOUS
<1> HIDE DEF s, found
<1>5. /\ slotType(s) /\ s.handler = o.handler /\ s.at = o.at /\ s.row = o.row
      /\ s.seen = o.seen /\ s.scanned = found
  BY <1>3 DEF slotType
<1>6. /\ RequestsInv'
      /\ \A q \in Requests \ {r} : request'[q] = request[q]
      /\ \A key \in Keys :
           answersFor(o, key) /\ (key = key0 => found) => answersFor(request'[r], key)
  <2>1. step(r).op \notin Refreshing
    BY <1>2 DEF Refreshing
  <2>2. /\ s.row # None => isVersions(s.row)
        /\ s.seen # None => isVersions(s.seen)
        /\ s.scanned \in BOOLEAN
    BY <1>1, <1>4, <1>5, AtStep
  <2> QED
    BY <1>1, <1>2, <1>5, <2>1, <2>2, AtStep, Progress
<1>7. \A key \in Keys : cached'[key] # None => (key = key0 => found)
  BY <1>2 DEF found
<1>8. StoreInv'
  BY <1>1, <1>2 DEF StoreInv
<1>9. Explained'
  <2>1. \A key \in Keys :
          outdated(key, cached[key].of)' <=> outdated(key, cached[key].of)
    BY <1>2 DEF outdated
  <2> QED
    BY <1>1, <1>2, <1>6, <1>7, <2>1, ExplainedKept
<1> QED
  BY <1>6, <1>8, <1>9 DEF CachesInv

LEMMA DelScannedKeysKeeps ==
  ASSUME CachesInv, offered' = offered, NEW r \in Requests, busy(r), DelScannedKeys(r)
  PROVE  CachesInv'
<1>1. StoreInv /\ RequestsInv /\ Explained
  BY DEF CachesInv
<1>2. step(r).op = "delScanned" /\ db' = db /\ Advance(r, request[r])
  BY DEF DelScannedKeys
<1>3. /\ RequestsInv'
      /\ \A q \in Requests \ {r} : request'[q] = request[q]
      /\ \A key \in Keys \ {step(r).key} :
           answersFor(request[r], key) => answersFor(request'[r], key)
  BY <1>1, <1>2, AtStep, Progress
<1>4. CASE request[r].scanned
  <2>1. step(r).key \in Keys
    BY <1>1, <1>2, AtStep
  <2>2. Remove(step(r).key)
    BY <1>4 DEF DelScannedKeys
  <2> QED
    BY <1>1, <1>2, <1>3, <2>1, <2>2, RemoveKeeps
<1>5. CASE ~request[r].scanned
  <2>1. cached' = cached /\ missed' = missed
    BY <1>5 DEF DelScannedKeys
  <2>2. \A key \in Keys : answersFor(request[r], key) => key # step(r).key
    BY <1>1, <1>2, <1>5, AtStep DEF answersFor
  <2>3. StoreInv'
    BY <1>1, <1>2, <2>1 DEF StoreInv
  <2>4. \A key \in Keys :
          outdated(key, cached[key].of)' <=> outdated(key, cached[key].of)
    BY <1>2, <2>1 DEF outdated
  <2>5. Explained'
    BY <1>1, <1>3, <2>1, <2>2, <2>4, ExplainedKept
  <2> QED
    BY <1>3, <2>3, <2>5 DEF CachesInv
<1> QED
  BY <1>4, <1>5

\* A request that answers for a key owes it.
LEMMA AnswersOwed ==
  ASSUME StoreInv, RequestsInv, NEW r \in Requests, NEW key \in Keys,
         answersFor(request[r], key)
  PROVE  busy(r) /\ key \in owed(r)
<1> DEFINE p == program(request[r])
           n == request[r].at
<1>1. busy(r)
  BY DEF answersFor, busy
<1>2. /\ done(r) = {p[i] : i \in 1 .. n - 1}
      /\ toDo(r) = {p[i] : i \in n .. Len(p)}
  BY DEF done, toDo, steps, program
<1>3. \E x \in done(r) : x.op = "write" /\ x.tables \cap Keeps[key] # {}
  BY <1>2 DEF answersFor, hasWritten
<1>4. \E x \in toDo(r) : x.op \in {"set", "del", "delScanned"} /\ x.key = key
  BY <1>2 DEF answersFor, willRefresh, Refreshing
<1> QED
  BY <1>1, <1>3, <1>4 DEF owed

LEMMA FailKeeps ==
  ASSUME CachesInv, offered' = offered, NEW r \in Requests, busy(r), Fail(r)
  PROVE  CachesInv'
<1>1. StoreInv /\ RequestsInv /\ Explained
  BY DEF CachesInv
<1>2. /\ missed' = missed \cup {key \in owed(r) : cached[key] # None}
      /\ request' = [request EXCEPT ![r] = NoRequest]
      /\ db' = db /\ cached' = cached
  BY DEF Fail
<1>3. RequestsInv' /\ \A q \in Requests \ {r} : request'[q] = request[q]
  BY <1>1, <1>2, Ended
<1>4. StoreInv'
  <2>1. owed(r) \subseteq Keys
    BY DEF owed
  <2> QED
    BY <1>1, <1>2, <2>1 DEF StoreInv
<1>5. \A key \in Keys : answersFor(request[r], key) => key \in owed(r)
  BY <1>1, AnswersOwed
<1>6. \A key \in Keys :
        outdated(key, cached[key].of)' <=> outdated(key, cached[key].of)
  BY <1>2 DEF outdated
<1>7. Explained'
  BY <1>1, <1>2, <1>3, <1>5, <1>6, ExplainedKept
<1> QED
  BY <1>3, <1>4, <1>7 DEF CachesInv

-----------------------------------------------------------------------------
(* The theorems. *)

LEMMA CachesInit == Init => CachesInv
<1> SUFFICES ASSUME Init
             PROVE  CachesInv
  OBVIOUS
<1>1. StoreInv
  BY KeysAre DEF Init, StoreInv
<1>2. RequestsInv
  BY NoRequestOK DEF Init, RequestsInv
<1>3. Explained
  BY DEF Init, Explained
<1> QED
  BY <1>1, <1>2, <1>3 DEF CachesInv

LEMMA CachesStep == CachesInv /\ [Next]_vars => CachesInv'
<1> SUFFICES ASSUME CachesInv, [Next]_vars
             PROVE  CachesInv'
  OBVIOUS
<1>1. ASSUME Next
      PROVE  CachesInv'
  <2>1. offered' = offered
    BY <1>1 DEF Next
  <2>2. CASE \E r \in Requests : \E h \in offered : Call(r, h)
    BY <2>1, <2>2, CallKeeps
  <2>3. CASE \E r \in Requests : busy(r) /\ Step(r)
    <3>1. PICK r \in Requests : busy(r) /\ Step(r)
      BY <2>3
    <3> QED
      BY <2>1, <3>1, GetKeyKeeps, QueryKeeps, MutateKeeps, SetKeyKeeps, DelKeyKeeps,
         ScanKeysKeeps, DelScannedKeysKeeps, FailKeeps DEF Step
  <2>4. CASE \E key \in Keys : Expire(key)
    BY <2>1, <2>4, ExpireKeeps
  <2> QED
    BY <1>1, <2>2, <2>3, <2>4 DEF Next
<1>2. CASE UNCHANGED vars
  <2>1. /\ offered' = offered /\ db' = db /\ cached' = cached /\ request' = request
        /\ missed' = missed
    BY <1>2 DEF vars
  <2>2. StoreInv' /\ RequestsInv'
    BY <2>1 DEF CachesInv, StoreInv, RequestsInv, slotOK
  <2>3. Explained'
    BY <2>1 DEF CachesInv, Explained, outdated, answersFor, hasWritten, willRefresh
  <2> QED
    BY <2>2, <2>3 DEF CachesInv
<1> QED
  BY <1>1, <1>2

LEMMA CachesInvariant == Spec => []CachesInv
BY CachesInit, CachesStep, PTL DEF Spec

\* The state of a cache is of its type in every reachable state: a key holds versions of
\* all the tables it is made from (the fields a handler sets it from are all there), and a
\* request is at a step of its own program.
THEOREM CachesTyped == Spec => []TypeOK
<1>1. CachesInv /\ overlapped \in BOOLEAN => TypeOK
  <2> SUFFICES ASSUME CachesInv, overlapped \in BOOLEAN
               PROVE  TypeOK
    OBVIOUS
  <2>1. StoreInv /\ RequestsInv
    BY DEF CachesInv
  <2>2. ASSUME NEW r \in Requests, busy(r)
        PROVE  /\ request[r].handler \in offered
               /\ request[r].at \in 1 .. Len(steps(r))
               /\ request[r].row # None => isVersions(request[r].row)
               /\ request[r].seen # None => isVersions(request[r].seen)
               /\ request[r].scanned \in BOOLEAN
    BY <2>1, <2>2 DEF RequestsInv, slotOK, busy, steps, program
  <2> QED
    BY <2>1, <2>2 DEF TypeOK, StoreInv, RequestsInv
<1>2. Init => overlapped \in BOOLEAN
  BY DEF Init
<1>3. overlapped \in BOOLEAN /\ [Next]_vars => (overlapped \in BOOLEAN)'
  BY DEF Next, vars
<1> QED
  BY <1>1, <1>2, <1>3, CachesInvariant, PTL DEF Spec

\* No writer of a table forgets a key that is kept up to date with it, but for the eight
\* that forgets names: a copy in Redis that is outdated was outdated when it was stored,
\* or a request that failed after its write left it, or a request in progress still has
\* it to set or delete.
THEOREM NoneForgotten == Spec => []NoForgottenInvalidation
<1>1. CachesInv => NoForgottenInvalidation
  <2> SUFFICES ASSUME CachesInv, NEW key \in Keys,
                      cached[key] # None, ~cached[key].late, key \notin missed,
                      \A r \in Requests : busy(r) => key \notin owed(r)
               PROVE  ~outdated(key, cached[key].of)
    BY DEF NoForgottenInvalidation
  <2>1. StoreInv /\ RequestsInv /\ Explained
    BY DEF CachesInv
  <2>2. \A r \in Requests : ~answersFor(request[r], key)
    BY <2>1, AnswersOwed
  <2> QED
    BY <2>1, <2>2 DEF Explained
<1> QED
  BY <1>1, CachesInvariant, PTL

-----------------------------------------------------------------------------
(* Requests that do not overlap. *)

\* What a request is about to store agrees with the tables.
seenIs(s, d) ==
  program(s)[s.at].op = "set" /\ program(s)[s.at].of # "row" =>
    \A t \in Keeps[program(s)[s.at].key] : s.seen[t] = d[t]

rowIs(s, d) ==
  \A i \in s.at .. Len(program(s)) :
    /\ program(s)[i].op = "set" /\ program(s)[i].of = "row"
    /\ \E j \in 1 .. s.at - 1 : program(s)[j].op = "write"
    => \A t \in Keeps[program(s)[i].key] : s.row[t] = d[t]

current(s, d) == s # NoRequest => seenIs(s, d) /\ rowIs(s, d)

AloneInv ==
  /\ \A r \in Requests : current(request[r], db)
  /\ \A key \in Keys : cached[key] # None => ~cached[key].late

\* A slot after a step, with the tables as the step left them.
LEMMA NextSlotCurrent ==
  ASSUME StoreInv, NEW s, slotOK(s), s # NoRequest, s.at # Len(program(s)),
         NEW d, current(s, d),
         NEW t, t.handler = s.handler, t.at = s.at + 1,
         NEW e,
         program(s)[s.at].op = "read" =>
           \A v \in Keeps[program(s)[s.at].key] : t.seen[v] = e[v],
         program(s)[s.at].op # "write" => t.row = s.row /\ e = d,
         program(s)[s.at].op = "write" =>
           \A i \in s.at .. Len(program(s)) :
             program(s)[i].op = "set" /\ program(s)[i].of = "row" =>
               \A v \in Keeps[program(s)[i].key] : t.row[v] = e[v]
  PROVE  current(t, e)
<1> DEFINE p == program(s)
           n == s.at
<1>1. /\ sound(s.handler, p)
      /\ Len(p) \in Nat \ {0}
      /\ n \in 1 .. Len(p)
  BY SlotProgram
<1>2. program(t) = p /\ t.at = n + 1
  BY DEF program
<1>3. n + 1 \in 1 .. Len(p)
  BY <1>1
<1>4. seenIs(t, e)
  <2>1. ASSUME p[n + 1].op = "set", p[n + 1].of # "row"
        PROVE  \A v \in Keeps[p[n + 1].key] : t.seen[v] = e[v]
    <3>1. p[(n + 1) - 1].op = "read" /\ p[(n + 1) - 1].key = p[n + 1].key
      BY <1>1, <1>3, <2>1 DEF sound, soundAt
    <3>2. (n + 1) - 1 = n
      BY <1>1
    <3>3. p[n].op = "read" /\ p[n].key = p[n + 1].key
      BY <3>1, <3>2
    <3> QED
      BY <3>3
  <2> QED
    BY <1>2, <2>1 DEF seenIs
<1>5. rowIs(t, e)
  <2> SUFFICES ASSUME NEW i \in n + 1 .. Len(p), p[i].op = "set", p[i].of = "row",
                      NEW j \in 1 .. (n + 1) - 1, p[j].op = "write",
                      NEW v \in Keeps[p[i].key]
               PROVE  t.row[v] = e[v]
    BY <1>2 DEF rowIs
  <2>1. i \in n .. Len(p)
    BY <1>1
  <2>2. CASE p[n].op = "write"
    BY <2>1, <2>2
  <2>3. CASE p[n].op # "write"
    <3>1. j \in 1 .. n - 1
      BY <1>1, <2>3
    <3>2. rowIs(s, d)
      BY DEF current
    <3>3. s.row[v] = d[v]
      BY <2>1, <3>1, <3>2 DEF rowIs
    <3> QED
      BY <2>3, <3>3
  <2> QED
    BY <2>2, <2>3
<1> QED
  BY <1>4, <1>5 DEF current

\* A step of the only request in progress.
LEMMA ProgressAlone ==
  ASSUME StoreInv, RequestsInv, OneAtATime, NEW r \in Requests, busy(r),
         current(request[r], db),
         NEW s, slotType(s), s.handler = request[r].handler, s.at = request[r].at,
         step(r).op = "read" => \A v \in Keeps[step(r).key] : s.seen[v] = db'[v],
         step(r).op # "write" => s.row = request[r].row /\ db' = db,
         step(r).op = "write" =>
           \A i \in s.at .. Len(program(s)) :
             program(s)[i].op = "set" /\ program(s)[i].of = "row" =>
               \A v \in Keeps[program(s)[i].key] : s.row[v] = db'[v],
         Advance(r, s)
  PROVE  \A q \in Requests : current(request'[q], db')
<1> DEFINE o == request[r]
           t == nextSlot(s)
<1>1. /\ slotOK(o)
      /\ o # NoRequest
      /\ program(s) = program(o)
      /\ step(r) = program(o)[o.at]
  BY DEF RequestsInv, busy, program, step, steps
<1>2. /\ \A q \in Requests \ {r} : request'[q] = request[q]
      /\ s.at = Len(program(s)) => request'[r] = NoRequest
      /\ s.at # Len(program(s)) => request'[r] = t
  BY Advanced
<1>3. \A q \in Requests \ {r} : request'[q] = NoRequest
  BY <1>2 DEF OneAtATime, busy
<1>4. \A x : current(NoRequest, x)
  BY DEF current
<1>5. /\ t.handler = o.handler /\ t.at = o.at + 1
      /\ t.row = s.row /\ t.seen = s.seen
  BY DEF nextSlot
<1>6. o.at = s.at /\ o.row = request[r].row
  OBVIOUS
<1> HIDE DEF t
<1>7. s.at # Len(program(s)) => current(t, db')
  BY <1>1, <1>5, <1>6, NextSlotCurrent
<1> QED
  BY <1>2, <1>3, <1>4, <1>7

LEMMA AloneInit == Init => AloneInv
BY DEF Init, AloneInv, current

\* Steps that leave the tables, and store nothing.
LEMMA AloneQuiet ==
  ASSUME AloneInv, \A q \in Requests : current(request'[q], db'),
         \A key \in Keys : cached'[key] = cached[key] \/ cached'[key] = None
  PROVE  AloneInv'
<1>1. \A q \in Requests : current(request[q], db)'
  BY DEF current, seenIs, rowIs, program
<1> QED
  BY <1>1 DEF AloneInv

LEMMA CallAlone ==
  ASSUME CachesInv, AloneInv, NEW r \in Requests, NEW h \in offered, Call(r, h),
         offered' = offered
  PROVE  AloneInv'
<1> DEFINE s == slotAt(h, 1)
<1>1. s.handler = h /\ s.at = 1 /\ program(s) = Program[h]
  BY DEF slotAt, program
<1>2. /\ request' = [request EXCEPT ![r] = s]
      /\ DOMAIN request = Requests /\ db' = db /\ cached' = cached
  BY DEF Call, CachesInv, RequestsInv
<1> HIDE DEF s
<1>3. request'[r] = s /\ \A q \in Requests \ {r} : request'[q] = request[q]
  BY <1>2
<1>4. sound(h, Program[h])
  BY ProgramsSound, CachesAssumption DEF CachesInv, StoreInv
<1>5. seenIs(s, db)
  <2>1. Len(Program[h]) \in Nat \ {0} /\ soundAt(h, Program[h], 1)
    BY <1>4 DEF sound
  <2> QED
    BY <1>1, <2>1 DEF seenIs, soundAt
<1>6. rowIs(s, db)
  BY <1>1 DEF rowIs
<1>7. current(s, db)
  BY <1>5, <1>6 DEF current
<1>8. \A q \in Requests : current(request'[q], db')
  BY <1>2, <1>3, <1>7 DEF AloneInv
<1> QED
  BY <1>2, <1>8, AloneQuiet

\* The slot of a request that ends early.
LEMMA EndedAlone ==
  ASSUME RequestsInv, AloneInv, db' = db, NEW r \in Requests,
         request' = [request EXCEPT ![r] = NoRequest]
  PROVE  \A q \in Requests : current(request'[q], db')
<1>1. request'[r] = NoRequest /\ \A q \in Requests \ {r} : request'[q] = request[q]
  BY DEF RequestsInv
<1> QED
  BY <1>1 DEF AloneInv, current

\* Every step but a write and a set.
LEMMA OtherStepsAlone ==
  ASSUME CachesInv, AloneInv, OneAtATime, NEW r \in Requests, busy(r),
         \/ GetKey(r) \/ Query(r) \/ DelKey(r) \/ ScanKeys(r) \/ DelScannedKeys(r) \/ Fail(r)
  PROVE  AloneInv'
<1> DEFINE o == request[r]
<1>1. StoreInv /\ RequestsInv /\ current(o, db)
  BY DEF CachesInv, AloneInv
<1>2. slotType(o) /\ (step(r).op # "write" => step(r).key \in Keys)
  BY <1>1, AtStep
<1>3. ASSUME db' = db, NEW s, slotType(s), s.handler = o.handler, s.at = o.at,
             s.row = o.row, step(r).op # "write",
             step(r).op = "read" => \A v \in Keeps[step(r).key] : s.seen[v] = db[v],
             Advance(r, s)
      PROVE  \A q \in Requests : current(request'[q], db')
  BY <1>1, <1>3, ProgressAlone
<1>4. CASE GetKey(r)
  <2>1. step(r).op = "get" /\ db' = db /\ cached' = cached
    BY <1>4 DEF GetKey
  <2>2. CASE Advance(r, o)
    BY <1>2, <1>3, <2>1, <2>2, AloneQuiet
  <2>3. CASE request' = [request EXCEPT ![r] = NoRequest]
    BY <1>1, <2>1, <2>3, EndedAlone, AloneQuiet
  <2> QED
    BY <1>4, <2>2, <2>3 DEF GetKey
<1>5. CASE Query(r)
  <2> DEFINE w == [t \in Keeps[step(r).key] |-> db[t]]
             s == [o EXCEPT !.seen = w]
  <2>1. step(r).op = "read" /\ db' = db /\ cached' = cached /\ Advance(r, s)
    BY <1>5 DEF Query
  <2>2. \A v \in Keeps[step(r).key] : w[v] = db[v]
    OBVIOUS
  <2> HIDE DEF w
  <2>3. s = [handler |-> o.handler, at |-> o.at, row |-> o.row, seen |-> w,
             scanned |-> o.scanned]
    BY <1>2, SlotUpdates
  <2> HIDE DEF s
  <2>4. /\ slotType(s) /\ s.handler = o.handler /\ s.at = o.at /\ s.row = o.row
        /\ s.seen = w
    BY <2>3 DEF slotType
  <2>5. \A q \in Requests : current(request'[q], db')
    BY <1>3, <2>1, <2>2, <2>4
  <2> QED
    BY <2>1, <2>5, AloneQuiet
<1>6. CASE DelKey(r) \/ DelScannedKeys(r)
  <2>1. step(r).op \in {"del", "delScanned"} /\ db' = db /\ Advance(r, o)
    BY <1>6 DEF DelKey, DelScannedKeys
  <2>2. cached' = cached \/ cached' = [cached EXCEPT ![step(r).key] = None]
    BY <1>6 DEF DelKey, DelScannedKeys, Remove
  <2>3. \A key \in Keys : cached'[key] = cached[key] \/ cached'[key] = None
    BY <1>1, <2>2 DEF StoreInv
  <2>4. \A q \in Requests : current(request'[q], db')
    BY <1>2, <1>3, <2>1
  <2> QED
    BY <2>3, <2>4, AloneQuiet
<1>7. CASE ScanKeys(r)
  <2> DEFINE found == cached[step(r).key] # None
             s == [o EXCEPT !.scanned = found]
  <2>1. step(r).op = "scan" /\ db' = db /\ cached' = cached /\ Advance(r, s)
    BY <1>7 DEF ScanKeys
  <2> HIDE DEF found
  <2>2. s = [handler |-> o.handler, at |-> o.at, row |-> o.row, seen |-> o.seen,
             scanned |-> found]
    BY <1>2, SlotUpdates
  <2> HIDE DEF s
  <2>3. slotType(s) /\ s.handler = o.handler /\ s.at = o.at /\ s.row = o.row
    BY <2>2 DEF slotType
  <2>4. \A q \in Requests : current(request'[q], db')
    BY <1>3, <2>1, <2>3
  <2> QED
    BY <2>1, <2>4, AloneQuiet
<1>8. CASE Fail(r)
  <2>1. db' = db /\ cached' = cached /\ request' = [request EXCEPT ![r] = NoRequest]
    BY <1>8 DEF Fail
  <2> QED
    BY <1>1, <2>1, EndedAlone, AloneQuiet
<1> QED
  BY <1>4, <1>5, <1>6, <1>7, <1>8

LEMMA MutateAlone ==
  ASSUME CachesInv, AloneInv, OneAtATime, NEW r \in Requests, busy(r), Mutate(r)
  PROVE  AloneInv'
<1> DEFINE o == request[r]
           p == program(o)
           n == o.at
           w == [t \in returned(r) |-> written(r)[t]]
           s == [o EXCEPT !.row = w]
<1>1. StoreInv /\ RequestsInv /\ current(o, db)
  BY DEF CachesInv, AloneInv
<1>2. step(r).op = "write" /\ cached' = cached /\ db' = written(r) /\ Advance(r, s)
  BY DEF Mutate
<1>3. slotType(o)
  BY <1>1, AtStep
<1>4. \A t \in DOMAIN w : w[t] = written(r)[t]
  OBVIOUS
<1>5. \A i \in n .. Len(p) :
        p[i].op = "set" /\ p[i].of = "row" => \A t \in Keeps[p[i].key] : t \in DOMAIN w
  BY <1>1, RowOfWrite
<1> HIDE DEF w
<1>6. s = [handler |-> o.handler, at |-> o.at, row |-> w, seen |-> o.seen,
           scanned |-> o.scanned]
  BY <1>3, SlotUpdates
<1> HIDE DEF s
<1>7. /\ slotType(s) /\ s.handler = o.handler /\ s.at = o.at /\ s.row = w
      /\ program(s) = p
  BY <1>6 DEF slotType, program
<1>8. \A i \in s.at .. Len(program(s)) :
        program(s)[i].op = "set" /\ program(s)[i].of = "row" =>
          \A v \in Keeps[program(s)[i].key] : s.row[v] = db'[v]
  <2> HIDE DEF p, n
  <2> QED
    BY <1>2, <1>4, <1>5, <1>7 DEF n
<1>9. \A q \in Requests : current(request'[q], db')
  BY <1>1, <1>2, <1>7, <1>8, ProgressAlone
<1> QED
  BY <1>2, <1>9, AloneQuiet

LEMMA SetKeyAlone ==
  ASSUME CachesInv, AloneInv, OneAtATime, NEW r \in Requests, busy(r), SetKey(r)
  PROVE  AloneInv'
<1> DEFINE o == request[r]
           p == program(o)
           n == o.at
           key0 == step(r).key
           row == IF step(r).of = "row" THEN o.row ELSE o.seen
           copy == [t \in Keeps[key0] |-> row[t]]
           stored == [of |-> copy, late |-> outdated(key0, copy)]
<1>1. StoreInv /\ RequestsInv /\ current(o, db)
  BY DEF CachesInv, AloneInv
<1>2. /\ step(r).op = "set" /\ db' = db
      /\ cached' = [cached EXCEPT ![key0] = stored]
      /\ Advance(r, o)
  BY DEF SetKey
<1>3. /\ sound(o.handler, p)
      /\ Len(p) \in Nat \ {0}
      /\ n \in 1 .. Len(p)
      /\ step(r) = p[n]
      /\ slotType(o)
      /\ o # NoRequest
      /\ key0 \in Keys
  BY <1>1, <1>2, AtStep
<1>4. seenIs(o, db) /\ rowIs(o, db)
  BY <1>1, <1>3 DEF current
<1>5. \A t \in Keeps[key0] : row[t] = db[t]
  <2>1. CASE step(r).of = "row"
    <3>1. soundAt(o.handler, p, n)
      BY <1>3 DEF sound
    <3>2. \E j \in 1 .. n - 1 : p[j].op = "write"
      BY <1>2, <1>3, <2>1, <3>1 DEF soundAt
    <3>3. n \in n .. Len(p)
      BY <1>3
    <3>4. \A t \in Keeps[p[n].key] : o.row[t] = db[t]
      BY <1>2, <1>3, <1>4, <2>1, <3>2, <3>3 DEF rowIs
    <3> QED
      BY <1>3, <2>1, <3>4
  <2>2. CASE step(r).of # "row"
    <3>1. \A t \in Keeps[p[n].key] : o.seen[t] = db[t]
      BY <1>2, <1>3, <1>4, <2>2 DEF seenIs
    <3> QED
      BY <1>3, <2>2, <3>1
  <2> QED
    BY <2>1, <2>2
<1>6. ~outdated(key0, copy)
  BY <1>5 DEF outdated
<1>7. ~stored.late
  <2>1. stored.late = outdated(key0, copy)
    OBVIOUS
  <2> QED
    BY <1>6, <2>1
<1> HIDE DEF stored, copy, row, key0
<1>8. cached'[key0] = stored /\ \A key \in Keys \ {key0} : cached'[key] = cached[key]
  BY <1>1, <1>2, <1>3 DEF StoreInv
<1>9. \A q \in Requests : current(request'[q], db')
  BY <1>1, <1>2, <1>3, ProgressAlone
<1>10. \A q \in Requests : current(request[q], db)'
  BY <1>9 DEF current, seenIs, rowIs, program
<1>11. \A key \in Keys : cached'[key] # None => ~cached'[key].late
  BY <1>7, <1>8 DEF AloneInv
<1> QED
  BY <1>10, <1>11 DEF AloneInv

LEMMA AloneStep ==
  CachesInv /\ AloneInv /\ OneAtATime /\ [Next]_vars => AloneInv'
<1> SUFFICES ASSUME CachesInv, AloneInv, OneAtATime, [Next]_vars
             PROVE  AloneInv'
  OBVIOUS
<1>1. ASSUME Next
      PROVE  AloneInv'
  <2>1. offered' = offered
    BY <1>1 DEF Next
  <2>2. CASE \E r \in Requests : \E h \in offered : Call(r, h)
    BY <2>1, <2>2, CallAlone
  <2>3. CASE \E r \in Requests : busy(r) /\ Step(r)
    <3>1. PICK r \in Requests : busy(r) /\ Step(r)
      BY <2>3
    <3> QED
      BY <3>1, OtherStepsAlone, MutateAlone, SetKeyAlone DEF Step
  <2>4. CASE \E key \in Keys : Expire(key)
    <3>1. PICK key \in Keys : Expire(key)
      BY <2>4
    <3>2. \A k \in Keys : cached'[k] = cached[k] \/ cached'[k] = None
      BY <3>1 DEF Expire, Remove, CachesInv, StoreInv
    <3>3. \A q \in Requests : current(request'[q], db')
      BY <3>1 DEF Expire, AloneInv
    <3> QED
      BY <3>2, <3>3, AloneQuiet
  <2> QED
    BY <1>1, <2>2, <2>3, <2>4 DEF Next
<1>2. CASE UNCHANGED vars
  <2>1. /\ db' = db /\ cached' = cached /\ request' = request
    BY <1>2 DEF vars
  <2>2. \A q \in Requests : current(request'[q], db')
    BY <2>1 DEF AloneInv
  <2> QED
    BY <2>1, <2>2, AloneQuiet
<1> QED
  BY <1>1, <1>2

\* Requests that have not overlapped are one at a time, and what they store is current.
Alone == ~overlapped => OneAtATime /\ AloneInv

\* As long as requests have not overlapped, whatever their handlers, Redis agrees with
\* the tables whenever no request is in progress, but for the keys in missed: the copies
\* that are late in NoForgottenInvalidation are the work of two requests.
THEOREM AloneIsFresh == Spec => []FreshAtRest
<1>1. CachesInv /\ Alone => FreshAtRest
  <2> SUFFICES ASSUME CachesInv, Alone, ~overlapped, \A r \in Requests : ~busy(r),
                      NEW key \in Keys, cached[key] # None, key \notin missed
               PROVE  ~outdated(key, cached[key].of)
    BY DEF FreshAtRest
  <2>1. ~cached[key].late
    BY DEF Alone, AloneInv
  <2>2. \A r \in Requests : ~answersFor(request[r], key)
    BY DEF answersFor, busy
  <2> QED
    BY <2>1, <2>2 DEF CachesInv, Explained
<1>2. Init => Alone
  <2>1. Init => OneAtATime
    BY DEF Init, OneAtATime, busy
  <2> QED
    BY <2>1, AloneInit DEF Alone
<1>3. CachesInv /\ Alone /\ [Next]_vars => Alone'
  <2> SUFFICES ASSUME CachesInv, Alone, [Next]_vars, ~overlapped'
               PROVE  OneAtATime' /\ AloneInv'
    BY DEF Alone
  <2>1. ~overlapped /\ OneAtATime'
    <3>1. CASE Next
      BY <3>1 DEF Next
    <3>2. CASE UNCHANGED vars
      BY <3>2 DEF vars, Alone, OneAtATime, busy
    <3> QED
      BY <3>1, <3>2
  <2> QED
    BY <2>1, AloneStep DEF Alone
<1> QED
  BY <1>1, <1>2, <1>3, CachesInvariant, PTL DEF Spec

=============================================================================
