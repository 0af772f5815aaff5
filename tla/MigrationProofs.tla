-------------------------- MODULE MigrationProofs --------------------------
(***************************************************************************)
(* Migrations of accounts, for every combination of versions and every     *)
(* number of disputes.  A layout's fields follow each other, so what is    *)
(* written in a layout reads true in it; each migration is shown to give,  *)
(* from an account in one version, one whose bytes are known by ranges     *)
(* (the lemmas ...Bytes), and those ranges read true in the next layout    *)
(* (the lemmas ...Reads).  MigrationsInv, the inductive invariant, says of *)
(* each account that it has the size of a version and reads true in it.    *)
(***************************************************************************)
EXTENDS Migrations, FiniteSetTheorems, TLAPS

-----------------------------------------------------------------------------
(* Bytes *)

LEMMA SizeIs ==
    ASSUME NEW data, NEW n \in Nat, DOMAIN data = 0..n
    PROVE  Size(data) = n + 1
<1>1. Cardinality(0..n) = n - 0 + 1
  BY FS_Interval
<1>2. QED
  BY <1>1 DEF Size

(* The fields of a layout follow each other, and the last ends the account. *)
Ordered(layout) ==
    \A k \in DOMAIN layout :
        /\ k \in Nat /\ layout[k][2] \in Nat /\ layout[k][3] \in Nat
        /\ layout[k][2] <= layout[k][3] /\ layout[k][3] <= SizeOf(layout)
        /\ \A l \in DOMAIN layout : k < l => layout[k][3] <= layout[l][2]

(* A field is read as written, or as its default if it is new. *)
FieldTrue(data, field, from, to, new) ==
    \/ Slice(data, from, to) = Bytes(field, to - from)
    \/ field \in new /\ Slice(data, from, to) = Default(field, to - from)

LEMMA FieldsRead ==
    ASSUME NEW data, NEW layout, Size(data) = SizeOf(layout), NEW new
    PROVE  ReadsTrue(data, layout, new) <=>
              \A k \in DOMAIN layout :
                  FieldTrue(data, layout[k][1], layout[k][2], layout[k][3], new)
BY DEF ReadsTrue, Read, FieldTrue

(* What is written in the layout of a program is read by that program. *)
LEMMA WrittenReads ==
    ASSUME NEW layout, Ordered(layout), SizeOf(layout) \in Nat, NEW new
    PROVE  /\ DOMAIN Written(layout, {}) = 0..SizeOf(layout) - 1
           /\ ReadsTrue(Written(layout, {}), layout, new)
<1> DEFINE data == Written(layout, {})
<1>1. DOMAIN data = 0..SizeOf(layout) - 1
  BY DEF Written
<1>2. ASSUME NEW k \in DOMAIN layout
      PROVE  Read(data, layout, k) = Bytes(layout[k][1], layout[k][3] - layout[k][2])
  <2> DEFINE from == layout[k][2]
             to == layout[k][3]
  <2>1. from \in Nat /\ to \in Nat /\ from <= to /\ to <= SizeOf(layout)
    BY DEF Ordered
  <2>2. ASSUME NEW i \in Int, from <= i, i < to
        PROVE  data[i] = <<layout[k][1], i - from + 1>>
    <3> DEFINE at == FieldAt(layout, i)
    <3>1. at \in DOMAIN layout /\ layout[at][2] <= i /\ i < layout[at][3]
      BY <2>2 DEF FieldAt
    <3>2. at = k
      BY <2>1, <2>2, <3>1 DEF Ordered
    <3>3. i \in 0..SizeOf(layout) - 1
      BY <2>1, <2>2
    <3>4. data[i] = <<layout[at][1], i - layout[at][2] + 1>>
      BY <3>3 DEF Written
    <3>5. QED
      BY <3>2, <3>4
  <2>3. ASSUME NEW j \in 1..(to - from)
        PROVE  data[from + j - 1] = <<layout[k][1], j>>
    <3>1. from + j - 1 \in Int /\ from <= from + j - 1 /\ from + j - 1 < to
      BY <2>1
    <3>2. (from + j - 1) - from + 1 = j
      BY <2>1
    <3>3. QED
      BY <2>2, <3>1, <3>2
  <2> HIDE DEF data
  <2>4. QED
    BY <2>3 DEF Read, Slice, Bytes
<1>3. QED
  BY <1>1, <1>2 DEF ReadsTrue

-----------------------------------------------------------------------------
(* Layouts *)

(* The fields of an agent of the first version. *)
LEMMA AgentV1Fields ==
    /\ Ordered(AgentV1)
    /\ SizeOf(AgentV1) = 95
    /\ \A data, new : DOMAIN data = 0..94 =>
          (ReadsTrue(data, AgentV1, new) <=>
              /\ FieldTrue(data, "authority..volume_processed", 0, 75, new)
              /\ FieldTrue(data, "outcomes", 75, 91, new)
              /\ FieldTrue(data, "sponsor", 91, 94, new)
              /\ FieldTrue(data, "bump", 94, 95, new))
<1>1. /\ DOMAIN AgentV1 = 1..4
      /\ AgentV1[1] = <<"authority..volume_processed", 0, 75>>
      /\ AgentV1[2] = <<"outcomes", 75, 91>>
      /\ AgentV1[3] = <<"sponsor", 91, 94>>
      /\ AgentV1[4] = <<"bump", 94, 95>>
  BY DEF AgentV1
<1>2. SizeOf(AgentV1) = 95
  BY DEF AgentV1, SizeOf
<1>3. Ordered(AgentV1)
  BY <1>1, <1>2 DEF Ordered
<1>4. ASSUME NEW data, NEW new, DOMAIN data = 0..94
      PROVE  ReadsTrue(data, AgentV1, new) <=>
                 /\ FieldTrue(data, "authority..volume_processed", 0, 75, new)
                 /\ FieldTrue(data, "outcomes", 75, 91, new)
                 /\ FieldTrue(data, "sponsor", 91, 94, new)
                 /\ FieldTrue(data, "bump", 94, 95, new)
  <2>1. Size(data) = SizeOf(AgentV1)
    <3>1. Size(data) = 94 + 1
      BY <1>4, 94 \in Nat, SizeIs
    <3>2. QED
      BY <1>2, <3>1
  <2>2. FieldTrue(data, AgentV1[1][1], AgentV1[1][2], AgentV1[1][3], new) <=>
           FieldTrue(data, "authority..volume_processed", 0, 75, new)
    BY <1>1
  <2>3. FieldTrue(data, AgentV1[2][1], AgentV1[2][2], AgentV1[2][3], new) <=>
           FieldTrue(data, "outcomes", 75, 91, new)
    BY <1>1
  <2>4. FieldTrue(data, AgentV1[3][1], AgentV1[3][2], AgentV1[3][3], new) <=>
           FieldTrue(data, "sponsor", 91, 94, new)
    BY <1>1
  <2>5. FieldTrue(data, AgentV1[4][1], AgentV1[4][2], AgentV1[4][3], new) <=>
           FieldTrue(data, "bump", 94, 95, new)
    BY <1>1
  <2>6. ReadsTrue(data, AgentV1, new) <=>
          \A k \in 1..4 : FieldTrue(data, AgentV1[k][1], AgentV1[k][2], AgentV1[k][3], new)
    <3>1. ReadsTrue(data, AgentV1, new) <=>
             \A k \in DOMAIN AgentV1 : FieldTrue(data, AgentV1[k][1], AgentV1[k][2], AgentV1[k][3], new)
      BY <2>1, FieldsRead
    <3>2. QED
      BY <1>1, <3>1
  <2>7. QED
    BY <2>2, <2>3, <2>4, <2>5, <2>6
<1>5. QED
  BY <1>2, <1>3, <1>4

(* The fields of an agent of the second. *)
LEMMA AgentV2Fields ==
    /\ Ordered(AgentV2)
    /\ SizeOf(AgentV2) = 123
    /\ \A data, new : DOMAIN data = 0..122 =>
          (ReadsTrue(data, AgentV2, new) <=>
              /\ FieldTrue(data, "authority..volume_processed", 0, 75, new)
              /\ FieldTrue(data, "volume_sol", 75, 83, new)
              /\ FieldTrue(data, "outcomes", 83, 99, new)
              /\ FieldTrue(data, "deliveries..last_task", 99, 119, new)
              /\ FieldTrue(data, "sponsor", 119, 122, new)
              /\ FieldTrue(data, "bump", 122, 123, new))
<1>1. /\ DOMAIN AgentV2 = 1..6
      /\ AgentV2[1] = <<"authority..volume_processed", 0, 75>>
      /\ AgentV2[2] = <<"volume_sol", 75, 83>>
      /\ AgentV2[3] = <<"outcomes", 83, 99>>
      /\ AgentV2[4] = <<"deliveries..last_task", 99, 119>>
      /\ AgentV2[5] = <<"sponsor", 119, 122>>
      /\ AgentV2[6] = <<"bump", 122, 123>>
  BY DEF AgentV2
<1>2. SizeOf(AgentV2) = 123
  BY DEF AgentV2, SizeOf
<1>3. Ordered(AgentV2)
  BY <1>1, <1>2 DEF Ordered
<1>4. ASSUME NEW data, NEW new, DOMAIN data = 0..122
      PROVE  ReadsTrue(data, AgentV2, new) <=>
                 /\ FieldTrue(data, "authority..volume_processed", 0, 75, new)
                 /\ FieldTrue(data, "volume_sol", 75, 83, new)
                 /\ FieldTrue(data, "outcomes", 83, 99, new)
                 /\ FieldTrue(data, "deliveries..last_task", 99, 119, new)
                 /\ FieldTrue(data, "sponsor", 119, 122, new)
                 /\ FieldTrue(data, "bump", 122, 123, new)
  <2>1. Size(data) = SizeOf(AgentV2)
    <3>1. Size(data) = 122 + 1
      BY <1>4, 122 \in Nat, SizeIs
    <3>2. QED
      BY <1>2, <3>1
  <2>2. FieldTrue(data, AgentV2[1][1], AgentV2[1][2], AgentV2[1][3], new) <=>
           FieldTrue(data, "authority..volume_processed", 0, 75, new)
    BY <1>1
  <2>3. FieldTrue(data, AgentV2[2][1], AgentV2[2][2], AgentV2[2][3], new) <=>
           FieldTrue(data, "volume_sol", 75, 83, new)
    BY <1>1
  <2>4. FieldTrue(data, AgentV2[3][1], AgentV2[3][2], AgentV2[3][3], new) <=>
           FieldTrue(data, "outcomes", 83, 99, new)
    BY <1>1
  <2>5. FieldTrue(data, AgentV2[4][1], AgentV2[4][2], AgentV2[4][3], new) <=>
           FieldTrue(data, "deliveries..last_task", 99, 119, new)
    BY <1>1
  <2>6. FieldTrue(data, AgentV2[5][1], AgentV2[5][2], AgentV2[5][3], new) <=>
           FieldTrue(data, "sponsor", 119, 122, new)
    BY <1>1
  <2>7. FieldTrue(data, AgentV2[6][1], AgentV2[6][2], AgentV2[6][3], new) <=>
           FieldTrue(data, "bump", 122, 123, new)
    BY <1>1
  <2>8. ReadsTrue(data, AgentV2, new) <=>
          \A k \in 1..6 : FieldTrue(data, AgentV2[k][1], AgentV2[k][2], AgentV2[k][3], new)
    <3>1. ReadsTrue(data, AgentV2, new) <=>
             \A k \in DOMAIN AgentV2 : FieldTrue(data, AgentV2[k][1], AgentV2[k][2], AgentV2[k][3], new)
      BY <2>1, FieldsRead
    <3>2. QED
      BY <1>1, <3>1
  <2>9. QED
    BY <2>2, <2>3, <2>4, <2>5, <2>6, <2>7, <2>8
<1>5. QED
  BY <1>2, <1>3, <1>4

(* The fields of an agent of the present one. *)
LEMMA AgentNowFields ==
    /\ Ordered(AgentNow)
    /\ SizeOf(AgentNow) = 146
    /\ \A data, new : DOMAIN data = 0..145 =>
          (ReadsTrue(data, AgentNow, new) <=>
              /\ FieldTrue(data, "authority..volume_processed", 0, 75, new)
              /\ FieldTrue(data, "volume_sol", 75, 83, new)
              /\ FieldTrue(data, "outcomes", 83, 99, new)
              /\ FieldTrue(data, "deliveries..last_task", 99, 119, new)
              /\ FieldTrue(data, "sponsor", 119, 122, new)
              /\ FieldTrue(data, "hibernation..friction", 122, 145, new)
              /\ FieldTrue(data, "bump", 145, 146, new))
<1>1. /\ DOMAIN AgentNow = 1..7
      /\ AgentNow[1] = <<"authority..volume_processed", 0, 75>>
      /\ AgentNow[2] = <<"volume_sol", 75, 83>>
      /\ AgentNow[3] = <<"outcomes", 83, 99>>
      /\ AgentNow[4] = <<"deliveries..last_task", 99, 119>>
      /\ AgentNow[5] = <<"sponsor", 119, 122>>
      /\ AgentNow[6] = <<"hibernation..friction", 122, 145>>
      /\ AgentNow[7] = <<"bump", 145, 146>>
  BY DEF AgentNow
<1>2. SizeOf(AgentNow) = 146
  BY DEF AgentNow, SizeOf
<1>3. Ordered(AgentNow)
  BY <1>1, <1>2 DEF Ordered
<1>4. ASSUME NEW data, NEW new, DOMAIN data = 0..145
      PROVE  ReadsTrue(data, AgentNow, new) <=>
                 /\ FieldTrue(data, "authority..volume_processed", 0, 75, new)
                 /\ FieldTrue(data, "volume_sol", 75, 83, new)
                 /\ FieldTrue(data, "outcomes", 83, 99, new)
                 /\ FieldTrue(data, "deliveries..last_task", 99, 119, new)
                 /\ FieldTrue(data, "sponsor", 119, 122, new)
                 /\ FieldTrue(data, "hibernation..friction", 122, 145, new)
                 /\ FieldTrue(data, "bump", 145, 146, new)
  <2>1. Size(data) = SizeOf(AgentNow)
    <3>1. Size(data) = 145 + 1
      BY <1>4, 145 \in Nat, SizeIs
    <3>2. QED
      BY <1>2, <3>1
  <2>2. FieldTrue(data, AgentNow[1][1], AgentNow[1][2], AgentNow[1][3], new) <=>
           FieldTrue(data, "authority..volume_processed", 0, 75, new)
    BY <1>1
  <2>3. FieldTrue(data, AgentNow[2][1], AgentNow[2][2], AgentNow[2][3], new) <=>
           FieldTrue(data, "volume_sol", 75, 83, new)
    BY <1>1
  <2>4. FieldTrue(data, AgentNow[3][1], AgentNow[3][2], AgentNow[3][3], new) <=>
           FieldTrue(data, "outcomes", 83, 99, new)
    BY <1>1
  <2>5. FieldTrue(data, AgentNow[4][1], AgentNow[4][2], AgentNow[4][3], new) <=>
           FieldTrue(data, "deliveries..last_task", 99, 119, new)
    BY <1>1
  <2>6. FieldTrue(data, AgentNow[5][1], AgentNow[5][2], AgentNow[5][3], new) <=>
           FieldTrue(data, "sponsor", 119, 122, new)
    BY <1>1
  <2>7. FieldTrue(data, AgentNow[6][1], AgentNow[6][2], AgentNow[6][3], new) <=>
           FieldTrue(data, "hibernation..friction", 122, 145, new)
    BY <1>1
  <2>8. FieldTrue(data, AgentNow[7][1], AgentNow[7][2], AgentNow[7][3], new) <=>
           FieldTrue(data, "bump", 145, 146, new)
    BY <1>1
  <2>9. ReadsTrue(data, AgentNow, new) <=>
          \A k \in 1..7 : FieldTrue(data, AgentNow[k][1], AgentNow[k][2], AgentNow[k][3], new)
    <3>1. ReadsTrue(data, AgentNow, new) <=>
             \A k \in DOMAIN AgentNow : FieldTrue(data, AgentNow[k][1], AgentNow[k][2], AgentNow[k][3], new)
      BY <2>1, FieldsRead
    <3>2. QED
      BY <1>1, <3>1
  <2>10. QED
    BY <2>2, <2>3, <2>4, <2>5, <2>6, <2>7, <2>8, <2>9
<1>5. QED
  BY <1>2, <1>3, <1>4

(* The fields of a configuration of the first version. *)
LEMMA ConfigV1Fields ==
    /\ Ordered(ConfigV1)
    /\ SizeOf(ConfigV1) = 133
    /\ \A data, new : DOMAIN data = 0..132 =>
          (ReadsTrue(data, ConfigV1, new) <=>
              /\ FieldTrue(data, "admin..total_agents", 0, 132, new)
              /\ FieldTrue(data, "bump", 132, 133, new))
<1>1. /\ DOMAIN ConfigV1 = 1..2
      /\ ConfigV1[1] = <<"admin..total_agents", 0, 132>>
      /\ ConfigV1[2] = <<"bump", 132, 133>>
  BY DEF ConfigV1
<1>2. SizeOf(ConfigV1) = 133
  BY DEF ConfigV1, SizeOf
<1>3. Ordered(ConfigV1)
  BY <1>1, <1>2 DEF Ordered
<1>4. ASSUME NEW data, NEW new, DOMAIN data = 0..132
      PROVE  ReadsTrue(data, ConfigV1, new) <=>
                 /\ FieldTrue(data, "admin..total_agents", 0, 132, new)
                 /\ FieldTrue(data, "bump", 132, 133, new)
  <2>1. Size(data) = SizeOf(ConfigV1)
    <3>1. Size(data) = 132 + 1
      BY <1>4, 132 \in Nat, SizeIs
    <3>2. QED
      BY <1>2, <3>1
  <2>2. FieldTrue(data, ConfigV1[1][1], ConfigV1[1][2], ConfigV1[1][3], new) <=>
           FieldTrue(data, "admin..total_agents", 0, 132, new)
    BY <1>1
  <2>3. FieldTrue(data, ConfigV1[2][1], ConfigV1[2][2], ConfigV1[2][3], new) <=>
           FieldTrue(data, "bump", 132, 133, new)
    BY <1>1
  <2>4. ReadsTrue(data, ConfigV1, new) <=>
          \A k \in 1..2 : FieldTrue(data, ConfigV1[k][1], ConfigV1[k][2], ConfigV1[k][3], new)
    <3>1. ReadsTrue(data, ConfigV1, new) <=>
             \A k \in DOMAIN ConfigV1 : FieldTrue(data, ConfigV1[k][1], ConfigV1[k][2], ConfigV1[k][3], new)
      BY <2>1, FieldsRead
    <3>2. QED
      BY <1>1, <3>1
  <2>5. QED
    BY <2>2, <2>3, <2>4
<1>5. QED
  BY <1>2, <1>3, <1>4

(* The fields of a configuration of the second. *)
LEMMA ConfigV2Fields ==
    /\ Ordered(ConfigV2)
    /\ SizeOf(ConfigV2) = 146
    /\ \A data, new : DOMAIN data = 0..145 =>
          (ReadsTrue(data, ConfigV2, new) <=>
              /\ FieldTrue(data, "admin..total_agents", 0, 132, new)
              /\ FieldTrue(data, "fees", 132, 136, new)
              /\ FieldTrue(data, "max_corrections", 136, 137, new)
              /\ FieldTrue(data, "deadline_validation", 137, 145, new)
              /\ FieldTrue(data, "bump", 145, 146, new))
<1>1. /\ DOMAIN ConfigV2 = 1..5
      /\ ConfigV2[1] = <<"admin..total_agents", 0, 132>>
      /\ ConfigV2[2] = <<"fees", 132, 136>>
      /\ ConfigV2[3] = <<"max_corrections", 136, 137>>
      /\ ConfigV2[4] = <<"deadline_validation", 137, 145>>
      /\ ConfigV2[5] = <<"bump", 145, 146>>
  BY DEF ConfigV2
<1>2. SizeOf(ConfigV2) = 146
  BY DEF ConfigV2, SizeOf
<1>3. Ordered(ConfigV2)
  BY <1>1, <1>2 DEF Ordered
<1>4. ASSUME NEW data, NEW new, DOMAIN data = 0..145
      PROVE  ReadsTrue(data, ConfigV2, new) <=>
                 /\ FieldTrue(data, "admin..total_agents", 0, 132, new)
                 /\ FieldTrue(data, "fees", 132, 136, new)
                 /\ FieldTrue(data, "max_corrections", 136, 137, new)
                 /\ FieldTrue(data, "deadline_validation", 137, 145, new)
                 /\ FieldTrue(data, "bump", 145, 146, new)
  <2>1. Size(data) = SizeOf(ConfigV2)
    <3>1. Size(data) = 145 + 1
      BY <1>4, 145 \in Nat, SizeIs
    <3>2. QED
      BY <1>2, <3>1
  <2>2. FieldTrue(data, ConfigV2[1][1], ConfigV2[1][2], ConfigV2[1][3], new) <=>
           FieldTrue(data, "admin..total_agents", 0, 132, new)
    BY <1>1
  <2>3. FieldTrue(data, ConfigV2[2][1], ConfigV2[2][2], ConfigV2[2][3], new) <=>
           FieldTrue(data, "fees", 132, 136, new)
    BY <1>1
  <2>4. FieldTrue(data, ConfigV2[3][1], ConfigV2[3][2], ConfigV2[3][3], new) <=>
           FieldTrue(data, "max_corrections", 136, 137, new)
    BY <1>1
  <2>5. FieldTrue(data, ConfigV2[4][1], ConfigV2[4][2], ConfigV2[4][3], new) <=>
           FieldTrue(data, "deadline_validation", 137, 145, new)
    BY <1>1
  <2>6. FieldTrue(data, ConfigV2[5][1], ConfigV2[5][2], ConfigV2[5][3], new) <=>
           FieldTrue(data, "bump", 145, 146, new)
    BY <1>1
  <2>7. ReadsTrue(data, ConfigV2, new) <=>
          \A k \in 1..5 : FieldTrue(data, ConfigV2[k][1], ConfigV2[k][2], ConfigV2[k][3], new)
    <3>1. ReadsTrue(data, ConfigV2, new) <=>
             \A k \in DOMAIN ConfigV2 : FieldTrue(data, ConfigV2[k][1], ConfigV2[k][2], ConfigV2[k][3], new)
      BY <2>1, FieldsRead
    <3>2. QED
      BY <1>1, <3>1
  <2>8. QED
    BY <2>2, <2>3, <2>4, <2>5, <2>6, <2>7
<1>5. QED
  BY <1>2, <1>3, <1>4

(* The fields of a configuration of the third. *)
LEMMA ConfigV3Fields ==
    /\ Ordered(ConfigV3)
    /\ SizeOf(ConfigV3) = 186
    /\ \A data, new : DOMAIN data = 0..185 =>
          (ReadsTrue(data, ConfigV3, new) <=>
              /\ FieldTrue(data, "admin..total_agents", 0, 132, new)
              /\ FieldTrue(data, "fees", 132, 136, new)
              /\ FieldTrue(data, "max_corrections", 136, 137, new)
              /\ FieldTrue(data, "deadline_validation", 137, 145, new)
              /\ FieldTrue(data, "work_rewards", 145, 185, new)
              /\ FieldTrue(data, "bump", 185, 186, new))
<1>1. /\ DOMAIN ConfigV3 = 1..6
      /\ ConfigV3[1] = <<"admin..total_agents", 0, 132>>
      /\ ConfigV3[2] = <<"fees", 132, 136>>
      /\ ConfigV3[3] = <<"max_corrections", 136, 137>>
      /\ ConfigV3[4] = <<"deadline_validation", 137, 145>>
      /\ ConfigV3[5] = <<"work_rewards", 145, 185>>
      /\ ConfigV3[6] = <<"bump", 185, 186>>
  BY DEF ConfigV3
<1>2. SizeOf(ConfigV3) = 186
  BY DEF ConfigV3, SizeOf
<1>3. Ordered(ConfigV3)
  BY <1>1, <1>2 DEF Ordered
<1>4. ASSUME NEW data, NEW new, DOMAIN data = 0..185
      PROVE  ReadsTrue(data, ConfigV3, new) <=>
                 /\ FieldTrue(data, "admin..total_agents", 0, 132, new)
                 /\ FieldTrue(data, "fees", 132, 136, new)
                 /\ FieldTrue(data, "max_corrections", 136, 137, new)
                 /\ FieldTrue(data, "deadline_validation", 137, 145, new)
                 /\ FieldTrue(data, "work_rewards", 145, 185, new)
                 /\ FieldTrue(data, "bump", 185, 186, new)
  <2>1. Size(data) = SizeOf(ConfigV3)
    <3>1. Size(data) = 185 + 1
      BY <1>4, 185 \in Nat, SizeIs
    <3>2. QED
      BY <1>2, <3>1
  <2>2. FieldTrue(data, ConfigV3[1][1], ConfigV3[1][2], ConfigV3[1][3], new) <=>
           FieldTrue(data, "admin..total_agents", 0, 132, new)
    BY <1>1
  <2>3. FieldTrue(data, ConfigV3[2][1], ConfigV3[2][2], ConfigV3[2][3], new) <=>
           FieldTrue(data, "fees", 132, 136, new)
    BY <1>1
  <2>4. FieldTrue(data, ConfigV3[3][1], ConfigV3[3][2], ConfigV3[3][3], new) <=>
           FieldTrue(data, "max_corrections", 136, 137, new)
    BY <1>1
  <2>5. FieldTrue(data, ConfigV3[4][1], ConfigV3[4][2], ConfigV3[4][3], new) <=>
           FieldTrue(data, "deadline_validation", 137, 145, new)
    BY <1>1
  <2>6. FieldTrue(data, ConfigV3[5][1], ConfigV3[5][2], ConfigV3[5][3], new) <=>
           FieldTrue(data, "work_rewards", 145, 185, new)
    BY <1>1
  <2>7. FieldTrue(data, ConfigV3[6][1], ConfigV3[6][2], ConfigV3[6][3], new) <=>
           FieldTrue(data, "bump", 185, 186, new)
    BY <1>1
  <2>8. ReadsTrue(data, ConfigV3, new) <=>
          \A k \in 1..6 : FieldTrue(data, ConfigV3[k][1], ConfigV3[k][2], ConfigV3[k][3], new)
    <3>1. ReadsTrue(data, ConfigV3, new) <=>
             \A k \in DOMAIN ConfigV3 : FieldTrue(data, ConfigV3[k][1], ConfigV3[k][2], ConfigV3[k][3], new)
      BY <2>1, FieldsRead
    <3>2. QED
      BY <1>1, <3>1
  <2>9. QED
    BY <2>2, <2>3, <2>4, <2>5, <2>6, <2>7, <2>8
<1>5. QED
  BY <1>2, <1>3, <1>4

(* The fields of a pool of the first version. *)
LEMMA PoolV1Fields ==
    /\ Ordered(PoolV1)
    /\ SizeOf(PoolV1) = 61
    /\ \A data, new : DOMAIN data = 0..60 =>
          (ReadsTrue(data, PoolV1, new) <=>
              /\ FieldTrue(data, "total_balance..authority", 0, 60, new)
              /\ FieldTrue(data, "bump", 60, 61, new))
<1>1. /\ DOMAIN PoolV1 = 1..2
      /\ PoolV1[1] = <<"total_balance..authority", 0, 60>>
      /\ PoolV1[2] = <<"bump", 60, 61>>
  BY DEF PoolV1
<1>2. SizeOf(PoolV1) = 61
  BY DEF PoolV1, SizeOf
<1>3. Ordered(PoolV1)
  BY <1>1, <1>2 DEF Ordered
<1>4. ASSUME NEW data, NEW new, DOMAIN data = 0..60
      PROVE  ReadsTrue(data, PoolV1, new) <=>
                 /\ FieldTrue(data, "total_balance..authority", 0, 60, new)
                 /\ FieldTrue(data, "bump", 60, 61, new)
  <2>1. Size(data) = SizeOf(PoolV1)
    <3>1. Size(data) = 60 + 1
      BY <1>4, 60 \in Nat, SizeIs
    <3>2. QED
      BY <1>2, <3>1
  <2>2. FieldTrue(data, PoolV1[1][1], PoolV1[1][2], PoolV1[1][3], new) <=>
           FieldTrue(data, "total_balance..authority", 0, 60, new)
    BY <1>1
  <2>3. FieldTrue(data, PoolV1[2][1], PoolV1[2][2], PoolV1[2][3], new) <=>
           FieldTrue(data, "bump", 60, 61, new)
    BY <1>1
  <2>4. ReadsTrue(data, PoolV1, new) <=>
          \A k \in 1..2 : FieldTrue(data, PoolV1[k][1], PoolV1[k][2], PoolV1[k][3], new)
    <3>1. ReadsTrue(data, PoolV1, new) <=>
             \A k \in DOMAIN PoolV1 : FieldTrue(data, PoolV1[k][1], PoolV1[k][2], PoolV1[k][3], new)
      BY <2>1, FieldsRead
    <3>2. QED
      BY <1>1, <3>1
  <2>5. QED
    BY <2>2, <2>3, <2>4
<1>5. QED
  BY <1>2, <1>3, <1>4

(* The fields of a pool of the present one. *)
LEMMA PoolNowFields ==
    /\ Ordered(PoolNow)
    /\ SizeOf(PoolNow) = 69
    /\ \A data, new : DOMAIN data = 0..68 =>
          (ReadsTrue(data, PoolNow, new) <=>
              /\ FieldTrue(data, "total_balance..authority", 0, 60, new)
              /\ FieldTrue(data, "total_active_exposure", 60, 68, new)
              /\ FieldTrue(data, "bump", 68, 69, new))
<1>1. /\ DOMAIN PoolNow = 1..3
      /\ PoolNow[1] = <<"total_balance..authority", 0, 60>>
      /\ PoolNow[2] = <<"total_active_exposure", 60, 68>>
      /\ PoolNow[3] = <<"bump", 68, 69>>
  BY DEF PoolNow
<1>2. SizeOf(PoolNow) = 69
  BY DEF PoolNow, SizeOf
<1>3. Ordered(PoolNow)
  BY <1>1, <1>2 DEF Ordered
<1>4. ASSUME NEW data, NEW new, DOMAIN data = 0..68
      PROVE  ReadsTrue(data, PoolNow, new) <=>
                 /\ FieldTrue(data, "total_balance..authority", 0, 60, new)
                 /\ FieldTrue(data, "total_active_exposure", 60, 68, new)
                 /\ FieldTrue(data, "bump", 68, 69, new)
  <2>1. Size(data) = SizeOf(PoolNow)
    <3>1. Size(data) = 68 + 1
      BY <1>4, 68 \in Nat, SizeIs
    <3>2. QED
      BY <1>2, <3>1
  <2>2. FieldTrue(data, PoolNow[1][1], PoolNow[1][2], PoolNow[1][3], new) <=>
           FieldTrue(data, "total_balance..authority", 0, 60, new)
    BY <1>1
  <2>3. FieldTrue(data, PoolNow[2][1], PoolNow[2][2], PoolNow[2][3], new) <=>
           FieldTrue(data, "total_active_exposure", 60, 68, new)
    BY <1>1
  <2>4. FieldTrue(data, PoolNow[3][1], PoolNow[3][2], PoolNow[3][3], new) <=>
           FieldTrue(data, "bump", 68, 69, new)
    BY <1>1
  <2>5. ReadsTrue(data, PoolNow, new) <=>
          \A k \in 1..3 : FieldTrue(data, PoolNow[k][1], PoolNow[k][2], PoolNow[k][3], new)
    <3>1. ReadsTrue(data, PoolNow, new) <=>
             \A k \in DOMAIN PoolNow : FieldTrue(data, PoolNow[k][1], PoolNow[k][2], PoolNow[k][3], new)
      BY <2>1, FieldsRead
    <3>2. QED
      BY <1>1, <3>1
  <2>6. QED
    BY <2>2, <2>3, <2>4, <2>5
<1>5. QED
  BY <1>2, <1>3, <1>4

-----------------------------------------------------------------------------
(* Migrations.  The bytes a migration leaves, by ranges of the old data and
   of what is written: the offsets the handlers write as literals.         *)

LEMMA AgentToV2Bytes ==
    ASSUME NEW data, DOMAIN data = 0..94
    PROVE  /\ DOMAIN AgentToV2(data) = 0..122
           /\ \A i \in 0..122 : AgentToV2(data)[i] =
                 IF i < 75 THEN data[i]
                 ELSE IF i < 83 THEN Zero
                 ELSE IF i < 99 THEN data[i - 8]
                 ELSE IF i < 119 THEN Zero
                 ELSE data[i - 28]
<1> DEFINE d0 == Grown(data, 123)
           d1 == Write(d0, 119, Slice(data, 91, 95))
           d2 == Write(d1, 83, Slice(data, 75, 91))
           d3 == Write(d2, 75, Zeros(8))
           d4 == Write(d3, 99, Zeros(20))
<1>1. AgentToV2(data) = d4
  BY DEF AgentToV2
<1>2. DOMAIN d0 = 0..122
  BY DEF Grown
<1>3. ASSUME NEW i \in 0..122
      PROVE  d0[i] = IF i < 95 THEN data[i] ELSE Zero
  BY DEF Grown
<1> HIDE DEF d0
<1>4. DOMAIN d1 = 0..122
  BY <1>2 DEF Write
<1>5. ASSUME NEW i \in 0..122
      PROVE  d1[i] = IF 119 <= i /\ i < 123 THEN data[i - 28] ELSE d0[i]
  BY <1>2 DEF Write, Slice
<1> HIDE DEF d1
<1>6. DOMAIN d2 = 0..122
  BY <1>4 DEF Write
<1>7. ASSUME NEW i \in 0..122
      PROVE  d2[i] = IF 83 <= i /\ i < 99 THEN data[i - 8] ELSE d1[i]
  BY <1>4 DEF Write, Slice
<1> HIDE DEF d2
<1>8. DOMAIN d3 = 0..122
  BY <1>6 DEF Write
<1>9. ASSUME NEW i \in 0..122
      PROVE  d3[i] = IF 75 <= i /\ i < 83 THEN Zero ELSE d2[i]
  BY <1>6 DEF Write, Zeros
<1> HIDE DEF d3
<1>10. DOMAIN d4 = 0..122
  BY <1>8 DEF Write
<1>11. ASSUME NEW i \in 0..122
      PROVE  d4[i] = IF 99 <= i /\ i < 119 THEN Zero ELSE d3[i]
  BY <1>8 DEF Write, Zeros
<1> HIDE DEF d4
<1>12. ASSUME NEW i \in 0..122
      PROVE  d4[i] =
                 IF i < 75 THEN data[i]
                 ELSE IF i < 83 THEN Zero
                 ELSE IF i < 99 THEN data[i - 8]
                 ELSE IF i < 119 THEN Zero
                 ELSE data[i - 28]
  BY <1>3, <1>5, <1>7, <1>9, <1>11
<1>13. QED
  BY <1>1, <1>10, <1>12

LEMMA AgentToV3Bytes ==
    ASSUME NEW data, DOMAIN data = 0..122
    PROVE  /\ DOMAIN AgentToV3(data) = 0..145
           /\ \A i \in 0..145 : AgentToV3(data)[i] =
                 IF i < 122 THEN data[i]
                 ELSE IF i < 145 THEN Zero
                 ELSE data[122]
<1> DEFINE d0 == Grown(data, 146)
           d1 == Write(d0, 122, Zeros(23))
           d2 == Write(d1, 145, Slice(data, 122, 123))
<1>1. AgentToV3(data) = d2
  BY DEF AgentToV3
<1>2. DOMAIN d0 = 0..145
  BY DEF Grown
<1>3. ASSUME NEW i \in 0..145
      PROVE  d0[i] = IF i < 123 THEN data[i] ELSE Zero
  BY DEF Grown
<1> HIDE DEF d0
<1>4. DOMAIN d1 = 0..145
  BY <1>2 DEF Write
<1>5. ASSUME NEW i \in 0..145
      PROVE  d1[i] = IF 122 <= i /\ i < 145 THEN Zero ELSE d0[i]
  BY <1>2 DEF Write, Zeros
<1> HIDE DEF d1
<1>6. DOMAIN d2 = 0..145
  BY <1>4 DEF Write
<1>7. ASSUME NEW i \in 0..145
      PROVE  d2[i] = IF i = 145 THEN data[122] ELSE d1[i]
  BY <1>4 DEF Write, Slice
<1> HIDE DEF d2
<1>8. ASSUME NEW i \in 0..145
      PROVE  d2[i] =
                 IF i < 122 THEN data[i]
                 ELSE IF i < 145 THEN Zero
                 ELSE data[122]
  BY <1>3, <1>5, <1>7
<1>9. QED
  BY <1>1, <1>6, <1>8

LEMMA ConfigToV2Bytes ==
    ASSUME NEW data, DOMAIN data = 0..132
    PROVE  /\ DOMAIN ConfigToV2(data) = 0..145
           /\ \A i \in 0..145 : ConfigToV2(data)[i] =
                 IF i < 132 THEN data[i]
                 ELSE IF i < 136 THEN <<"default_fees", i - 132 + 1>>
                 ELSE IF i < 137 THEN <<"3", 1>>
                 ELSE IF i < 145 THEN <<"259200", i - 137 + 1>>
                 ELSE data[132]
<1> DEFINE d0 == Grown(data, 146)
           d1 == Write(d0, 132, Bytes("default_fees", 4))
           d2 == Write(d1, 136, Bytes("3", 1))
           d3 == Write(d2, 137, Bytes("259200", 8))
           d4 == Write(d3, 145, Slice(data, 132, 133))
<1>1. ConfigToV2(data) = d4
  BY DEF ConfigToV2
<1>2. DOMAIN d0 = 0..145
  BY DEF Grown
<1>3. ASSUME NEW i \in 0..145
      PROVE  d0[i] = IF i < 133 THEN data[i] ELSE Zero
  BY DEF Grown
<1> HIDE DEF d0
<1>4. DOMAIN d1 = 0..145
  BY <1>2 DEF Write
<1>5. ASSUME NEW i \in 0..145
      PROVE  d1[i] = IF 132 <= i /\ i < 136 THEN <<"default_fees", i - 132 + 1>> ELSE d0[i]
  BY <1>2 DEF Write, Bytes
<1> HIDE DEF d1
<1>6. DOMAIN d2 = 0..145
  BY <1>4 DEF Write
<1>7. ASSUME NEW i \in 0..145
      PROVE  d2[i] = IF i = 136 THEN <<"3", 1>> ELSE d1[i]
  BY <1>4 DEF Write, Bytes
<1> HIDE DEF d2
<1>8. DOMAIN d3 = 0..145
  BY <1>6 DEF Write
<1>9. ASSUME NEW i \in 0..145
      PROVE  d3[i] = IF 137 <= i /\ i < 145 THEN <<"259200", i - 137 + 1>> ELSE d2[i]
  BY <1>6 DEF Write, Bytes
<1> HIDE DEF d3
<1>10. DOMAIN d4 = 0..145
  BY <1>8 DEF Write
<1>11. ASSUME NEW i \in 0..145
      PROVE  d4[i] = IF i = 145 THEN data[132] ELSE d3[i]
  BY <1>8 DEF Write, Slice
<1> HIDE DEF d4
<1>12. ASSUME NEW i \in 0..145
      PROVE  d4[i] =
                 IF i < 132 THEN data[i]
                 ELSE IF i < 136 THEN <<"default_fees", i - 132 + 1>>
                 ELSE IF i < 137 THEN <<"3", 1>>
                 ELSE IF i < 145 THEN <<"259200", i - 137 + 1>>
                 ELSE data[132]
  BY <1>3, <1>5, <1>7, <1>9, <1>11
<1>13. QED
  BY <1>1, <1>10, <1>12

LEMMA ConfigToV3Bytes ==
    ASSUME NEW data, DOMAIN data = 0..145
    PROVE  /\ DOMAIN ConfigToV3(data) = 0..185
           /\ \A i \in 0..185 : ConfigToV3(data)[i] =
                 IF i < 145 THEN data[i]
                 ELSE IF i < 185 THEN <<"default_rewards", i - 145 + 1>>
                 ELSE data[145]
<1> DEFINE d0 == Grown(data, 186)
           d1 == Write(d0, 145, Bytes("default_rewards", 40))
           d2 == Write(d1, 185, Slice(data, 145, 146))
<1>1. ConfigToV3(data) = d2
  BY DEF ConfigToV3, ConfigV3Size
<1>2. DOMAIN d0 = 0..185
  BY DEF Grown
<1>3. ASSUME NEW i \in 0..185
      PROVE  d0[i] = IF i < 146 THEN data[i] ELSE Zero
  BY DEF Grown
<1> HIDE DEF d0
<1>4. DOMAIN d1 = 0..185
  BY <1>2 DEF Write
<1>5. ASSUME NEW i \in 0..185
      PROVE  d1[i] = IF 145 <= i /\ i < 185 THEN <<"default_rewards", i - 145 + 1>> ELSE d0[i]
  BY <1>2 DEF Write, Bytes
<1> HIDE DEF d1
<1>6. DOMAIN d2 = 0..185
  BY <1>4 DEF Write
<1>7. ASSUME NEW i \in 0..185
      PROVE  d2[i] = IF i = 185 THEN data[145] ELSE d1[i]
  BY <1>4 DEF Write, Slice
<1> HIDE DEF d2
<1>8. ASSUME NEW i \in 0..185
      PROVE  d2[i] =
                 IF i < 145 THEN data[i]
                 ELSE IF i < 185 THEN <<"default_rewards", i - 145 + 1>>
                 ELSE data[145]
  <2>1. CASE i < 145
    BY <2>1, <1>3, <1>5, <1>7
  <2>2. CASE 145 <= i /\ i < 185
    <3>1. d2[i] = d1[i]
      BY <2>2, <1>7
    <3>2. d1[i] = <<"default_rewards", i - 145 + 1>>
      BY <2>2, <1>5
    <3>3. QED
      BY <2>2, <3>1, <3>2
  <2>3. CASE i = 185
    BY <2>3, <1>5, <1>7
  <2>4. QED
    BY <2>1, <2>2, <2>3
<1>9. QED
  BY <1>1, <1>6, <1>8

LEMMA PoolToNowBytes ==
    ASSUME NEW data, DOMAIN data = 0..60
    PROVE  /\ DOMAIN PoolToNow(data) = 0..68
           /\ \A i \in 0..68 : PoolToNow(data)[i] =
                 IF i < 60 THEN data[i]
                 ELSE IF i < 68 THEN Zero
                 ELSE data[60]
<1> DEFINE d0 == Grown(data, 69)
           d1 == Write(d0, 60, Zeros(8))
           d2 == Write(d1, 68, Slice(data, 60, 61))
<1>1. PoolToNow(data) = d2
  BY DEF PoolToNow
<1>2. DOMAIN d0 = 0..68
  BY DEF Grown
<1>3. ASSUME NEW i \in 0..68
      PROVE  d0[i] = IF i < 61 THEN data[i] ELSE Zero
  BY DEF Grown
<1> HIDE DEF d0
<1>4. DOMAIN d1 = 0..68
  BY <1>2 DEF Write
<1>5. ASSUME NEW i \in 0..68
      PROVE  d1[i] = IF 60 <= i /\ i < 68 THEN Zero ELSE d0[i]
  BY <1>2 DEF Write, Zeros
<1> HIDE DEF d1
<1>6. DOMAIN d2 = 0..68
  BY <1>4 DEF Write
<1>7. ASSUME NEW i \in 0..68
      PROVE  d2[i] = IF i = 68 THEN data[60] ELSE d1[i]
  BY <1>4 DEF Write, Slice
<1> HIDE DEF d2
<1>8. ASSUME NEW i \in 0..68
      PROVE  d2[i] =
                 IF i < 60 THEN data[i]
                 ELSE IF i < 68 THEN Zero
                 ELSE data[60]
  BY <1>3, <1>5, <1>7
<1>9. QED
  BY <1>1, <1>6, <1>8

(* Those ranges are the fields of the next layout. *)

LEMMA AgentToV2Reads ==
    ASSUME NEW data, DOMAIN data = 0..94, NEW old, NEW new, old \subseteq new,
           {"volume_sol", "deliveries..last_task"} \subseteq new,
           ReadsTrue(data, AgentV1, old)
    PROVE  ReadsTrue(AgentToV2(data), AgentV2, new)
<1> DEFINE grown == AgentToV2(data)
<1>1. /\ DOMAIN grown = 0..122
      /\ \A i \in 0..122 : grown[i] =
               IF i < 75 THEN data[i]
               ELSE IF i < 83 THEN Zero
               ELSE IF i < 99 THEN data[i - 8]
               ELSE IF i < 119 THEN Zero
               ELSE data[i - 28]
  BY AgentToV2Bytes
<1> HIDE DEF grown
<1>2. /\ FieldTrue(data, "authority..volume_processed", 0, 75, old)
      /\ FieldTrue(data, "outcomes", 75, 91, old)
      /\ FieldTrue(data, "sponsor", 91, 94, old)
      /\ FieldTrue(data, "bump", 94, 95, old)
  BY AgentV1Fields
<1>3. FieldTrue(grown, "authority..volume_processed", 0, 75, new)
  <2>1. Slice(grown, 0, 75) = Slice(data, 0, 75)
    BY <1>1 DEF Slice
  <2>2. QED
    BY <1>2, <2>1 DEF FieldTrue
<1>4. FieldTrue(grown, "volume_sol", 75, 83, new)
  <2>1. Slice(grown, 75, 83) = Zeros(8)
    BY <1>1 DEF Slice, Zeros
  <2>2. Default("volume_sol", 8) = Zeros(8)
    BY DEF Default
  <2>3. QED
    BY <2>1, <2>2 DEF FieldTrue
<1>5. FieldTrue(grown, "outcomes", 83, 99, new)
  <2>1. Slice(grown, 83, 99) = Slice(data, 75, 91)
    BY <1>1 DEF Slice
  <2>2. QED
    BY <1>2, <2>1 DEF FieldTrue
<1>6. FieldTrue(grown, "deliveries..last_task", 99, 119, new)
  <2>1. Slice(grown, 99, 119) = Zeros(20)
    BY <1>1 DEF Slice, Zeros
  <2>2. Default("deliveries..last_task", 20) = Zeros(20)
    BY DEF Default
  <2>3. QED
    BY <2>1, <2>2 DEF FieldTrue
<1>7. FieldTrue(grown, "sponsor", 119, 122, new)
  <2>1. Slice(grown, 119, 122) = Slice(data, 91, 94)
    BY <1>1 DEF Slice
  <2>2. QED
    BY <1>2, <2>1 DEF FieldTrue
<1>8. FieldTrue(grown, "bump", 122, 123, new)
  <2>1. Slice(grown, 122, 123) = Slice(data, 94, 95)
    BY <1>1 DEF Slice
  <2>2. QED
    BY <1>2, <2>1 DEF FieldTrue
<1>9. QED
  BY <1>1, <1>3, <1>4, <1>5, <1>6, <1>7, <1>8, AgentV2Fields DEF grown

LEMMA AgentToV3Reads ==
    ASSUME NEW data, DOMAIN data = 0..122, NEW old, NEW new, old \subseteq new,
           {"hibernation..friction"} \subseteq new,
           ReadsTrue(data, AgentV2, old)
    PROVE  ReadsTrue(AgentToV3(data), AgentNow, new)
<1> DEFINE grown == AgentToV3(data)
<1>1. /\ DOMAIN grown = 0..145
      /\ \A i \in 0..145 : grown[i] =
               IF i < 122 THEN data[i]
               ELSE IF i < 145 THEN Zero
               ELSE data[122]
  BY AgentToV3Bytes
<1> HIDE DEF grown
<1>2. /\ FieldTrue(data, "authority..volume_processed", 0, 75, old)
      /\ FieldTrue(data, "volume_sol", 75, 83, old)
      /\ FieldTrue(data, "outcomes", 83, 99, old)
      /\ FieldTrue(data, "deliveries..last_task", 99, 119, old)
      /\ FieldTrue(data, "sponsor", 119, 122, old)
      /\ FieldTrue(data, "bump", 122, 123, old)
  BY AgentV2Fields
<1>3. FieldTrue(grown, "authority..volume_processed", 0, 75, new)
  <2>1. Slice(grown, 0, 75) = Slice(data, 0, 75)
    BY <1>1 DEF Slice
  <2>2. QED
    BY <1>2, <2>1 DEF FieldTrue
<1>4. FieldTrue(grown, "volume_sol", 75, 83, new)
  <2>1. Slice(grown, 75, 83) = Slice(data, 75, 83)
    BY <1>1 DEF Slice
  <2>2. QED
    BY <1>2, <2>1 DEF FieldTrue
<1>5. FieldTrue(grown, "outcomes", 83, 99, new)
  <2>1. Slice(grown, 83, 99) = Slice(data, 83, 99)
    BY <1>1 DEF Slice
  <2>2. QED
    BY <1>2, <2>1 DEF FieldTrue
<1>6. FieldTrue(grown, "deliveries..last_task", 99, 119, new)
  <2>1. Slice(grown, 99, 119) = Slice(data, 99, 119)
    BY <1>1 DEF Slice
  <2>2. QED
    BY <1>2, <2>1 DEF FieldTrue
<1>7. FieldTrue(grown, "sponsor", 119, 122, new)
  <2>1. Slice(grown, 119, 122) = Slice(data, 119, 122)
    BY <1>1 DEF Slice
  <2>2. QED
    BY <1>2, <2>1 DEF FieldTrue
<1>8. FieldTrue(grown, "hibernation..friction", 122, 145, new)
  <2>1. Slice(grown, 122, 145) = Zeros(23)
    BY <1>1 DEF Slice, Zeros
  <2>2. Default("hibernation..friction", 23) = Zeros(23)
    BY DEF Default
  <2>3. QED
    BY <2>1, <2>2 DEF FieldTrue
<1>9. FieldTrue(grown, "bump", 145, 146, new)
  <2>1. Slice(grown, 145, 146) = Slice(data, 122, 123)
    BY <1>1 DEF Slice
  <2>2. QED
    BY <1>2, <2>1 DEF FieldTrue
<1>10. QED
  BY <1>1, <1>3, <1>4, <1>5, <1>6, <1>7, <1>8, <1>9, AgentNowFields DEF grown

LEMMA ConfigToV2Reads ==
    ASSUME NEW data, DOMAIN data = 0..132, NEW old, NEW new, old \subseteq new,
           {"fees", "max_corrections", "deadline_validation"} \subseteq new,
           ReadsTrue(data, ConfigV1, old)
    PROVE  ReadsTrue(ConfigToV2(data), ConfigV2, new)
<1> DEFINE grown == ConfigToV2(data)
<1>1. /\ DOMAIN grown = 0..145
      /\ \A i \in 0..145 : grown[i] =
               IF i < 132 THEN data[i]
               ELSE IF i < 136 THEN <<"default_fees", i - 132 + 1>>
               ELSE IF i < 137 THEN <<"3", 1>>
               ELSE IF i < 145 THEN <<"259200", i - 137 + 1>>
               ELSE data[132]
  BY ConfigToV2Bytes
<1> HIDE DEF grown
<1>2. /\ FieldTrue(data, "admin..total_agents", 0, 132, old)
      /\ FieldTrue(data, "bump", 132, 133, old)
  BY ConfigV1Fields
<1>3. FieldTrue(grown, "admin..total_agents", 0, 132, new)
  <2>1. Slice(grown, 0, 132) = Slice(data, 0, 132)
    BY <1>1 DEF Slice
  <2>2. QED
    BY <1>2, <2>1 DEF FieldTrue
<1>4. FieldTrue(grown, "fees", 132, 136, new)
  <2>1. Slice(grown, 132, 136) = Bytes("default_fees", 4)
    BY <1>1 DEF Slice, Bytes
  <2>2. Default("fees", 4) = Bytes("default_fees", 4)
    BY DEF Default
  <2>3. QED
    BY <2>1, <2>2 DEF FieldTrue
<1>5. FieldTrue(grown, "max_corrections", 136, 137, new)
  <2>1. Slice(grown, 136, 137) = Bytes("3", 1)
    BY <1>1 DEF Slice, Bytes
  <2>2. Default("max_corrections", 1) = Bytes("3", 1)
    BY DEF Default
  <2>3. QED
    BY <2>1, <2>2 DEF FieldTrue
<1>6. FieldTrue(grown, "deadline_validation", 137, 145, new)
  <2>1. Slice(grown, 137, 145) = Bytes("259200", 8)
    BY <1>1 DEF Slice, Bytes
  <2>2. Default("deadline_validation", 8) = Bytes("259200", 8)
    BY DEF Default
  <2>3. QED
    BY <2>1, <2>2 DEF FieldTrue
<1>7. FieldTrue(grown, "bump", 145, 146, new)
  <2>1. Slice(grown, 145, 146) = Slice(data, 132, 133)
    BY <1>1 DEF Slice
  <2>2. QED
    BY <1>2, <2>1 DEF FieldTrue
<1>8. QED
  BY <1>1, <1>3, <1>4, <1>5, <1>6, <1>7, ConfigV2Fields DEF grown

LEMMA ConfigToV3Reads ==
    ASSUME NEW data, DOMAIN data = 0..145, NEW old, NEW new, old \subseteq new,
           {"work_rewards"} \subseteq new,
           ReadsTrue(data, ConfigV2, old)
    PROVE  ReadsTrue(ConfigToV3(data), ConfigV3, new)
<1> DEFINE grown == ConfigToV3(data)
<1>1. /\ DOMAIN grown = 0..185
      /\ \A i \in 0..185 : grown[i] =
               IF i < 145 THEN data[i]
               ELSE IF i < 185 THEN <<"default_rewards", i - 145 + 1>>
               ELSE data[145]
  BY ConfigToV3Bytes
<1> HIDE DEF grown
<1>2. /\ FieldTrue(data, "admin..total_agents", 0, 132, old)
      /\ FieldTrue(data, "fees", 132, 136, old)
      /\ FieldTrue(data, "max_corrections", 136, 137, old)
      /\ FieldTrue(data, "deadline_validation", 137, 145, old)
      /\ FieldTrue(data, "bump", 145, 146, old)
  BY ConfigV2Fields
<1>3. FieldTrue(grown, "admin..total_agents", 0, 132, new)
  <2>1. Slice(grown, 0, 132) = Slice(data, 0, 132)
    BY <1>1 DEF Slice
  <2>2. QED
    BY <1>2, <2>1 DEF FieldTrue
<1>4. FieldTrue(grown, "fees", 132, 136, new)
  <2>1. Slice(grown, 132, 136) = Slice(data, 132, 136)
    BY <1>1 DEF Slice
  <2>2. QED
    BY <1>2, <2>1 DEF FieldTrue
<1>5. FieldTrue(grown, "max_corrections", 136, 137, new)
  <2>1. Slice(grown, 136, 137) = Slice(data, 136, 137)
    BY <1>1 DEF Slice
  <2>2. QED
    BY <1>2, <2>1 DEF FieldTrue
<1>6. FieldTrue(grown, "deadline_validation", 137, 145, new)
  <2>1. Slice(grown, 137, 145) = Slice(data, 137, 145)
    BY <1>1 DEF Slice
  <2>2. QED
    BY <1>2, <2>1 DEF FieldTrue
<1>7. FieldTrue(grown, "work_rewards", 145, 185, new)
  <2>1. Slice(grown, 145, 185) = Bytes("default_rewards", 40)
    BY <1>1 DEF Slice, Bytes
  <2>2. Default("work_rewards", 40) = Bytes("default_rewards", 40)
    BY DEF Default
  <2>3. QED
    BY <2>1, <2>2 DEF FieldTrue
<1>8. FieldTrue(grown, "bump", 185, 186, new)
  <2>1. Slice(grown, 185, 186) = Slice(data, 145, 146)
    BY <1>1 DEF Slice
  <2>2. QED
    BY <1>2, <2>1 DEF FieldTrue
<1>9. QED
  BY <1>1, <1>3, <1>4, <1>5, <1>6, <1>7, <1>8, ConfigV3Fields DEF grown

LEMMA PoolToNowReads ==
    ASSUME NEW data, DOMAIN data = 0..60, NEW old, NEW new, old \subseteq new,
           {"total_active_exposure"} \subseteq new,
           ReadsTrue(data, PoolV1, old)
    PROVE  ReadsTrue(PoolToNow(data), PoolNow, new)
<1> DEFINE grown == PoolToNow(data)
<1>1. /\ DOMAIN grown = 0..68
      /\ \A i \in 0..68 : grown[i] =
               IF i < 60 THEN data[i]
               ELSE IF i < 68 THEN Zero
               ELSE data[60]
  BY PoolToNowBytes
<1> HIDE DEF grown
<1>2. /\ FieldTrue(data, "total_balance..authority", 0, 60, old)
      /\ FieldTrue(data, "bump", 60, 61, old)
  BY PoolV1Fields
<1>3. FieldTrue(grown, "total_balance..authority", 0, 60, new)
  <2>1. Slice(grown, 0, 60) = Slice(data, 0, 60)
    BY <1>1 DEF Slice
  <2>2. QED
    BY <1>2, <2>1 DEF FieldTrue
<1>4. FieldTrue(grown, "total_active_exposure", 60, 68, new)
  <2>1. Slice(grown, 60, 68) = Zeros(8)
    BY <1>1 DEF Slice, Zeros
  <2>2. Default("total_active_exposure", 8) = Zeros(8)
    BY DEF Default
  <2>3. QED
    BY <2>1, <2>2 DEF FieldTrue
<1>5. FieldTrue(grown, "bump", 68, 69, new)
  <2>1. Slice(grown, 68, 69) = Slice(data, 60, 61)
    BY <1>1 DEF Slice
  <2>2. QED
    BY <1>2, <2>1 DEF FieldTrue
<1>6. QED
  BY <1>1, <1>3, <1>4, <1>5, PoolNowFields DEF grown

-----------------------------------------------------------------------------
(* Disputes *)

LEMMA DisputeGrownBytes ==
    ASSUME NEW data
    PROVE  DisputeGrown(data) = [i \in 0..186 |-> IF i \in DOMAIN data THEN data[i] ELSE Zero]
<1>1. SizeOf(DisputeNow) = 187
  BY DEF SizeOf, DisputeNow
<1>2. QED
  BY <1>1 DEF DisputeGrown, Grown

LEMMA AmountsAre ==
    ASSUME NEW data
    PROVE  AmountsRead(data) = <<Slice(data, 171, 179), Slice(data, 179, 187)>>
BY DEF AmountsRead, Read, DisputeNow

(* The amounts before and after a dispute grows agree only if they are 0. *)
LEMMA AmountsGrown ==
    ASSUME NEW data, NEW last \in Nat, DOMAIN data = 0..last,
           last \in {168, 169, 177, 185}
    PROVE  AmountsRead(DisputeGrown(data)) = AmountsWritten(data)
              <=> AmountsWritten(data) = <<Zeros(8), Zeros(8)>>
<1> DEFINE grown == DisputeGrown(data)
<1>1. ASSUME NEW i \in 0..186
      PROVE  grown[i] = IF i <= last THEN data[i] ELSE Zero
  <2>1. i \in DOMAIN data <=> i <= last
    BY SMT
  <2>2. grown[i] = IF i \in DOMAIN data THEN data[i] ELSE Zero
    BY DisputeGrownBytes
  <2>3. QED
    BY <2>1, <2>2, Zenon
<1> HIDE DEF grown
<1>2. Size(data) = last + 1
  BY SizeIs
<1>3. AmountsRead(grown) = <<Slice(grown, 171, 179), Slice(grown, 179, 187)>>
  BY AmountsAre
<1>4. CASE last < 177
  <2>0. ASSUME NEW i \in 171..186
        PROVE  grown[i] = Zero
    <3>1. i \in 0..186 /\ ~(i <= last)
      BY <1>4
    <3>2. QED
      BY <1>1, <3>1
  <2>1. Slice(grown, 171, 179) = Zeros(8)
    BY <2>0 DEF Slice, Zeros
  <2>2. Slice(grown, 179, 187) = Zeros(8)
    BY <2>0 DEF Slice, Zeros
  <2>3. AmountsWritten(data) = <<Zeros(8), Zeros(8)>>
    BY <1>2, <1>4 DEF AmountsWritten
  <2>4. QED
    BY <1>3, <2>1, <2>2, <2>3 DEF grown
<1>5. CASE last = 177
  <2>1. AmountsWritten(data) = <<Slice(data, 170, 178), Zeros(8)>>
    BY <1>2, <1>5 DEF AmountsWritten
  <2>2. Slice(grown, 179, 187) = Zeros(8)
    BY <1>1, <1>5 DEF Slice, Zeros
  <2>3. ASSUME Slice(grown, 171, 179) = Slice(data, 170, 178)
        PROVE  Slice(data, 170, 178) = Zeros(8)
    <3>1. \A j \in 1..8 : grown[171 + j - 1] = data[170 + j - 1]
      BY <2>3 DEF Slice
    <3>2. /\ grown[171] = data[170] /\ grown[172] = data[171] /\ grown[173] = data[172]
          /\ grown[174] = data[173] /\ grown[175] = data[174] /\ grown[176] = data[175]
          /\ grown[177] = data[176] /\ grown[178] = data[177]
      BY <3>1
    <3>3. \A i \in 170..177 : data[i] = Zero
      BY <1>1, <1>5, <3>2
    <3>4. QED
      BY <3>3 DEF Slice, Zeros
  <2>4. ASSUME Slice(data, 170, 178) = Zeros(8)
        PROVE  Slice(grown, 171, 179) = Zeros(8)
    <3>1. \A j \in 1..8 : data[170 + j - 1] = Zero
      BY <2>4 DEF Slice, Zeros
    <3>2. \A i \in 171..178 : grown[i] = Zero
      <4>1. ASSUME NEW i \in 171..178
            PROVE  grown[i] = Zero
        <5>1. CASE i = 178
          BY <1>1, <1>5, <5>1
        <5>2. CASE i < 178
          <6>1. i - 169 \in 1..8 /\ 170 + (i - 169) - 1 = i
            BY <5>2
          <6>2. data[i] = Zero
            BY <3>1, <6>1
          <6>3. QED
            BY <1>1, <1>5, <5>2, <6>2
        <5>3. QED
          BY <5>1, <5>2
      <4>2. QED
        BY <4>1
    <3>3. QED
      BY <3>2 DEF Slice, Zeros
  <2>5. QED
    BY <1>3, <2>1, <2>2, <2>3, <2>4 DEF grown
<1>6. CASE last = 185
  <2>1. AmountsWritten(data) = <<Slice(data, 170, 178), Slice(data, 178, 186)>>
    BY <1>2, <1>6 DEF AmountsWritten
  <2>2. ASSUME Slice(grown, 171, 179) = Slice(data, 170, 178),
               Slice(grown, 179, 187) = Slice(data, 178, 186)
        PROVE  Slice(data, 170, 178) = Zeros(8) /\ Slice(data, 178, 186) = Zeros(8)
    <3>1. \A j \in 1..8 : grown[171 + j - 1] = data[170 + j - 1]
      BY <2>2 DEF Slice
    <3>2. /\ grown[171] = data[170] /\ grown[172] = data[171] /\ grown[173] = data[172]
          /\ grown[174] = data[173] /\ grown[175] = data[174] /\ grown[176] = data[175]
          /\ grown[177] = data[176] /\ grown[178] = data[177]
      BY <3>1
    <3>3. \A j \in 1..8 : grown[179 + j - 1] = data[178 + j - 1]
      BY <2>2 DEF Slice
    <3>4. /\ grown[179] = data[178] /\ grown[180] = data[179] /\ grown[181] = data[180]
          /\ grown[182] = data[181] /\ grown[183] = data[182] /\ grown[184] = data[183]
          /\ grown[185] = data[184] /\ grown[186] = data[185]
      BY <3>3
    <3>5. \A i \in 178..185 : data[i] = Zero
      BY <1>1, <1>6, <3>4
    <3>6. \A i \in 170..177 : data[i] = Zero
      BY <1>1, <1>6, <3>2, <3>5
    <3>7. QED
      BY <3>5, <3>6 DEF Slice, Zeros
  <2>3. ASSUME Slice(data, 170, 178) = Zeros(8), Slice(data, 178, 186) = Zeros(8)
        PROVE  Slice(grown, 171, 179) = Zeros(8) /\ Slice(grown, 179, 187) = Zeros(8)
    <3>1. \A j \in 1..8 : data[170 + j - 1] = Zero /\ data[178 + j - 1] = Zero
      BY <2>3 DEF Slice, Zeros
    <3>2. ASSUME NEW i \in 171..186
          PROVE  grown[i] = Zero
      <4>1. CASE i = 186
        BY <1>1, <1>6, <4>1
      <4>2. CASE i < 178
        <5>1. i - 169 \in 1..8 /\ 170 + (i - 169) - 1 = i
          BY <4>2
        <5>2. data[i] = Zero
          BY <3>1, <5>1
        <5>3. QED
          BY <1>1, <1>6, <4>2, <5>2
      <4>3. CASE 178 <= i /\ i < 186
        <5>1. i - 177 \in 1..8 /\ 178 + (i - 177) - 1 = i
          BY <4>3
        <5>2. data[i] = Zero
          BY <3>1, <5>1
        <5>3. QED
          BY <1>1, <1>6, <4>3, <5>2
      <4>4. QED
        BY <4>1, <4>2, <4>3
    <3>3. QED
      BY <3>2 DEF Slice, Zeros
  <2>4. QED
    BY <1>3, <2>1, <2>2, <2>3 DEF grown
<1>7. QED
  BY <1>4, <1>5, <1>6
-----------------------------------------------------------------------------
(* The invariant *)

AgentKept ==
    \/ DOMAIN agent = 0..94 /\ ReadsTrue(agent, AgentV1, {})
    \/ DOMAIN agent = 0..122 /\ ReadsTrue(agent, AgentV2, {"volume_sol", "deliveries..last_task"})
    \/ /\ DOMAIN agent = 0..145
       /\ ReadsTrue(agent, AgentNow, {"volume_sol", "deliveries..last_task", "hibernation..friction"})

ConfigKept ==
    \/ DOMAIN config = 0..132 /\ ReadsTrue(config, ConfigV1, {})
    \/ /\ DOMAIN config = 0..145
       /\ ReadsTrue(config, ConfigV2, {"fees", "max_corrections", "deadline_validation"})
    \/ /\ DOMAIN config = 0..185
       /\ ReadsTrue(config, ConfigV3,
                    {"fees", "max_corrections", "deadline_validation", "work_rewards"})
    \/ DOMAIN config = 0..195

PoolKept ==
    \/ DOMAIN pool = 0..60 /\ ReadsTrue(pool, PoolV1, {})
    \/ DOMAIN pool = 0..68 /\ ReadsTrue(pool, PoolNow, {"total_active_exposure"})

DisputeOfSomeVersion(data) == DOMAIN data \in {0..168, 0..169, 0..177, 0..185, 0..186}

DisputesKept ==
    /\ DOMAIN disputes = Contracts
    /\ \A c \in Contracts : DisputeOfSomeVersion(disputes[c])

(* Every account has the size of a version; an agent, a pool and a
   configuration below the present version have the fields of theirs. *)
MigrationsInv == AgentKept /\ ConfigKept /\ PoolKept /\ DisputesKept

LEMMA Sizes ==
    ASSUME NEW data
    PROVE  /\ DOMAIN data = 0..94 => Size(data) = 95
           /\ DOMAIN data = 0..122 => Size(data) = 123
           /\ DOMAIN data = 0..145 => Size(data) = 146
           /\ DOMAIN data = 0..132 => Size(data) = 133
           /\ DOMAIN data = 0..185 => Size(data) = 186
           /\ DOMAIN data = 0..195 => Size(data) = 196
           /\ DOMAIN data = 0..60 => Size(data) = 61
           /\ DOMAIN data = 0..68 => Size(data) = 69
           /\ DOMAIN data = 0..168 => Size(data) = 169
           /\ DOMAIN data = 0..169 => Size(data) = 170
           /\ DOMAIN data = 0..177 => Size(data) = 178
           /\ DOMAIN data = 0..186 => Size(data) = 187
<1>1. ASSUME DOMAIN data = 0..94 PROVE Size(data) = 95
  <2>1. Size(data) = 94 + 1
    BY <1>1, 94 \in Nat, SizeIs
  <2>2. QED
    BY <2>1
<1>2. ASSUME DOMAIN data = 0..122 PROVE Size(data) = 123
  <2>1. Size(data) = 122 + 1
    BY <1>2, 122 \in Nat, SizeIs
  <2>2. QED
    BY <2>1
<1>3. ASSUME DOMAIN data = 0..145 PROVE Size(data) = 146
  <2>1. Size(data) = 145 + 1
    BY <1>3, 145 \in Nat, SizeIs
  <2>2. QED
    BY <2>1
<1>4. ASSUME DOMAIN data = 0..132 PROVE Size(data) = 133
  <2>1. Size(data) = 132 + 1
    BY <1>4, 132 \in Nat, SizeIs
  <2>2. QED
    BY <2>1
<1>5. ASSUME DOMAIN data = 0..185 PROVE Size(data) = 186
  <2>1. Size(data) = 185 + 1
    BY <1>5, 185 \in Nat, SizeIs
  <2>2. QED
    BY <2>1
<1>6. ASSUME DOMAIN data = 0..195 PROVE Size(data) = 196
  <2>1. Size(data) = 195 + 1
    BY <1>6, 195 \in Nat, SizeIs
  <2>2. QED
    BY <2>1
<1>7. ASSUME DOMAIN data = 0..60 PROVE Size(data) = 61
  <2>1. Size(data) = 60 + 1
    BY <1>7, 60 \in Nat, SizeIs
  <2>2. QED
    BY <2>1
<1>8. ASSUME DOMAIN data = 0..68 PROVE Size(data) = 69
  <2>1. Size(data) = 68 + 1
    BY <1>8, 68 \in Nat, SizeIs
  <2>2. QED
    BY <2>1
<1>9. ASSUME DOMAIN data = 0..168 PROVE Size(data) = 169
  <2>1. Size(data) = 168 + 1
    BY <1>9, 168 \in Nat, SizeIs
  <2>2. QED
    BY <2>1
<1>10. ASSUME DOMAIN data = 0..169 PROVE Size(data) = 170
  <2>1. Size(data) = 169 + 1
    BY <1>10, 169 \in Nat, SizeIs
  <2>2. QED
    BY <2>1
<1>11. ASSUME DOMAIN data = 0..177 PROVE Size(data) = 178
  <2>1. Size(data) = 177 + 1
    BY <1>11, 177 \in Nat, SizeIs
  <2>2. QED
    BY <2>1
<1>12. ASSUME DOMAIN data = 0..186 PROVE Size(data) = 187
  <2>1. Size(data) = 186 + 1
    BY <1>12, 186 \in Nat, SizeIs
  <2>2. QED
    BY <2>1
<1>13. QED
  BY <1>1, <1>2, <1>3, <1>4, <1>5, <1>6, <1>7, <1>8, <1>9, <1>10, <1>11, <1>12

LEMMA SizesNow == SizeOf(ConfigNow) = 196 /\ SizeOf(DisputeNow) = 187
BY DEF SizeOf, ConfigNow, DisputeNow

(* Nothing is read in an account of another size. *)
LEMMA OtherSize ==
    ASSUME NEW data, NEW layout, NEW new, Size(data) # SizeOf(layout)
    PROVE  ReadsTrue(data, layout, new)
BY DEF ReadsTrue

LEMMA MigrationsInvImplies == MigrationsInv => AccountsKeepFields
<1> SUFFICES ASSUME MigrationsInv PROVE AccountsKeepFields
  OBVIOUS
<1>1. /\ SizeOf(AgentV2) = 123 /\ SizeOf(AgentNow) = 146 /\ SizeOf(PoolNow) = 69
      /\ SizeOf(ConfigV2) = 146 /\ SizeOf(ConfigV3) = 186
  BY AgentV2Fields, AgentNowFields, PoolNowFields, ConfigV2Fields, ConfigV3Fields
<1>2. ReadsTrue(agent, AgentV2, {"volume_sol", "deliveries..last_task"})
  BY <1>1, Sizes, OtherSize DEF MigrationsInv, AgentKept
<1>3. ReadsTrue(agent, AgentNow, {"volume_sol", "deliveries..last_task", "hibernation..friction"})
  BY <1>1, Sizes, OtherSize DEF MigrationsInv, AgentKept
<1>4. ReadsTrue(pool, PoolNow, {"total_active_exposure"})
  BY <1>1, Sizes, OtherSize DEF MigrationsInv, PoolKept
<1>5. ReadsTrue(config, ConfigV2, {"fees", "max_corrections", "deadline_validation"})
  BY <1>1, Sizes, OtherSize DEF MigrationsInv, ConfigKept
<1>6. ReadsTrue(config, ConfigV3,
                {"fees", "max_corrections", "deadline_validation", "work_rewards"})
  BY <1>1, Sizes, OtherSize DEF MigrationsInv, ConfigKept
<1>7. QED
  BY <1>2, <1>3, <1>4, <1>5, <1>6 DEF AccountsKeepFields

(* The accounts of every version. *)
LEMMA WrittenOfVersions ==
    ASSUME NEW new
    PROVE  /\ DOMAIN Written(AgentV1, {}) = 0..94 /\ ReadsTrue(Written(AgentV1, {}), AgentV1, new)
           /\ DOMAIN Written(AgentV2, {}) = 0..122 /\ ReadsTrue(Written(AgentV2, {}), AgentV2, new)
           /\ DOMAIN Written(AgentNow, {}) = 0..145 /\ ReadsTrue(Written(AgentNow, {}), AgentNow, new)
           /\ DOMAIN Written(ConfigV1, {}) = 0..132 /\ ReadsTrue(Written(ConfigV1, {}), ConfigV1, new)
           /\ DOMAIN Written(ConfigV2, {}) = 0..145 /\ ReadsTrue(Written(ConfigV2, {}), ConfigV2, new)
           /\ DOMAIN Written(ConfigV3, {}) = 0..185 /\ ReadsTrue(Written(ConfigV3, {}), ConfigV3, new)
           /\ DOMAIN Written(PoolV1, {}) = 0..60 /\ ReadsTrue(Written(PoolV1, {}), PoolV1, new)
           /\ DOMAIN Written(PoolNow, {}) = 0..68 /\ ReadsTrue(Written(PoolNow, {}), PoolNow, new)
<1>1. DOMAIN Written(AgentV1, {}) = 0..94 /\ ReadsTrue(Written(AgentV1, {}), AgentV1, new)
  <2>1. Ordered(AgentV1) /\ SizeOf(AgentV1) = 95
    BY AgentV1Fields
  <2>2. DOMAIN Written(AgentV1, {}) = 0..94
    BY <2>1 DEF Written
  <2>3. SizeOf(AgentV1) \in Nat
    BY <2>1
  <2>4. QED
    BY <2>1, <2>2, <2>3, WrittenReads
<1>2. DOMAIN Written(AgentV2, {}) = 0..122 /\ ReadsTrue(Written(AgentV2, {}), AgentV2, new)
  <2>1. Ordered(AgentV2) /\ SizeOf(AgentV2) = 123
    BY AgentV2Fields
  <2>2. DOMAIN Written(AgentV2, {}) = 0..122
    BY <2>1 DEF Written
  <2>3. SizeOf(AgentV2) \in Nat
    BY <2>1
  <2>4. QED
    BY <2>1, <2>2, <2>3, WrittenReads
<1>3. DOMAIN Written(AgentNow, {}) = 0..145 /\ ReadsTrue(Written(AgentNow, {}), AgentNow, new)
  <2>1. Ordered(AgentNow) /\ SizeOf(AgentNow) = 146
    BY AgentNowFields
  <2>2. DOMAIN Written(AgentNow, {}) = 0..145
    BY <2>1 DEF Written
  <2>3. SizeOf(AgentNow) \in Nat
    BY <2>1
  <2>4. QED
    BY <2>1, <2>2, <2>3, WrittenReads
<1>4. DOMAIN Written(ConfigV1, {}) = 0..132 /\ ReadsTrue(Written(ConfigV1, {}), ConfigV1, new)
  <2>1. Ordered(ConfigV1) /\ SizeOf(ConfigV1) = 133
    BY ConfigV1Fields
  <2>2. DOMAIN Written(ConfigV1, {}) = 0..132
    BY <2>1 DEF Written
  <2>3. SizeOf(ConfigV1) \in Nat
    BY <2>1
  <2>4. QED
    BY <2>1, <2>2, <2>3, WrittenReads
<1>5. DOMAIN Written(ConfigV2, {}) = 0..145 /\ ReadsTrue(Written(ConfigV2, {}), ConfigV2, new)
  <2>1. Ordered(ConfigV2) /\ SizeOf(ConfigV2) = 146
    BY ConfigV2Fields
  <2>2. DOMAIN Written(ConfigV2, {}) = 0..145
    BY <2>1 DEF Written
  <2>3. SizeOf(ConfigV2) \in Nat
    BY <2>1
  <2>4. QED
    BY <2>1, <2>2, <2>3, WrittenReads
<1>6. DOMAIN Written(ConfigV3, {}) = 0..185 /\ ReadsTrue(Written(ConfigV3, {}), ConfigV3, new)
  <2>1. Ordered(ConfigV3) /\ SizeOf(ConfigV3) = 186
    BY ConfigV3Fields
  <2>2. DOMAIN Written(ConfigV3, {}) = 0..185
    BY <2>1 DEF Written
  <2>3. SizeOf(ConfigV3) \in Nat
    BY <2>1
  <2>4. QED
    BY <2>1, <2>2, <2>3, WrittenReads
<1>7. DOMAIN Written(PoolV1, {}) = 0..60 /\ ReadsTrue(Written(PoolV1, {}), PoolV1, new)
  <2>1. Ordered(PoolV1) /\ SizeOf(PoolV1) = 61
    BY PoolV1Fields
  <2>2. DOMAIN Written(PoolV1, {}) = 0..60
    BY <2>1 DEF Written
  <2>3. SizeOf(PoolV1) \in Nat
    BY <2>1
  <2>4. QED
    BY <2>1, <2>2, <2>3, WrittenReads
<1>8. DOMAIN Written(PoolNow, {}) = 0..68 /\ ReadsTrue(Written(PoolNow, {}), PoolNow, new)
  <2>1. Ordered(PoolNow) /\ SizeOf(PoolNow) = 69
    BY PoolNowFields
  <2>2. DOMAIN Written(PoolNow, {}) = 0..68
    BY <2>1 DEF Written
  <2>3. SizeOf(PoolNow) \in Nat
    BY <2>1
  <2>4. QED
    BY <2>1, <2>2, <2>3, WrittenReads
<1>9. QED
  BY <1>1, <1>2, <1>3, <1>4, <1>5, <1>6, <1>7, <1>8

LEMMA MigrationsInvInit == MigrationsInit => MigrationsInv
<1> SUFFICES ASSUME MigrationsInit PROVE MigrationsInv
  OBVIOUS
<1>1. AgentKept
  <2>1. CASE agent = Written(AgentV1, {})
    BY <2>1, WrittenOfVersions DEF AgentKept
  <2>2. CASE agent = Written(AgentV2, {})
    BY <2>2, WrittenOfVersions DEF AgentKept
  <2>3. CASE agent = Written(AgentNow, {})
    BY <2>3, WrittenOfVersions DEF AgentKept
  <2>4. QED
    BY <2>1, <2>2, <2>3 DEF MigrationsInit
<1>2. ConfigKept
  <2>1. CASE config = Written(ConfigV1, {})
    BY <2>1, WrittenOfVersions DEF ConfigKept
  <2>2. CASE config = Written(ConfigV2, {})
    BY <2>2, WrittenOfVersions DEF ConfigKept
  <2>3. CASE config = Written(ConfigV3, {})
    BY <2>3, WrittenOfVersions DEF ConfigKept
  <2>4. CASE config = Written(ConfigNow, {})
    BY <2>4, SizesNow DEF ConfigKept, Written
  <2>5. QED
    BY <2>1, <2>2, <2>3, <2>4 DEF MigrationsInit
<1>3. PoolKept
  <2>1. CASE pool = Written(PoolV1, {})
    BY <2>1, WrittenOfVersions DEF PoolKept
  <2>2. CASE pool = Written(PoolNow, {})
    BY <2>2, WrittenOfVersions DEF PoolKept
  <2>3. QED
    BY <2>1, <2>2 DEF MigrationsInit
<1>4. DisputesKept
  <2>1. /\ SizeOf(DisputeV1) = 169 /\ SizeOf(DisputeV2) = 170 /\ SizeOf(DisputeV3) = 178
        /\ SizeOf(DisputeV4) = 186 /\ SizeOf(DisputeNow) = 187
    BY DEF SizeOf, DisputeV1, DisputeV2, DisputeV3, DisputeV4, DisputeNow
  <2>2. ASSUME NEW data \in OldDisputes
        PROVE  DisputeOfSomeVersion(data)
    <3>1. PICK layout \in {DisputeV1, DisputeV2, DisputeV3, DisputeV4, DisputeNow},
               zero \in SUBSET {"appeal_stake", "arbitration_fee"} :
               data = Written(layout, zero)
      BY DEF OldDisputes
    <3>2. DOMAIN data = 0..SizeOf(layout) - 1
      BY <3>1 DEF Written
    <3>3. SizeOf(layout) \in {169, 170, 178, 186, 187}
      BY <2>1, <3>1
    <3>4. SizeOf(layout) - 1 \in {168, 169, 177, 185, 186}
      BY <3>3
    <3>5. QED
      BY <3>2, <3>4 DEF DisputeOfSomeVersion
  <2>3. disputes \in [Contracts -> OldDisputes]
    BY DEF MigrationsInit
  <2>4. QED
    BY <2>2, <2>3 DEF DisputesKept
<1>5. QED
  BY <1>1, <1>2, <1>3, <1>4 DEF MigrationsInv

LEMMA MigrationsInvNext == MigrationsInv /\ [MigrationsNext]_accounts => MigrationsInv'
<1> SUFFICES ASSUME MigrationsInv, [MigrationsNext]_accounts PROVE MigrationsInv'
  OBVIOUS
<1>1. CASE MigrateAgentIdentity
  <2>1. DOMAIN agent = 0..94 /\ ReadsTrue(agent, AgentV1, {})
    BY <1>1, Sizes DEF MigrationsInv, AgentKept, MigrateAgentIdentity
  <2>2. DOMAIN AgentToV2(agent) = 0..122
    BY <2>1, AgentToV2Bytes
  <2>3. ReadsTrue(AgentToV2(agent), AgentV2, {"volume_sol", "deliveries..last_task"})
    BY <2>1, AgentToV2Reads
  <2>4. AgentKept'
    BY <1>1, <2>2, <2>3 DEF AgentKept, MigrateAgentIdentity
  <2>5. QED
    BY <1>1, <2>4
    DEF MigrationsInv, ConfigKept, PoolKept, DisputesKept, MigrateAgentIdentity
<1>2. CASE MigrateAgentV3
  <2>1. /\ DOMAIN agent = 0..122
        /\ ReadsTrue(agent, AgentV2, {"volume_sol", "deliveries..last_task"})
    BY <1>2, Sizes DEF MigrationsInv, AgentKept, MigrateAgentV3
  <2>2. DOMAIN AgentToV3(agent) = 0..145
    BY <2>1, AgentToV3Bytes
  <2>3. ReadsTrue(AgentToV3(agent), AgentNow,
                  {"volume_sol", "deliveries..last_task", "hibernation..friction"})
    BY <2>1, AgentToV3Reads
  <2>4. AgentKept'
    BY <1>2, <2>2, <2>3 DEF AgentKept, MigrateAgentV3
  <2>5. QED
    BY <1>2, <2>4 DEF MigrationsInv, ConfigKept, PoolKept, DisputesKept, MigrateAgentV3
<1>3. CASE MigrateProtocolConfig
  <2>1. DOMAIN config = 0..132 /\ ReadsTrue(config, ConfigV1, {})
    BY <1>3, Sizes DEF MigrationsInv, ConfigKept, MigrateProtocolConfig
  <2>2. DOMAIN ConfigToV2(config) = 0..145
    BY <2>1, ConfigToV2Bytes
  <2>3. ReadsTrue(ConfigToV2(config), ConfigV2,
                  {"fees", "max_corrections", "deadline_validation"})
    BY <2>1, ConfigToV2Reads
  <2>4. ConfigKept'
    BY <1>3, <2>2, <2>3 DEF ConfigKept, MigrateProtocolConfig
  <2>5. QED
    BY <1>3, <2>4 DEF MigrationsInv, AgentKept, PoolKept, DisputesKept, MigrateProtocolConfig
<1>4. CASE MigrateConfigV3
  <2>1. /\ DOMAIN config = 0..145
        /\ ReadsTrue(config, ConfigV2, {"fees", "max_corrections", "deadline_validation"})
    BY <1>4, Sizes DEF MigrationsInv, ConfigKept, MigrateConfigV3
  <2>2. DOMAIN ConfigToV3(config) = 0..185
    BY <2>1, ConfigToV3Bytes
  <2>3. ReadsTrue(ConfigToV3(config), ConfigV3,
                  {"fees", "max_corrections", "deadline_validation", "work_rewards"})
    BY <2>1, ConfigToV3Reads
  <2>4. ConfigKept'
    BY <1>4, <2>2, <2>3 DEF ConfigKept, MigrateConfigV3
  <2>5. QED
    BY <1>4, <2>4 DEF MigrationsInv, AgentKept, PoolKept, DisputesKept, MigrateConfigV3
<1>5. CASE MigrateInsurancePool
  <2>1. DOMAIN pool = 0..60 /\ ReadsTrue(pool, PoolV1, {})
    BY <1>5, Sizes DEF MigrationsInv, PoolKept, MigrateInsurancePool
  <2>2. DOMAIN PoolToNow(pool) = 0..68
    BY <2>1, PoolToNowBytes
  <2>3. ReadsTrue(PoolToNow(pool), PoolNow, {"total_active_exposure"})
    BY <2>1, PoolToNowReads
  <2>4. PoolKept'
    BY <1>5, <2>2, <2>3 DEF PoolKept, MigrateInsurancePool
  <2>5. QED
    BY <1>5, <2>4 DEF MigrationsInv, AgentKept, ConfigKept, DisputesKept, MigrateInsurancePool
<1>6. ASSUME NEW c \in Contracts, MigrateDisputeSize(c)
      PROVE  MigrationsInv'
  <2>1. disputes' = [disputes EXCEPT ![c] = DisputeGrown(disputes[c])]
    BY <1>6 DEF MigrateDisputeSize
  <2>2. DOMAIN DisputeGrown(disputes[c]) = 0..186
    BY DisputeGrownBytes
  <2>3. DisputesKept'
    BY <2>1, <2>2 DEF MigrationsInv, DisputesKept, DisputeOfSomeVersion
  <2>4. QED
    BY <1>6, <2>3 DEF MigrationsInv, AgentKept, ConfigKept, PoolKept, MigrateDisputeSize
<1>7. CASE UNCHANGED accounts
  BY <1>7 DEF MigrationsInv, AgentKept, ConfigKept, PoolKept, DisputesKept, accounts
<1>8. QED
  BY <1>1, <1>2, <1>3, <1>4, <1>5, <1>6, <1>7 DEF MigrationsNext

LEMMA MigrationsInvAlways == MigrationsSpec => []MigrationsInv
BY MigrationsInvInit, MigrationsInvNext, PTL DEF MigrationsSpec

-----------------------------------------------------------------------------
(* Theorems *)

(* Agents, pools and configurations, of any version and migrated in any
   order, keep every old field where the new layout reads it and have the
   documented defaults in the new ones (migrate.rs, admin.rs). *)
THEOREM AccountsKept == MigrationsSpec => []AccountsKeepFields
BY MigrationsInvAlways, MigrationsInvImplies, PTL

(* A configuration below the present layout never reaches it, and while it
   is below no agent and no pool is migrated (migrate.rs and admin.rs). *)
THEOREM OldConfigBlocksForever == MigrationsSpec => OldConfigBlocks
<1>1. ASSUME MigrationsInv, [MigrationsNext]_accounts
      PROVE  [~ConfigReadable => ~ConfigReadable' /\ UNCHANGED <<agent, pool>>]_accounts
  <2> SUFFICES ASSUME MigrationsNext, ~ConfigReadable
               PROVE  ~ConfigReadable' /\ UNCHANGED <<agent, pool>>
    BY <1>1
  <2>1. CASE MigrateProtocolConfig
    <3>1. DOMAIN config = 0..132
      BY <1>1, <2>1, Sizes DEF MigrationsInv, ConfigKept, MigrateProtocolConfig
    <3>2. Size(ConfigToV2(config)) = 146
      BY <3>1, ConfigToV2Bytes, Sizes
    <3>3. QED
      BY <2>1, <3>2, SizesNow DEF ConfigReadable, MigrateProtocolConfig
  <2>2. CASE MigrateConfigV3
    <3>1. DOMAIN config = 0..145
      BY <1>1, <2>2, Sizes DEF MigrationsInv, ConfigKept, MigrateConfigV3
    <3>2. Size(ConfigToV3(config)) = 186
      BY <3>1, ConfigToV3Bytes, Sizes
    <3>3. QED
      BY <2>2, <3>2, SizesNow DEF ConfigReadable, MigrateConfigV3
  <2>3. ASSUME NEW c \in Contracts, MigrateDisputeSize(c)
        PROVE  ~ConfigReadable' /\ UNCHANGED <<agent, pool>>
    BY <2>3 DEF MigrateDisputeSize, ConfigReadable
  <2>4. QED
    BY <2>1, <2>2, <2>3
    DEF MigrationsNext, MigrateAgentIdentity, MigrateAgentV3, MigrateInsurancePool
<1>2. QED
  BY <1>1, MigrationsInvAlways, PTL DEF MigrationsSpec, OldConfigBlocks

(* Whatever is in it, a dispute that a migration grows keeps its appeal stake
   and its arbitration fee exactly if both are zero (dispute.rs). *)
THEOREM AmountsLost == MigrationsSpec => AmountsSurviveOnlyAsZero
<1>1. ASSUME MigrationsInv, [MigrationsNext]_accounts
      PROVE  [\A c \in Contracts : disputes'[c] # disputes[c] =>
                (AmountsRead(disputes'[c]) = AmountsWritten(disputes[c])
                    <=> AmountsWritten(disputes[c]) = <<Zeros(8), Zeros(8)>>)]_accounts
  <2> SUFFICES ASSUME MigrationsNext, NEW c \in Contracts, disputes'[c] # disputes[c]
               PROVE  AmountsRead(disputes'[c]) = AmountsWritten(disputes[c])
                         <=> AmountsWritten(disputes[c]) = <<Zeros(8), Zeros(8)>>
    BY <1>1
  <2>1. PICK d \in Contracts : MigrateDisputeSize(d)
    BY DEF MigrationsNext, MigrateAgentIdentity, MigrateAgentV3, MigrateProtocolConfig,
           MigrateConfigV3, MigrateInsurancePool
  <2>2. d = c /\ disputes'[c] = DisputeGrown(disputes[c]) /\ Size(disputes[c]) < 187
    BY <1>1, <2>1, SizesNow DEF MigrationsInv, DisputesKept, MigrateDisputeSize
  <2>3. DisputeOfSomeVersion(disputes[c])
    BY <1>1 DEF MigrationsInv, DisputesKept
  <2>4. PICK last \in {168, 169, 177, 185} : DOMAIN disputes[c] = 0..last
    BY <2>2, <2>3, Sizes DEF DisputeOfSomeVersion
  <2>5. last \in Nat
    OBVIOUS
  <2>6. QED
    BY <2>2, <2>4, <2>5, AmountsGrown
<1>2. QED
  BY <1>1, MigrationsInvAlways, PTL DEF MigrationsSpec, AmountsSurviveOnlyAsZero
=============================================================================
