----------------------------- MODULE Migrations -----------------------------
(***************************************************************************)
(* The instructions that grow accounts made by earlier versions of the     *)
(* program (migrate.rs, admin.rs, dispute.rs), byte by byte: an account is *)
(* a function from offsets to bytes, a byte is one of a field's value or   *)
(* zero, and a layout is the sequence of the fields, each with the offset  *)
(* of its first byte and that of the first byte after it.                  *)
(* migrate_dispute_v2 asks for a size no version had and is left out.      *)
(***************************************************************************)
EXTENDS Integers, FiniteSets, Sequences

CONSTANT Contracts  \* contracts with a dispute

VARIABLES agent, config, pool, disputes     \* the data of the accounts

accounts == <<agent, config, pool, disputes>>

-----------------------------------------------------------------------------
(* Layouts.  Neighbouring fields that always move together are one.        *)
AgentV1 == << <<"authority..volume_processed", 0, 75>>, <<"outcomes", 75, 91>>,
              <<"sponsor", 91, 94>>, <<"bump", 94, 95>> >>
AgentV2 == << <<"authority..volume_processed", 0, 75>>, <<"volume_sol", 75, 83>>,
              <<"outcomes", 83, 99>>, <<"deliveries..last_task", 99, 119>>,
              <<"sponsor", 119, 122>>, <<"bump", 122, 123>> >>
AgentNow == << <<"authority..volume_processed", 0, 75>>, <<"volume_sol", 75, 83>>,
               <<"outcomes", 83, 99>>, <<"deliveries..last_task", 99, 119>>,
               <<"sponsor", 119, 122>>, <<"hibernation..friction", 122, 145>>,
               <<"bump", 145, 146>> >>

ConfigV1 == << <<"admin..total_agents", 0, 132>>, <<"bump", 132, 133>> >>
ConfigV2 == << <<"admin..total_agents", 0, 132>>, <<"fees", 132, 136>>,
               <<"max_corrections", 136, 137>>, <<"deadline_validation", 137, 145>>,
               <<"bump", 145, 146>> >>
ConfigV3 == << <<"admin..total_agents", 0, 132>>, <<"fees", 132, 136>>,
               <<"max_corrections", 136, 137>>, <<"deadline_validation", 137, 145>>,
               <<"work_rewards", 145, 185>>, <<"bump", 185, 186>> >>
ConfigNow == << <<"admin..total_agents", 0, 132>>, <<"fees", 132, 136>>,
                <<"max_corrections", 136, 137>>, <<"deadline_validation", 137, 145>>,
                <<"work_rewards", 145, 185>>, <<"stake..bidding", 185, 195>>,
                <<"bump", 195, 196>> >>

PoolV1 == << <<"total_balance..authority", 0, 60>>, <<"bump", 60, 61>> >>
PoolNow == << <<"total_balance..authority", 0, 60>>,
              <<"total_active_exposure", 60, 68>>, <<"bump", 68, 69>> >>

DisputeV1 == << <<"contract..bump", 0, 169>> >>
DisputeV2 == << <<"contract..bump", 0, 169>>, <<"corrections_count", 169, 170>> >>
DisputeV3 == << <<"contract..bump", 0, 169>>, <<"corrections_count", 169, 170>>,
                <<"appeal_stake", 170, 178>> >>
DisputeV4 == << <<"contract..bump", 0, 169>>, <<"corrections_count", 169, 170>>,
                <<"appeal_stake", 170, 178>>, <<"arbitration_fee", 178, 186>> >>
DisputeNow == << <<"contract..bump", 0, 169>>, <<"corrections_count", 169, 170>>,
                 <<"private_rounds_count", 170, 171>>, <<"appeal_stake", 171, 179>>,
                 <<"arbitration_fee", 179, 187>> >>

-----------------------------------------------------------------------------
(* Bytes *)
Zero == <<"zero", 0>>
Zeros(n) == [i \in 1..n |-> Zero]
Bytes(field, width) == [i \in 1..width |-> <<field, i>>]

Size(data) == Cardinality(DOMAIN data)
SizeOf(layout) == layout[Len(layout)][3]

Slice(data, from, to) == [i \in 1..(to - from) |-> data[from + i - 1]]
Grown(data, size) == [i \in 0..size - 1 |-> IF i \in DOMAIN data THEN data[i] ELSE Zero]
Write(data, at, bytes) ==
    [i \in DOMAIN data |-> IF i - at + 1 \in DOMAIN bytes THEN bytes[i - at + 1] ELSE data[i]]

FieldAt(layout, i) == CHOOSE k \in DOMAIN layout : layout[k][2] <= i /\ i < layout[k][3]

(* An account of a layout, the fields in `zero` being 0.                   *)
Written(layout, zero) ==
    [i \in 0..SizeOf(layout) - 1 |->
        LET field == layout[FieldAt(layout, i)]
        IN  IF field[1] \in zero THEN Zero ELSE <<field[1], i - field[2] + 1>>]

(* What a program of that layout reads in a field.                         *)
Read(data, layout, k) == Slice(data, layout[k][2], layout[k][3])

(* Account<ProtocolConfig> deserialises, and does not from too few bytes.  *)
ConfigReadable == Size(config) >= SizeOf(ConfigNow)

-----------------------------------------------------------------------------
(* migrate_agent_identity.                                                 *)
AgentToV2(data) ==
    LET d1 == Write(Grown(data, 123), 119, Slice(data, 91, 95))
        d2 == Write(d1, 83, Slice(data, 75, 91))
    IN  Write(Write(d2, 75, Zeros(8)), 99, Zeros(20))

MigrateAgentIdentity ==
    /\ ConfigReadable
    /\ Size(agent) = 95
    /\ agent' = AgentToV2(agent)
    /\ UNCHANGED <<config, pool, disputes>>

(* Mutation: the bump is not saved before the new fields are written. *)
AgentToV3BumpLost(data) == Write(Grown(data, 146), 122, Zeros(24))

AgentToV3(data) ==
    Write(Write(Grown(data, 146), 122, Zeros(23)), 145, Slice(data, 122, 123))

MigrateAgentV3 ==
    /\ ConfigReadable
    /\ Size(agent) = 123
    /\ agent' = AgentToV3(agent)
    /\ UNCHANGED <<config, pool, disputes>>

(* migrate_protocol_config and migrate_config_v3 check the administrator in
   the raw bytes.                                                          *)
ConfigToV2(data) ==
    LET d1 == Write(Grown(data, 146), 132, Bytes("default_fees", 4))
        d2 == Write(Write(d1, 136, Bytes("3", 1)), 137, Bytes("259200", 8))
    IN  Write(d2, 145, Slice(data, 132, 133))

MigrateProtocolConfig ==
    /\ Size(config) = 133
    /\ config' = ConfigToV2(config)
    /\ UNCHANGED <<agent, pool, disputes>>

(* Mutation: the account grows to the size of the present layout. *)
ConfigV3SizeCurrent == 196

ConfigV3Size == 186

ConfigToV3(data) ==
    Write(Write(Grown(data, ConfigV3Size), 145, Bytes("default_rewards", 40)),
          185, Slice(data, 145, 146))

MigrateConfigV3 ==
    /\ Size(config) = 146
    /\ config' = ConfigToV3(config)
    /\ UNCHANGED <<agent, pool, disputes>>

PoolToNow(data) == Write(Write(Grown(data, 69), 60, Zeros(8)), 68, Slice(data, 60, 61))

MigrateInsurancePool ==
    /\ ConfigReadable
    /\ Size(pool) = 61
    /\ pool' = PoolToNow(pool)
    /\ UNCHANGED <<agent, config, disputes>>

(* Mutation: the new byte is inserted where the layout has it. *)
DisputeGrownInPlace(data) ==
    IF Size(data) < 171 THEN Grown(data, 187)
    ELSE Write(Write(Grown(data, 187), 170, Zeros(17)), 171, Slice(data, 170, Size(data)))

DisputeGrown(data) == Grown(data, SizeOf(DisputeNow))

(* migrate_dispute, migrate_dispute_appeal_stake and _arbitration_fee: each
   grows the account to the present size with zeros at its end.            *)
MigrateDisputeSize(c) ==
    /\ Size(disputes[c]) < SizeOf(DisputeNow)
    /\ disputes' = [disputes EXCEPT ![c] = DisputeGrown(@)]
    /\ UNCHANGED <<agent, config, pool>>

-----------------------------------------------------------------------------
(* Accounts of any earlier version, in any combination, as the repository
   does not tell which were deployed; in a dispute the amounts may be 0.   *)
OldDisputes ==
    {Written(layout, zero) :
        layout \in {DisputeV1, DisputeV2, DisputeV3, DisputeV4, DisputeNow},
        zero \in SUBSET {"appeal_stake", "arbitration_fee"}}

MigrationsInit ==
    /\ agent \in {Written(layout, {}) : layout \in {AgentV1, AgentV2, AgentNow}}
    /\ config \in {Written(layout, {}) : layout \in {ConfigV1, ConfigV2, ConfigV3, ConfigNow}}
    /\ pool \in {Written(layout, {}) : layout \in {PoolV1, PoolNow}}
    /\ disputes \in [Contracts -> OldDisputes]

MigrationsNext ==
    \/ MigrateAgentIdentity \/ MigrateAgentV3
    \/ MigrateProtocolConfig \/ MigrateConfigV3
    \/ MigrateInsurancePool
    \/ \E c \in Contracts : MigrateDisputeSize(c)

MigrationsSpec == MigrationsInit /\ [][MigrationsNext]_accounts

-----------------------------------------------------------------------------
(* What a migration writes in a field that is new.                         *)
Default(field, width) ==
    CASE field = "fees" -> Bytes("default_fees", width)
      [] field = "max_corrections" -> Bytes("3", width)
      [] field = "deadline_validation" -> Bytes("259200", width)
      [] field = "work_rewards" -> Bytes("default_rewards", width)
      [] OTHER -> Zeros(width)

(* Every field of a layout is read as written, or as its default if new. *)
ReadsTrue(data, layout, new) ==
    Size(data) = SizeOf(layout) =>
        \A k \in DOMAIN layout :
            LET field == layout[k][1]
                width == layout[k][3] - layout[k][2]
                read == Read(data, layout, k)
            IN  \/ read = Bytes(field, width)
                \/ field \in new /\ read = Default(field, width)

(* Agents, pools and configurations of every version, migrated in any order
   and to any version, have every old field where it is read in the new
   layout, bump included, and the new fields as documented.                *)
AccountsKeepFields ==
    /\ ReadsTrue(agent, AgentV2, {"volume_sol", "deliveries..last_task"})
    /\ ReadsTrue(agent, AgentNow, {"volume_sol", "deliveries..last_task", "hibernation..friction"})
    /\ ReadsTrue(pool, PoolNow, {"total_active_exposure"})
    /\ ReadsTrue(config, ConfigV2, {"fees", "max_corrections", "deadline_validation"})
    /\ ReadsTrue(config, ConfigV3, {"fees", "max_corrections", "deadline_validation", "work_rewards"})

(* No migration brings an old configuration to the present layout, so that
   neither agents nor pool, which need it readable, are ever migrated.     *)
OldConfigBlocks ==
    [][~ConfigReadable => ~ConfigReadable' /\ UNCHANGED <<agent, pool>>]_accounts

AmountsRead(data) == <<Read(data, DisputeNow, 4), Read(data, DisputeNow, 5)>>

(* The amounts of a dispute before private rounds were counted.            *)
AmountsWritten(data) ==
    <<IF Size(data) >= 178 THEN Slice(data, 170, 178) ELSE Zeros(8),
      IF Size(data) >= 186 THEN Slice(data, 178, 186) ELSE Zeros(8)>>

(* The three migrations of disputes add zeros at the end, where the present
   layout has them in the middle: the appeal stake and the arbitration fee
   of an old dispute survive exactly if both are zero.                     *)
AmountsSurviveOnlyAsZero ==
    [][\A c \in Contracts : disputes'[c] # disputes[c] =>
          (AmountsRead(disputes'[c]) = AmountsWritten(disputes[c])
              <=> AmountsWritten(disputes[c]) = <<Zeros(8), Zeros(8)>>)]_accounts
=============================================================================
