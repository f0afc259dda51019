--------------------------- MODULE SettingsProofs ---------------------------
(***************************************************************************)
(* Proofs about the settings, for any number of replicas, requests and     *)
(* saves.  Whatever a replica holds, a form shows or a call carries is a   *)
(* revision that was committed, and a save replaces only the revision it   *)
(* was made from.  Saving stores a certificate in the envelope of the      *)
(* secrets and reading restores it, so a stored row means the              *)
(* configuration it was made of.                                           *)
(***************************************************************************)
EXTENDS Settings, TLAPS

USE ZenonT(5), SMTT(10), SMTT(30)

-----------------------------------------------------------------------------
\* The accounts, which a save looks at, may change between any two steps.
SettingsSpec ==
    /\ settings = Unsaved /\ SettingsInit
    /\ [][SettingsNext]_<<settings, settingsVars>>

Configuration(mode, enabled, tenant, profiles) ==
    [mode |-> mode, enabled |-> enabled, tenant |-> tenant, profiles |-> profiles]

Policy(mode) == mode # ""

Profiles(f) == f = [p \in DOMAIN f |-> f[p]] /\ DOMAIN f \subseteq Profile

WholeConfig(config) ==
    \E mode, enabled, tenant, f :
        config = Configuration(mode, enabled, tenant, f) /\ Policy(mode) /\ Profiles(f)

Certified(keys, f) ==
    keys = [p \in DOMAIN f |-> [private |-> keys[p].private, certificate |-> f[p]]]

\* A revision as the program sees it: every profile has its key, with the certificate
\* of the configuration.
Whole(row) ==
    /\ \E k, config, oidc, feishu, keys :
          row = [revision |-> k, config |-> config, secrets |-> Secrets(oidc, feishu, keys)]
    /\ WholeConfig(row.config)
    /\ Certified(row.secrets.keys, row.config.profiles)

Committed(n) == IF n = 0 THEN decode(Unsaved) ELSE history[n]

Genuine(row) == row.revision \in 0 .. Len(history) /\ row = Committed(row.revision)

\* The secrets of a save: those of the row it was made from, but for the edit.
Kept(row, config, e) ==
    [Apply(row.secrets, SecretChanges(e)) EXCEPT
        !.keys = ApplyAudit(config.profiles, @, SecretChanges(e).keys)]

Carries(it) ==
    /\ it.at \in {"cache", "current"} => it.replica \in Replica
    /\ it.at \in {"form"} => it.replica \in Replica /\ Genuine(it.form)
    /\ it.at = "save" =>
          /\ it.replica \in Replica /\ Genuine(it.row) /\ it.edit \in Edit
          /\ it.config = Edited(it.row.config, it.edit)
          /\ it.secrets = Kept(it.row, it.config, it.edit)
    /\ it.at = "cache" => Genuine(it.snapshot)
    /\ it.at = "current" => Genuine(it.row) /\ it.began \in Nat /\ it.began <= it.row.revision
    /\ it.at = "answered" =>
          Genuine(it.snapshot) /\ it.began \in Nat /\ it.began <= it.snapshot.revision

\* history[n] is the edit of what was committed before it.
Merged(before, e, row) ==
    /\ row.config = Edited(before.config, e)
    /\ \A k \in {"oidc", "feishu"} :
          row.secrets[k] = IF SecretChanges(e)[k] = Keep THEN before.secrets[k] ELSE SecretChanges(e)[k]
    /\ \A p \in DOMAIN row.config.profiles :
          SecretChanges(e).keys[p] = Keep => row.secrets.keys[p] = before.secrets.keys[p]

HistoryInv ==
    /\ (\E S : history \in Seq(S)) /\ edits \in Seq(Edit) /\ Len(edits) = Len(history)
    /\ settings.revision = Len(history) /\ decode(settings) = Committed(Len(history))
    /\ \A n \in 0 .. Len(history) : Whole(Committed(n)) /\ Committed(n).revision = n
    /\ \A n \in 1 .. Len(history) : Merged(Committed(n - 1), edits[n], history[n])

SettingsInv ==
    /\ HistoryInv
    /\ cached = [p \in Replica |-> cached[p]] /\ \A p \in Replica : Genuine(cached[p])
    /\ call = [c \in Call |-> call[c]] /\ \A c \in Call : Carries(call[c])

-----------------------------------------------------------------------------
LEMMA UnsavedIsWhole ==
    /\ decode(Unsaved) = Unsaved /\ Whole(Unsaved) /\ Unsaved.revision = 0
<1>1. /\ NoProfiles = [p \in {} |-> 0] /\ DOMAIN NoProfiles = {}
      /\ \A f : [p \in {} |-> f] = NoProfiles
  BY DEF NoProfiles, Nothing
<1>2. Normalize(Defaults) = Defaults
  BY DEF Normalize, Defaults
<1>3. ASSUME NEW secrets
      PROVE  RestoreAuditCertificates(Defaults, secrets) = Defaults
  <2>1. Defaults.profiles = NoProfiles
    BY DEF Defaults
  <2>2. [p \in DOMAIN NoProfiles |->
            IF NoProfiles[p] = Nothing THEN secrets.keys[p].certificate ELSE NoProfiles[p]] = NoProfiles
    BY <1>1 DEF NoProfiles
  <2>3. RestoreAuditCertificates(Defaults, secrets) = [Defaults EXCEPT !.profiles = NoProfiles]
    BY <2>1, <2>2 DEF RestoreAuditCertificates
  <2> QED
    BY <2>3 DEF Defaults
<1>4. /\ Unsaved.revision = 0 /\ Unsaved.config = Defaults
      /\ Unsaved.secrets = Secrets(Nothing, Nothing, NoProfiles)
  BY DEF Unsaved
<1>5. decode(Unsaved) = [Unsaved EXCEPT !.config = Defaults]
  BY <1>2, <1>3, <1>4 DEF decode
<1>6. decode(Unsaved) = Unsaved
  BY <1>5 DEF Unsaved
<1>7. WholeConfig(Defaults)
  BY <1>1 DEF WholeConfig, Configuration, Policy, Profiles, Defaults
<1>8. Whole(Unsaved)
  <2>1. Defaults.profiles = NoProfiles
    BY DEF Defaults
  <2>2. Unsaved.secrets.keys = NoProfiles
    BY <1>4 DEF Secrets
  <2>3. Certified(NoProfiles, NoProfiles)
    BY <1>1 DEF Certified
  <2>4. \E k, config, oidc, feishu, keys :
          Unsaved = [revision |-> k, config |-> config, secrets |-> Secrets(oidc, feishu, keys)]
    BY DEF Unsaved
  <2> QED
    BY <1>4, <1>7, <2>1, <2>2, <2>3, <2>4 DEF Whole
<1> QED
  BY <1>4, <1>6, <1>8

\* The records and their fields.
LEMMA ConfigurationFields ==
    ASSUME NEW mode, NEW enabled, NEW tenant, NEW f, NEW c, c = Configuration(mode, enabled, tenant, f)
    PROVE  c.mode = mode /\ c.profiles = f
BY DEF Configuration

LEMMA ModeSet ==
    ASSUME NEW mode, NEW enabled, NEW tenant, NEW f, NEW c, c = Configuration(mode, enabled, tenant, f), NEW x
    PROVE  [c EXCEPT !.mode = x] = Configuration(x, enabled, tenant, f)
BY DEF Configuration

LEMMA ProfilesSet ==
    ASSUME NEW mode, NEW enabled, NEW tenant, NEW f, NEW c, c = Configuration(mode, enabled, tenant, f), NEW x
    PROVE  [c EXCEPT !.profiles = x] = Configuration(mode, enabled, tenant, x)
BY DEF Configuration

LEMMA SecretsFields ==
    ASSUME NEW oidc, NEW feishu, NEW keys, NEW s, s = Secrets(oidc, feishu, keys)
    PROVE  s.oidc = oidc /\ s.feishu = feishu /\ s.keys = keys
BY DEF Secrets

Replaced(s, oidc, feishu) == [s EXCEPT !.oidc = oidc, !.feishu = feishu]

LEMMA SecretsSet ==
    ASSUME NEW oidc, NEW feishu, NEW keys, NEW s, s = Secrets(oidc, feishu, keys), NEW x, NEW y
    PROVE  Replaced(s, x, y) = Secrets(x, y, keys)
<1>1. [[oidc |-> oidc, feishu |-> feishu, keys |-> keys] EXCEPT !.oidc = x, !.feishu = y]
         = [[[oidc |-> oidc, feishu |-> feishu, keys |-> keys] EXCEPT !.oidc = x] EXCEPT !.feishu = y]
  BY Zenon
<1>2. [[oidc |-> oidc, feishu |-> feishu, keys |-> keys] EXCEPT !.oidc = x]
         = [oidc |-> x, feishu |-> feishu, keys |-> keys]
  OBVIOUS
<1>3. [[oidc |-> x, feishu |-> feishu, keys |-> keys] EXCEPT !.feishu = y]
         = [oidc |-> x, feishu |-> y, keys |-> keys]
  OBVIOUS
<1> QED
  BY <1>1, <1>2, <1>3 DEF Secrets, Replaced

LEMMA KeysSet ==
    ASSUME NEW oidc, NEW feishu, NEW keys, NEW x
    PROVE  [Secrets(oidc, feishu, keys) EXCEPT !.keys = x] = Secrets(oidc, feishu, x)
BY DEF Secrets

\* What an edit makes of a complete configuration.
LEMMA EditedShape ==
    ASSUME NEW config, WholeConfig(config), NEW e \in Edit
    PROVE  /\ WholeConfig(Edited(config, e))
           /\ e.field # "mode" => Edited(config, e).mode = config.mode
           /\ \A p \in DOMAIN Edited(config, e).profiles : SecretChanges(e).keys[p] = Keep =>
                p \in DOMAIN config.profiles /\ Edited(config, e).profiles[p] = config.profiles[p]
<1>1. PICK mode, enabled, tenant, f :
        config = Configuration(mode, enabled, tenant, f) /\ Policy(mode) /\ Profiles(f)
  BY DEF WholeConfig
<1>2. config.mode = mode /\ config.profiles = f
  BY <1>1 DEF Configuration
<1>3. ASSUME NEW m, NEW n, NEW t, NEW g, Edited(config, e) = Configuration(m, n, t, g), Policy(m), Profiles(g),
             e.field # "mode" => m = mode,
             \A p \in DOMAIN g : SecretChanges(e).keys[p] = Keep => p \in DOMAIN f /\ g[p] = f[p]
      PROVE  /\ WholeConfig(Edited(config, e))
             /\ e.field # "mode" => Edited(config, e).mode = config.mode
             /\ \A p \in DOMAIN Edited(config, e).profiles : SecretChanges(e).keys[p] = Keep =>
                  p \in DOMAIN config.profiles /\ Edited(config, e).profiles[p] = config.profiles[p]
  <2>1. Edited(config, e).mode = m /\ Edited(config, e).profiles = g
    BY <1>3, ConfigurationFields
  <2>2. WholeConfig(Edited(config, e))
    BY <1>3 DEF WholeConfig
  <2> QED
    BY <1>2, <1>3, <2>1, <2>2
<1>4. CASE e.field = "mode"
  <2>1. Edited(config, e) = Configuration(e.value, enabled, tenant, f)
    BY <1>1, <1>4 DEF Edited, Configuration
  <2>2. Policy(e.value)
    BY <1>4, EditAssumption DEF Policy
  <2> QED
    BY <1>1, <1>3, <1>4, <2>1, <2>2
<1>5. CASE e.field = "enabled"
  <2>1. Edited(config, e) = Configuration(mode, e.value, tenant, f)
    BY <1>1, <1>5 DEF Edited, Configuration
  <2> QED
    BY <1>1, <1>3, <2>1
<1>6. CASE e.field = "tenant"
  <2>1. Edited(config, e) = Configuration(mode, enabled, e.value, f)
    BY <1>1, <1>6 DEF Edited, Configuration
  <2> QED
    BY <1>1, <1>3, <2>1
<1>7. CASE e.field = "profile"
  <2>1. PICK g : g = [p \in DOMAIN f \cup {e.name} |-> IF p = e.name THEN e.value ELSE f[p]]
    OBVIOUS
  <2>2. Edited(config, e) = [config EXCEPT !.profiles =
            [p \in DOMAIN config.profiles \cup {e.name} |-> IF p = e.name THEN e.value ELSE config.profiles[p]]]
    BY <1>7 DEF Edited
  <2>3. Edited(config, e) = [config EXCEPT !.profiles = g]
    BY <1>2, <2>1, <2>2
  <2>4. Edited(config, e) = Configuration(mode, enabled, tenant, g)
    BY <1>1, <2>3 DEF Configuration
  <2>5. e.name \in Profile /\ e.value # Keep
    BY <1>7, EditAssumption
  <2>6. /\ Profiles(g)
        /\ \A p \in DOMAIN g : p # e.name => p \in DOMAIN f /\ g[p] = f[p]
    BY <1>1, <2>1, <2>5 DEF Profiles
  <2>7. SecretChanges(e).keys[e.name] # Keep
    BY <1>7, <2>5 DEF SecretChanges, Secrets
  <2>8. \A p \in DOMAIN g : SecretChanges(e).keys[p] = Keep => p \in DOMAIN f /\ g[p] = f[p]
    BY <2>6, <2>7
  <2> QED
    BY <1>1, <1>3, <2>4, <2>6, <2>8
<1>8. CASE e.field = "remove"
  <2>1. PICK g : g = [p \in DOMAIN f \ {e.name} |-> f[p]]
    OBVIOUS
  <2>2. Edited(config, e) = [config EXCEPT !.profiles =
            [p \in DOMAIN config.profiles \ {e.name} |-> config.profiles[p]]]
    BY <1>8 DEF Edited
  <2>3. Edited(config, e) = [config EXCEPT !.profiles = g]
    BY <1>2, <2>1, <2>2
  <2>4. Edited(config, e) = Configuration(mode, enabled, tenant, g)
    BY <1>1, <2>3 DEF Configuration
  <2>5. Profiles(g) /\ \A p \in DOMAIN g : p \in DOMAIN f /\ g[p] = f[p]
    BY <1>1, <2>1 DEF Profiles
  <2> QED
    BY <1>1, <1>3, <2>4, <2>5
<1>9. CASE e.field \notin {"mode", "enabled", "tenant", "profile", "remove"}
  BY <1>9 DEF Edited
<1> QED
  BY <1>4, <1>5, <1>6, <1>7, <1>8, <1>9

\* An older console sends no policy; the stored one is put back.
LEMMA SentIsEdited ==
    ASSUME NEW config, WholeConfig(config), NEW e \in Edit, NEW older \in BOOLEAN, older => e.field # "mode"
    PROVE  Normalize(PreserveSections([Edited(config, e) EXCEPT !.mode = IF older THEN "" ELSE @], config))
              = Edited(config, e)
<1>1. WholeConfig(Edited(config, e)) /\ (older => Edited(config, e).mode = config.mode)
  BY EditedShape
<1>2. PICK mode, enabled, tenant, f : Edited(config, e) = Configuration(mode, enabled, tenant, f) /\ Policy(mode)
  BY <1>1 DEF WholeConfig
<1>3. PICK new : new = Edited(config, e)
  OBVIOUS
<1>4. new.mode = mode /\ (older => mode = config.mode)
  BY <1>1, <1>2, <1>3, ConfigurationFields
<1>5. [new EXCEPT !.mode = mode] = new
  BY <1>2, <1>3, ModeSet
<1>6. Normalize(new) = new
  <2>1. Normalize(new) = [new EXCEPT !.mode = IF new.mode = "" THEN Defaults.mode ELSE new.mode]
    BY DEF Normalize
  <2>2. new.mode # ""
    BY <1>2, <1>4 DEF Policy
  <2> QED
    BY <1>4, <1>5, <2>1, <2>2
<1>7. CASE older
  <2>1. PICK none, sent : none = "" /\ sent = [new EXCEPT !.mode = none]
    OBVIOUS
  <2>2. sent = Configuration(none, enabled, tenant, f) /\ sent.mode = none
    <3>1. sent = [new EXCEPT !.mode = none] /\ new = Configuration(mode, enabled, tenant, f)
      BY <1>2, <1>3, <2>1
    <3> QED
      BY <3>1, ModeSet, ConfigurationFields
  <2>3. PreserveSections(sent, config) = [sent EXCEPT !.mode = IF sent.mode = "" THEN config.mode ELSE sent.mode]
    BY DEF PreserveSections
  <2>4. PreserveSections(sent, config) = [sent EXCEPT !.mode = mode]
    BY <1>4, <1>7, <2>1, <2>2, <2>3
  <2>5. PreserveSections(sent, config) = new
    BY <1>2, <1>3, <2>2, <2>4, ModeSet
  <2> QED
    BY <1>3, <1>6, <1>7, <2>1, <2>5
<1>8. CASE ~ older
  <2>1. [new EXCEPT !.mode = new.mode] = new
    BY <1>4, <1>5
  <2>2. PreserveSections(new, config) = [new EXCEPT !.mode = IF new.mode = "" THEN config.mode ELSE new.mode]
    BY DEF PreserveSections
  <2>3. PreserveSections(new, config) = new
    BY <1>2, <1>4, <2>1, <2>2 DEF Policy
  <2> QED
    BY <1>3, <1>6, <1>8, <2>1, <2>3
<1> QED
  BY <1>7, <1>8

\* The certificates are moved into the envelope, and found there again.
LEMMA StoredIsRestored ==
    ASSUME NEW row, Whole(row), NEW e \in Edit, NEW config, config = Edited(row.config, e),
           NEW secrets, secrets = Kept(row, config, e), NEW k, NEW stored,
           stored = StoreAuditCertificates(config, secrets), NEW next,
           next = [revision |-> k, config |-> stored.config, secrets |-> stored.secrets]
    PROVE  /\ decode(next) = [revision |-> k, config |-> config, secrets |-> stored.secrets]
           /\ Whole(decode(next)) /\ Merged(row, e, decode(next))
<1>1. /\ WholeConfig(row.config) /\ WholeConfig(config)
      /\ \A p \in DOMAIN config.profiles : SecretChanges(e).keys[p] = Keep =>
           p \in DOMAIN row.config.profiles /\ config.profiles[p] = row.config.profiles[p]
  BY EditedShape DEF Whole
<1>2. PICK mode, enabled, tenant, f :
        config = Configuration(mode, enabled, tenant, f) /\ Policy(mode) /\ Profiles(f)
  BY <1>1 DEF WholeConfig
<1>3. config.profiles = f
  BY <1>2, ConfigurationFields
<1>4. PICK g : g = ApplyAudit(f, row.secrets.keys, SecretChanges(e).keys)
  OBVIOUS
<1>5. PICK oidc, feishu :
        /\ oidc = IF SecretChanges(e).oidc = Keep THEN row.secrets.oidc ELSE SecretChanges(e).oidc
        /\ feishu = IF SecretChanges(e).feishu = Keep THEN row.secrets.feishu ELSE SecretChanges(e).feishu
  OBVIOUS
<1>6. secrets = Secrets(oidc, feishu, g)
  <2>1. PICK o, f0, keys : row.secrets = Secrets(o, f0, keys)
    BY DEF Whole
  <2>2. row.secrets.oidc = o /\ row.secrets.feishu = f0 /\ row.secrets.keys = keys
    BY <2>1, SecretsFields
  <2>3. PICK changes : changes = SecretChanges(e)
    OBVIOUS
  <2>4. Apply(Secrets(o, f0, keys), changes) = Secrets(oidc, feishu, keys)
    <3>1. Apply(row.secrets, changes) = Replaced(row.secrets, oidc, feishu)
      BY <1>5, <2>3 DEF Apply, Replaced
    <3>2. Replaced(row.secrets, oidc, feishu) = Secrets(oidc, feishu, keys)
      BY <2>1, SecretsSet
    <3> QED
      BY <2>1, <3>1, <3>2
  <2>5. secrets = [Secrets(oidc, feishu, keys) EXCEPT !.keys = g]
    <3>1. PICK applied : applied = Apply(row.secrets, SecretChanges(e))
      OBVIOUS
    <3>2. applied = Secrets(oidc, feishu, keys) /\ applied.keys = row.secrets.keys
      BY <2>1, <2>2, <2>3, <2>4, <3>1, SecretsFields
    <3>3. secrets = [applied EXCEPT !.keys = ApplyAudit(config.profiles, applied.keys, SecretChanges(e).keys)]
      BY <3>1 DEF Kept
    <3> QED
      BY <1>3, <1>4, <3>2, <3>3
  <2> QED
    BY <2>5, KeysSet
<1>7. PICK h : h = [p \in DOMAIN f |-> [private |-> g[p].private, certificate |-> f[p]]]
  OBVIOUS
<1>8. PICK blank : blank = [p \in DOMAIN f |-> Nothing]
  OBVIOUS
<1>9. stored.config = Configuration(mode, enabled, tenant, blank)
  <2>1. stored.config = [config EXCEPT !.profiles = [p \in DOMAIN config.profiles |-> Nothing]]
    BY DEF StoreAuditCertificates
  <2>2. stored.config = [config EXCEPT !.profiles = blank]
    BY <1>3, <1>8, <2>1
  <2> QED
    BY <1>2, <2>2, ProfilesSet
<1>10. stored.secrets = Secrets(oidc, feishu, h)
  <2>1. \A p \in DOMAIN f : [g[p] EXCEPT !.certificate = f[p]] = [private |-> g[p].private, certificate |-> f[p]]
    BY <1>4 DEF ApplyAudit
  <2>2. [p \in DOMAIN f |-> [g[p] EXCEPT !.certificate = f[p]]] = h
    BY <1>7, <2>1
  <2>3. stored.secrets = [secrets EXCEPT !.keys =
            [p \in DOMAIN config.profiles |-> [secrets.keys[p] EXCEPT !.certificate = config.profiles[p]]]]
    BY DEF StoreAuditCertificates
  <2>4. secrets.keys = g
    BY <1>6 DEF Secrets
  <2>5. stored.secrets = [secrets EXCEPT !.keys = h]
    BY <1>3, <2>2, <2>3, <2>4
  <2> QED
    BY <1>6, <2>5 DEF Secrets
<1>11. decode(next) = [revision |-> k, config |-> config, secrets |-> stored.secrets]
  <2>1. Normalize(stored.config) = stored.config
    <3>1. stored.config.mode = mode /\ [stored.config EXCEPT !.mode = mode] = stored.config
      BY <1>9, ConfigurationFields, ModeSet
    <3>2. Normalize(stored.config)
             = [stored.config EXCEPT !.mode = IF stored.config.mode = "" THEN Defaults.mode ELSE stored.config.mode]
      BY DEF Normalize
    <3>3. stored.config.mode # ""
      BY <1>2, <3>1 DEF Policy
    <3> QED
      BY <3>1, <3>2, <3>3
  <2>2. stored.secrets.keys = h /\ stored.config.profiles = blank
    BY <1>9, <1>10, SecretsFields, ConfigurationFields
  <2>3. \A p \in DOMAIN f : blank[p] = Nothing /\ h[p].certificate = f[p]
    BY <1>7, <1>8
  <2>4. [p \in DOMAIN blank |-> IF blank[p] = Nothing THEN h[p].certificate ELSE blank[p]] = [p \in DOMAIN f |-> f[p]]
    BY <1>8, <2>3
  <2>5. RestoreAuditCertificates(stored.config, stored.secrets) = [stored.config EXCEPT !.profiles =
            [p \in DOMAIN blank |-> IF blank[p] = Nothing THEN h[p].certificate ELSE blank[p]]]
    BY <2>2 DEF RestoreAuditCertificates
  <2>6. RestoreAuditCertificates(stored.config, stored.secrets) = [stored.config EXCEPT !.profiles = f]
    BY <1>2, <2>4, <2>5 DEF Profiles
  <2>7. RestoreAuditCertificates(stored.config, stored.secrets) = config
    BY <1>2, <1>9, <2>6, ProfilesSet
  <2>8. next.config = stored.config /\ next.secrets = stored.secrets
    OBVIOUS
  <2>9. decode(next) = [next EXCEPT !.config = config]
    BY <2>1, <2>7, <2>8 DEF decode
  <2> QED
    BY <2>9
<1>12. /\ decode(next).config = config /\ decode(next).secrets = stored.secrets
       /\ stored.secrets.oidc = oidc /\ stored.secrets.feishu = feishu /\ stored.secrets.keys = h
  BY <1>10, <1>11 DEF Secrets
<1>13. Whole(decode(next))
  <2>1. \E k0, c, o, f0, keys : decode(next) = [revision |-> k0, config |-> c, secrets |-> Secrets(o, f0, keys)]
    BY <1>10, <1>11
  <2>2. Certified(h, f)
    BY <1>7 DEF Certified
  <2> QED
    BY <1>1, <1>3, <1>12, <2>1, <2>2 DEF Whole
<1>14. ASSUME NEW p \in DOMAIN f, SecretChanges(e).keys[p] = Keep
       PROVE  h[p] = row.secrets.keys[p]
  <2>1. /\ p \in DOMAIN row.config.profiles /\ f[p] = row.config.profiles[p]
    BY <1>1, <1>3, <1>14
  <2>2. /\ DOMAIN row.secrets.keys = DOMAIN row.config.profiles
        /\ row.secrets.keys[p] = [private |-> row.secrets.keys[p].private, certificate |-> row.config.profiles[p]]
    BY <2>1 DEF Whole, Certified
  <2>3. g[p].private = row.secrets.keys[p].private
    BY <1>4, <1>14, <2>1, <2>2 DEF ApplyAudit
  <2> QED
    BY <1>7, <2>1, <2>2, <2>3
<1>15. Merged(row, e, decode(next))
  <2>1. \A j \in {"oidc", "feishu"} : stored.secrets[j] =
          IF SecretChanges(e)[j] = Keep THEN row.secrets[j] ELSE SecretChanges(e)[j]
    BY <1>5, <1>12
  <2> QED
    BY <1>3, <1>12, <1>14, <2>1 DEF Merged
<1> QED
  BY <1>11, <1>13, <1>15

-----------------------------------------------------------------------------
LEMMA SettingsInitial ==
    ASSUME settings = Unsaved, SettingsInit
    PROVE  SettingsInv
<1>1. /\ history = <<>> /\ edits = <<>> /\ cached = [p \in Replica |-> Unsaved] /\ call = [c \in Call |-> Idle]
  BY DEF SettingsInit
<1>2. /\ Len(history) = 0 /\ Len(edits) = 0 /\ edits \in Seq(Edit) /\ history \in Seq(Edit)
  BY <1>1
<1>3. 0 .. Len(history) = {0} /\ 1 .. Len(history) = {}
  BY <1>2
<1>4. Committed(0) = Unsaved /\ Whole(Unsaved) /\ Unsaved.revision = 0 /\ decode(Unsaved) = Unsaved
  BY UnsavedIsWhole DEF Committed
<1>5. Genuine(Unsaved)
  BY <1>3, <1>4 DEF Genuine
<1>6. Carries(Idle)
  BY DEF Carries, Idle
<1>7. cached = [p \in Replica |-> cached[p]] /\ \A p \in Replica : Genuine(cached[p])
  BY <1>1, <1>5
<1>8. call = [c \in Call |-> call[c]] /\ \A c \in Call : Carries(call[c])
  BY <1>1, <1>6
<1>9. settings.revision = Len(history) /\ decode(settings) = Committed(Len(history))
  BY <1>2, <1>4
<1>10. /\ \A n \in 0 .. Len(history) : Whole(Committed(n)) /\ Committed(n).revision = n
       /\ \A n \in 1 .. Len(history) : Merged(Committed(n - 1), edits[n], history[n])
  BY <1>3, <1>4
<1> QED
  BY <1>2, <1>7, <1>8, <1>9, <1>10 DEF SettingsInv, HistoryInv

\* What was committed stays so.
LEMMA CarriesStays ==
    ASSUME NEW it, Carries(it), \A row : Genuine(row) => Genuine(row)'
    PROVE  Carries(it)'
BY DEF Carries

\* A step of one call that saves nothing.
LEMMA CallStep ==
    ASSUME SettingsInv, UNCHANGED <<settings, history, edits>>,
           cached' = [p \in Replica |-> cached'[p]], \A p \in Replica : Genuine(cached'[p]),
           NEW c \in Call, NEW it, Carries(it), call' = [call EXCEPT ![c] = it]
    PROVE  SettingsInv'
<1>1. \A row : Genuine(row) <=> Genuine(row)'
  BY DEF Genuine, Committed
<1>2. call' = [d \in Call |-> call'[d]] /\ \A d \in Call : call'[d] = it \/ call'[d] = call[d]
  BY DEF SettingsInv
<1>3. ASSUME NEW d \in Call
      PROVE  Carries(call[d])'
  <2>1. PICK x : x = call'[d] /\ Carries(x)
    BY <1>2 DEF SettingsInv
  <2>2. Carries(x)'
    BY <1>1, <2>1, CarriesStays
  <2> QED
    BY <2>1, <2>2
<1>4. \A p \in Replica : Genuine(cached[p])'
  BY <1>1
<1>5. HistoryInv'
  BY DEF SettingsInv, HistoryInv, Committed
<1> QED
  BY <1>2, <1>3, <1>4, <1>5 DEF SettingsInv

LEMMA Facts ==
    ASSUME SettingsInv
    PROVE  /\ Len(history) \in Nat /\ Genuine(decode(settings)) /\ decode(settings).revision = Len(history)
           /\ settings.revision = Len(history)
           /\ \A row : Genuine(row) => Whole(row) /\ row.revision \in Nat /\ row.revision <= Len(history)
           /\ \A row : Genuine(row) /\ row.revision = Len(history) => row = decode(settings)
           /\ cached = [p \in Replica |-> cached[p]] /\ \A p \in Replica : Genuine(cached[p])
           /\ \A c \in Call : Carries(call[c])
<1>1. Len(history) \in Nat /\ Len(history) \in 0 .. Len(history)
  <2>1. PICK S : history \in Seq(S)
    BY DEF SettingsInv, HistoryInv
  <2>2. Len(history) \in Nat
    BY <2>1
  <2> QED
    BY <2>2
<1>2. Genuine(decode(settings)) /\ decode(settings).revision = Len(history)
  BY <1>1 DEF SettingsInv, HistoryInv, Genuine
<1>3. \A row : Genuine(row) => Whole(row) /\ row.revision \in Nat /\ row.revision <= Len(history)
  BY <1>1 DEF SettingsInv, HistoryInv, Genuine
<1>4. \A row : Genuine(row) /\ row.revision = Len(history) => row = decode(settings)
  BY DEF SettingsInv, HistoryInv, Genuine
<1> QED
  BY <1>1, <1>2, <1>3, <1>4 DEF SettingsInv, HistoryInv

LEMMA UntouchedStep ==
    ASSUME SettingsInv, UNCHANGED <<settings, cached, call, history, edits>>
    PROVE  SettingsInv'
<1>1. \A row : Genuine(row) => Genuine(row)'
  BY DEF Genuine, Committed
<1>2. ASSUME NEW d \in Call
      PROVE  Carries(call[d])'
  <2>1. PICK x : x = call'[d] /\ Carries(x)
    BY DEF SettingsInv
  <2>2. Carries(x)'
    BY <1>1, <2>1, CarriesStays
  <2> QED
    BY <2>1, <2>2
<1>3. \A p \in Replica : Genuine(cached[p])'
  BY <1>1 DEF SettingsInv
<1>4. HistoryInv'
  BY DEF SettingsInv, HistoryInv, Committed
<1> QED
  BY <1>2, <1>3, <1>4 DEF SettingsInv

LEMMA RefuseStep ==
    ASSUME SettingsInv, NEW c \in Call, Refuse(c)
    PROVE  SettingsInv'
<1>1. Carries(Idle)
  BY DEF Carries, Idle
<1> QED
  BY <1>1, Facts, CallStep DEF Refuse

LEMMA GetSettingsStep ==
    ASSUME SettingsInv, NEW c \in Call, NEW p \in Replica, getSettings(c, p)
    PROVE  SettingsInv'
<1>1. PICK it : it = [at |-> "form", replica |-> p, form |-> decode(settings)]
  OBVIOUS
<1>2. it.at = "form" /\ it.replica = p /\ it.form = decode(settings)
  BY <1>1
<1>3. Carries(it)
  BY <1>2, Facts DEF Carries
<1> QED
  BY <1>1, <1>3, Facts, CallStep DEF getSettings

LEMMA SaveSettingsStep ==
    ASSUME SettingsInv, NEW c \in Call, NEW actor, NEW e \in Edit, NEW older \in BOOLEAN,
           saveSettings(c, actor, e, older)
    PROVE  SettingsInv'
<1>1. CASE Refuse(c)
  BY <1>1, RefuseStep
<1>2. CASE ~ Refuse(c)
  <2>1. PICK row, form : row = decode(settings) /\ form = call[c].form
    OBVIOUS
  <2>2. /\ call[c].at = "form" /\ (older => e.field # "mode")
        /\ settings.revision = form.revision /\ UNCHANGED <<settings, cached, history, edits>>
    BY <1>2, <2>1 DEF saveSettings
  <2>3. Genuine(form) /\ call[c].replica \in Replica
    BY <2>1, <2>2, Facts DEF Carries
  <2>4. form = row /\ Whole(row) /\ WholeConfig(row.config) /\ Genuine(row)
    BY <2>1, <2>2, <2>3, Facts DEF Whole
  <2>5. PICK config : config = Edited(row.config, e)
    OBVIOUS
  <2>6. config = Normalize(PreserveSections([Edited(form.config, e) EXCEPT !.mode = IF older THEN "" ELSE @], row.config))
    BY <2>2, <2>4, <2>5, SentIsEdited
  <2>7. PICK secrets : secrets = Kept(row, config, e)
    OBVIOUS
  <2>8. PICK it : it = [at |-> "save", replica |-> call[c].replica, actor |-> actor, edit |-> e,
                        row |-> row, config |-> config, secrets |-> secrets]
    OBVIOUS
  <2>9. call' = [call EXCEPT ![c] = it]
    <3>1. PICK sent, laid :
            /\ sent = [Edited(form.config, e) EXCEPT !.mode = IF older THEN "" ELSE @]
            /\ laid = Normalize(PreserveSections(sent, row.config))
      OBVIOUS
    <3>2. call' = [call EXCEPT ![c] = [at |-> "save", replica |-> call[c].replica, actor |-> actor, edit |-> e,
                                      row |-> row, config |-> laid, secrets |-> Kept(row, laid, e)]]
      BY <1>2, <2>1, <3>1 DEF saveSettings, Kept
    <3>3. laid = config
      BY <2>6, <3>1
    <3> QED
      BY <2>7, <2>8, <3>2, <3>3
  <2>10. /\ it.at = "save" /\ it.replica = call[c].replica /\ it.edit = e /\ it.row = row
         /\ it.config = config /\ it.secrets = secrets
    BY <2>8
  <2>11. Carries(it)
    BY <2>3, <2>4, <2>5, <2>7, <2>10 DEF Carries
  <2> QED
    BY <2>2, <2>9, <2>11, Facts, CallStep
<1> QED
  BY <1>1, <1>2

LEMMA Appended ==
    ASSUME NEW q, \E S : q \in Seq(S), NEW x, NEW r, r = Append(q, x)
    PROVE  /\ (\E S : r \in Seq(S)) /\ Len(q) \in Nat /\ Len(r) = Len(q) + 1 /\ r[Len(q) + 1] = x
           /\ \A n \in 1 .. Len(q) : r[n] = q[n]
<1>1. PICK S : q \in Seq(S)
  OBVIOUS
<1>2. PICK T : T = S \cup {x}
  OBVIOUS
<1>3. x \in T /\ q \in Seq(T)
  <2>1. x \in T /\ S \subseteq T
    BY <1>2
  <2> QED
    BY <1>1, <2>1
<1>4. r \in Seq(T) /\ Len(q) \in Nat /\ Len(r) = Len(q) + 1 /\ r[Len(q) + 1] = x
  BY <1>3
<1>5. \A n \in 1 .. Len(q) : r[n] = q[n]
  BY <1>3
<1> QED
  BY <1>4, <1>5

\* The transaction of a save, whose row was read before it: nothing was committed since.
LEMMA SaveCommitStep ==
    ASSUME SettingsInv, NEW c \in Call, SaveCommit(c)
    PROVE  SettingsInv'
<1>1. CASE Refuse(c)
  BY <1>1, RefuseStep
<1>2. CASE ~ Refuse(c)
  <2>1. PICK it, stored, next, len :
          /\ it = call[c] /\ stored = StoreAuditCertificates(it.config, it.secrets)
          /\ len = Len(history)
          /\ next = [revision |-> settings.revision + 1, config |-> stored.config, secrets |-> stored.secrets]
    OBVIOUS
  <2>2. /\ it.at = "save" /\ settings.revision = it.row.revision
        /\ history' = Append(history, decode(settings')) /\ edits' = Append(edits, it.edit)
        /\ cached' = cached
    BY <1>2, <2>1 DEF SaveCommit
  <2>3. settings' = next
    <3>1. settings' = [[revision |-> settings.revision, config |-> stored.config, secrets |-> stored.secrets]
                          EXCEPT !.revision = settings.revision + 1]
      BY <1>2, <2>1 DEF SaveCommit, SaveRow
    <3> QED
      BY <2>1, <3>1
  <2>4. PICK snapshot : snapshot = [revision |-> it.row.revision + 1, config |-> it.config,
                                    secrets |-> stored.secrets]
    OBVIOUS
  <2>5. PICK done : done = [at |-> "cache", replica |-> it.replica, snapshot |-> snapshot]
    OBVIOUS
  <2>6. call' = [call EXCEPT ![c] = done]
    BY <1>2, <2>1, <2>4, <2>5 DEF SaveCommit
  <2>7. /\ it.replica \in Replica /\ Genuine(it.row) /\ it.edit \in Edit
        /\ it.config = Edited(it.row.config, it.edit)
        /\ it.secrets = Kept(it.row, it.config, it.edit)
    BY <2>1, <2>2, Facts DEF Carries
  <2>8. /\ len \in Nat /\ settings.revision = len /\ Whole(it.row) /\ it.row = decode(settings)
    BY <2>1, <2>2, <2>7, Facts
  <2>9. /\ decode(next) = snapshot /\ Whole(snapshot) /\ Merged(it.row, it.edit, snapshot)
    <3>1. next = [revision |-> len + 1, config |-> stored.config, secrets |-> stored.secrets]
      BY <2>1, <2>8
    <3>2. snapshot = [revision |-> len + 1, config |-> it.config, secrets |-> stored.secrets]
      BY <2>2, <2>4, <2>8
    <3>3. /\ decode(next) = [revision |-> len + 1, config |-> it.config, secrets |-> stored.secrets]
          /\ Whole(decode(next)) /\ Merged(it.row, it.edit, decode(next))
      BY <2>1, <2>7, <2>8, <3>1, StoredIsRestored
    <3> QED
      BY <3>2, <3>3
  <2>10. snapshot.revision = len + 1 /\ next.revision = len + 1
    BY <2>1, <2>2, <2>4, <2>8
  <2>11. /\ (\E S : history' \in Seq(S)) /\ Len(history') = len + 1 /\ history'[len + 1] = snapshot
         /\ \A n \in 1 .. len : history'[n] = history[n]
    <3>1. history' = Append(history, snapshot) /\ \E S : history \in Seq(S)
      BY <2>2, <2>3, <2>9 DEF SettingsInv, HistoryInv
    <3> QED
      BY <2>1, <3>1, Appended
  <2>12. /\ edits' \in Seq(Edit) /\ Len(edits') = len + 1 /\ edits'[len + 1] = it.edit
         /\ \A n \in 1 .. len : edits'[n] = edits[n]
    <3>1. edits \in Seq(Edit) /\ Len(edits) = len /\ \E S : edits \in Seq(S)
      BY <2>1 DEF SettingsInv, HistoryInv
    <3>2. edits' \in Seq(Edit)
      BY <2>2, <2>7, <3>1
    <3> QED
      BY <2>2, <3>1, <3>2, Appended
  <2>13. /\ \A n \in 0 .. len : Committed(n)' = Committed(n)
         /\ Committed(len + 1)' = snapshot
    <3>1. \A n \in 0 .. len : n = 0 \/ n \in 1 .. len
      BY <2>8
    <3>2. len + 1 # 0
      BY <2>8
    <3> QED
      BY <2>11, <3>1, <3>2 DEF Committed
  <2>14. \A row : Genuine(row) => Genuine(row)'
    <3> SUFFICES ASSUME NEW row, Genuine(row)
                 PROVE  Genuine(row)'
      OBVIOUS
    <3>1. PICK k : k = row.revision
      OBVIOUS
    <3>2. k \in 0 .. len /\ row = Committed(k)
      BY <2>1, <3>1 DEF Genuine
    <3>3. k \in 0 .. len + 1 /\ row = Committed(k)'
      BY <2>8, <2>13, <3>2
    <3> QED
      BY <2>11, <3>1, <3>3 DEF Genuine
  <2>15. Genuine(snapshot)'
    <3>1. len + 1 \in 0 .. len + 1
      BY <2>8
    <3> QED
      BY <2>10, <2>11, <2>13, <3>1 DEF Genuine
  <2>16. HistoryInv'
    <3>1. settings'.revision = len + 1 /\ decode(settings') = Committed(len + 1)'
      BY <2>3, <2>9, <2>10, <2>13
    <3>2. Committed(Len(history))' = Committed(len + 1)'
      BY <2>11 DEF Committed
    <3>3. \A n \in 0 .. len : Whole(Committed(n)) /\ Committed(n).revision = n
      BY <2>1 DEF SettingsInv, HistoryInv
    <3>4. \A n \in 0 .. len + 1 : n \in 0 .. len \/ n = len + 1
      BY <2>8
    <3>5. \A n \in 0 .. len + 1 : Whole(Committed(n)') /\ Committed(n)'.revision = n
      BY <2>9, <2>10, <2>13, <3>3, <3>4
    <3>6. \A n \in 1 .. len : Merged(Committed(n - 1), edits[n], history[n])
      BY <2>1 DEF SettingsInv, HistoryInv
    <3>7. \A n \in 1 .. len + 1 : n \in 1 .. len \/ n = len + 1
      BY <2>8
    <3>8. ASSUME NEW n \in 1 .. len + 1
          PROVE  Merged(Committed(n - 1)', edits'[n], history'[n])
      <4>1. n - 1 \in 0 .. len
        BY <2>8
      <4>2. CASE n \in 1 .. len
        BY <2>11, <2>12, <2>13, <3>6, <4>1, <4>2
      <4>3. CASE n = len + 1
        <5>1. n - 1 = len
          BY <2>8, <4>3
        <5>2. Committed(n - 1)' = it.row
          BY <2>1, <2>8, <2>13, <4>1, <5>1 DEF SettingsInv, HistoryInv
        <5> QED
          BY <2>9, <2>11, <2>12, <4>3, <5>2
      <4> QED
        BY <3>7, <4>2, <4>3
    <3>9. \A n \in 0 .. Len(history') : Whole(Committed(n)') /\ Committed(n)'.revision = n
      BY <2>11, <3>5
    <3>10. \A n \in 1 .. Len(history') : Merged(Committed(n - 1)', edits'[n], history'[n])
      BY <2>11, <3>8
    <3> QED
      BY <2>11, <2>12, <3>1, <3>2, <3>9, <3>10 DEF HistoryInv
  <2>17. Carries(done)'
    <3>1. done.at = "cache" /\ done.replica = it.replica /\ done.snapshot = snapshot
      BY <2>5
    <3> QED
      BY <2>7, <2>15, <3>1 DEF Carries
  <2>18. call' = [d \in Call |-> call'[d]] /\ \A d \in Call : call'[d] = done \/ call'[d] = call[d]
    BY <2>6 DEF SettingsInv
  <2>19. ASSUME NEW d \in Call
         PROVE  Carries(call[d])'
    <3>1. PICK x : x = call'[d]
      OBVIOUS
    <3>2. x = done \/ (x = call[d] /\ Carries(x))
      BY <2>18, <3>1 DEF SettingsInv
    <3>3. Carries(x)'
      BY <2>14, <2>17, <3>2, CarriesStays
    <3> QED
      BY <3>1, <3>3
  <2>20. cached' = [p \in Replica |-> cached'[p]] /\ \A p \in Replica : Genuine(cached[p])'
    <3>1. ASSUME NEW p \in Replica
          PROVE  Genuine(cached[p])'
      <4>1. PICK row : row = cached[p] /\ row = cached'[p]
        BY <2>2
      <4>2. Genuine(row)'
        BY <2>14, <4>1 DEF SettingsInv
      <4> QED
        BY <4>1, <4>2
    <3> QED
      BY <2>2, <3>1 DEF SettingsInv
  <2> QED
    BY <2>16, <2>18, <2>19, <2>20 DEF SettingsInv
<1> QED
  BY <1>1, <1>2

LEMMA SaveCacheStep ==
    ASSUME SettingsInv, NEW c \in Call, SaveCache(c)
    PROVE  SettingsInv'
<1>1. PICK it : it = call[c]
  OBVIOUS
<1>2. it.replica \in Replica /\ Genuine(it.snapshot)
  BY <1>1, Facts DEF Carries, SaveCache
<1>3. Carries(Idle)
  BY DEF Carries, Idle
<1>4. cached' = [cached EXCEPT ![it.replica] = cached'[it.replica]]
      /\ (cached'[it.replica] = it.snapshot \/ cached'[it.replica] = cached[it.replica])
  BY <1>1, <1>2, Facts DEF SaveCache
<1>5. cached' = [p \in Replica |-> cached'[p]] /\ \A p \in Replica : Genuine(cached'[p])
  BY <1>2, <1>4, Facts
<1> QED
  BY <1>3, <1>5, CallStep DEF SaveCache

LEMMA CurrentStep ==
    ASSUME SettingsInv, NEW c \in Call, NEW p \in Replica, Current(c, p)
    PROVE  SettingsInv'
<1>1. PICK it : it = [at |-> "current", replica |-> p, began |-> settings.revision, row |-> decode(settings)]
  OBVIOUS
<1>2. it.at = "current" /\ it.replica = p /\ it.began = settings.revision /\ it.row = decode(settings)
  BY <1>1
<1>3. it.began \in Nat /\ it.began <= it.row.revision
  BY <1>2, Facts
<1>4. Carries(it)
  BY <1>2, <1>3, Facts DEF Carries
<1> QED
  BY <1>1, <1>4, Facts, CallStep DEF Current

\* The cache answers when it is at least as new as the row that was read.
LEMMA CurrentBuildStep ==
    ASSUME SettingsInv, NEW c \in Call, CurrentBuild(c)
    PROVE  SettingsInv'
<1>1. PICK it : it = call[c]
  OBVIOUS
<1>2. /\ it.replica \in Replica /\ Genuine(it.row) /\ it.began \in Nat /\ it.began <= it.row.revision
      /\ Genuine(cached[it.replica])
  BY <1>1, Facts DEF Carries, CurrentBuild
<1>3. PICK snapshot :
        snapshot = IF cached[it.replica].revision >= it.row.revision THEN cached[it.replica] ELSE it.row
  OBVIOUS
<1>4. Genuine(snapshot)
  BY <1>2, <1>3
<1>5. it.began <= snapshot.revision
  <2>1. it.row.revision \in Nat /\ cached[it.replica].revision \in Nat
    BY <1>2, Facts
  <2> QED
    BY <1>2, <1>3, <2>1
<1>6. PICK done : done = [at |-> "answered", began |-> it.began, snapshot |-> snapshot]
  OBVIOUS
<1>7. done.at = "answered" /\ done.began = it.began /\ done.snapshot = snapshot
  BY <1>6
<1>8. Carries(done)
  BY <1>2, <1>4, <1>5, <1>7 DEF Carries
<1>9. /\ cached' = [cached EXCEPT ![it.replica] = snapshot] /\ call' = [call EXCEPT ![c] = done]
      /\ UNCHANGED <<settings, history, edits>>
  BY <1>1, <1>3, <1>6 DEF CurrentBuild
<1>10. cached' = [p \in Replica |-> cached'[p]] /\ \A p \in Replica : Genuine(cached'[p])
  BY <1>2, <1>4, <1>9, Facts
<1> QED
  BY <1>8, <1>9, <1>10, CallStep

LEMMA SettingsInvariant ==
    SettingsSpec => []SettingsInv
<1>1. settings = Unsaved /\ SettingsInit => SettingsInv
  BY SettingsInitial
<1>2. ASSUME SettingsInv, [SettingsNext]_<<settings, settingsVars>>
      PROVE  SettingsInv'
  <2>1. CASE SettingsNext
    <3>1. ASSUME NEW c \in Call, NEW p \in Replica, getSettings(c, p) \/ Current(c, p)
          PROVE  SettingsInv'
      BY <1>2, <3>1, GetSettingsStep, CurrentStep
    <3>2. ASSUME NEW c \in Call, NEW actor \in Managers, NEW e \in Edit, NEW older \in BOOLEAN,
                 saveSettings(c, actor, e, older)
          PROVE  SettingsInv'
      BY <1>2, <3>2, SaveSettingsStep
    <3>3. ASSUME NEW c \in Call, SaveCommit(c) \/ SaveCache(c) \/ CurrentBuild(c) \/ Answer(c)
          PROVE  SettingsInv'
      BY <1>2, <3>3, SaveCommitStep, SaveCacheStep, CurrentBuildStep, RefuseStep DEF Answer
    <3> QED
      BY <2>1, <3>1, <3>2, <3>3 DEF SettingsNext
  <2>2. CASE UNCHANGED <<settings, settingsVars>>
    <3>1. UNCHANGED <<settings, cached, call, history, edits>>
      BY <2>2 DEF settingsVars
    <3> QED
      BY <1>2, <3>1, UntouchedStep
  <2> QED
    BY <1>2, <2>1, <2>2
<1> QED
  BY <1>1, <1>2, PTL DEF SettingsSpec

\* Service.Current: for any number of replicas, requests and saves, a snapshot it returns
\* is a configuration committed under its revision, and no older than the one in force
\* when the call began.
THEOREM SnapshotIsFreshHolds == SettingsSpec => []SnapshotIsFresh
<1>1. SettingsInv => SnapshotIsFresh
  <2> SUFFICES ASSUME SettingsInv, NEW c \in Call, call[c].at = "answered"
               PROVE  LET snapshot == call[c].snapshot IN
                      /\ snapshot.revision >= call[c].began
                      /\ snapshot.revision = 0 \/ snapshot = history[snapshot.revision]
    BY DEF SnapshotIsFresh
  <2>1. PICK it, snapshot : it = call[c] /\ snapshot = it.snapshot
    OBVIOUS
  <2>2. Genuine(snapshot) /\ it.began \in Nat /\ it.began <= snapshot.revision
    BY <2>1, Facts DEF Carries
  <2>3. snapshot.revision \in Nat
    BY <2>2, Facts
  <2>4. snapshot.revision >= it.began
    BY <2>2, <2>3
  <2>5. snapshot.revision = 0 \/ snapshot = history[snapshot.revision]
    BY <2>2 DEF Genuine, Committed
  <2> QED
    BY <2>1, <2>4, <2>5
<1> QED
  BY <1>1, SettingsInvariant, PTL

\* Service.Save: for any number of administrators saving from forms they loaded earlier,
\* every committed configuration is the one before it with one edit, and the secrets, keys
\* and certificates that the edit left out are the earlier ones.
THEOREM SavesAreMergedHolds == SettingsSpec => []SavesAreMerged
<1>1. SettingsInv => SavesAreMerged
  <2> SUFFICES ASSUME SettingsInv
               PROVE  SavesAreMerged
    OBVIOUS
  <2>1. DOMAIN history = 1 .. Len(history)
    BY DEF SettingsInv, HistoryInv
  <2>2. ASSUME NEW n \in DOMAIN history
        PROVE  Merged(IF n = 1 THEN decode(Unsaved) ELSE history[n - 1], edits[n], history[n])
    <3>1. n \in 1 .. Len(history) /\ Len(history) \in Nat
      BY <2>1, <2>2, Facts
    <3>2. Merged(Committed(n - 1), edits[n], history[n])
      BY <3>1 DEF SettingsInv, HistoryInv
    <3>3. n = 1 <=> n - 1 = 0
      BY <3>1
    <3> QED
      BY <3>2, <3>3 DEF Committed
  <2> QED
    BY <2>2 DEF SavesAreMerged, Merged
<1> QED
  BY <1>1, SettingsInvariant, PTL
=============================================================================
