------------------------------ MODULE Identity ------------------------------
(***************************************************************************)
(* What the CLI persists and shows of the debugged program (identity.rs):  *)
(* command lines with their secrets redacted, objects capped in size, the  *)
(* seeds made at a start, and what a later status or refusal echoes of the *)
(* identity that a session stored.                                         *)
(*                                                                         *)
(* A word of a command line says whether it is a flag, whether its name is *)
(* a secret's, and its shape: "bare", "valued" (a separator and a value),  *)
(* "nested" (a value with a secret pair in it), or "padded" (such a name   *)
(* or pair, a colon, and a value with a '=' in it, as credentials in       *)
(* base64 have).  `holds` is whether the text holds a secret.  No word     *)
(* begins with a separator; a value in free text has none of the           *)
(* delimiters that end it (attach.rs:477).  A string is its length.        *)
(***************************************************************************)
EXTENDS Integers, SequencesExt

CONSTANTS ArrayCap, FieldCap, TotalCap, \* 32 elements, 512 and 2048 characters
          Cut,      \* characters a pass of the total cap takes off (64)
          Mark,     \* length of the mark left for them
          MaxPasses \* 4096

ASSUME IdentityAssumption ==
  /\ {ArrayCap, FieldCap, TotalCap, Cut, Mark, MaxPasses} \subseteq Nat \ {0}

Shapes == {"bare", "valued", "nested", "padded"}
Word   == [flag : BOOLEAN, secret : BOOLEAN, shape : Shapes, holds : BOOLEAN]

Masked      == [flag |-> FALSE, secret |-> FALSE, shape |-> "bare", holds |-> FALSE]
MaskedIn(w) == [w EXCEPT !.shape = "valued", !.holds = FALSE]

\* What is a secret: the value of a secret name, a secret pair in a value, and
\* the word after a bare secret flag unless it is a flag.
HoldsSecret(argv, i) ==
  \/ argv[i].shape = "nested"
  \/ argv[i].shape \in {"valued", "padded"} /\ argv[i].secret
  \/ /\ i > 1 /\ ~argv[i].flag
     /\ argv[i - 1].flag /\ argv[i - 1].secret /\ argv[i - 1].shape = "bare"

CommandLine(words) ==
  [i \in DOMAIN words |-> [words[i] EXCEPT !.holds = HoldsSecret(words, i)]]

\* What redact_argv makes of a word: it is split at its first '=', wherever
\* that is, and at a colon only when there is none.  Of a padded word it may
\* mask what follows the '=', never what stands before it.
RedactValue(w) ==
  IF w.shape = "nested" \/ (w.shape = "valued" /\ w.secret) THEN MaskedIn(w) ELSE w

RedactSwallowing(acc, w) ==
  IF acc.skip
  THEN [out |-> Append(acc.out, Masked), skip |-> FALSE]
  ELSE [out |-> Append(acc.out, RedactValue(w)), skip |-> w.shape = "bare" /\ w.secret]

\* One word of redact_argv.  A flag is never taken for the value it may
\* follow; a bare secret name arms the next word.
RedactWord(acc, w) ==
  IF acc.skip /\ ~w.flag
  THEN [out |-> Append(acc.out, Masked), skip |-> FALSE]
  ELSE [out |-> Append(acc.out, RedactValue(w)), skip |-> w.shape = "bare" /\ w.secret]

NothingRead == [out |-> <<>>, skip |-> FALSE]

RedactArgv(argv) ==
  LET read[n \in 0 .. Len(argv)] ==
        IF n = 0 THEN NothingRead ELSE RedactWord(read[n - 1], argv[n])
  IN  read[Len(argv)].out

\* One word of mask_bare_flag_values, after the passes that mask the values of
\* pairs: the rule for the words of a text is the rule for arguments.
MaskBareWord(acc, w) ==
  IF acc.skip
  THEN IF w.flag
       THEN [out |-> Append(acc.out, w), skip |-> w.secret /\ w.shape = "bare"]
       ELSE [out |-> Append(acc.out, Masked), skip |-> FALSE]
  ELSE [out |-> Append(acc.out, w), skip |-> w.secret /\ w.shape = "bare"]

\* mask_keyed_values and mask_bearer: a secret name's value, wherever it stands,
\* from its own separator on
MaskValue(w) ==
  IF w.shape = "nested" \/ (w.shape \in {"valued", "padded"} /\ w.secret)
  THEN MaskedIn(w) ELSE w

MaskPairs(text) == [i \in DOMAIN text |-> MaskValue(text[i])]

SanitizeCause(text) ==
  LET read[n \in 0 .. Len(text)] ==
        IF n = 0 THEN NothingRead ELSE MaskBareWord(read[n - 1], MaskPairs(text)[n])
  IN  read[Len(text)].out

\* the element cap of cap_identity, with a mark for what is dropped
CapArray(argv) ==
  IF Len(argv) > ArrayCap THEN Append(SubSeq(argv, 1, ArrayCap), Masked) ELSE argv

-----------------------------------------------------------------------------
(* The size caps of cap_identity.                                          *)

\* what a pass takes off a string that stays long
Gain == IF Cut > Mark THEN Cut - Mark ELSE 1

Truncate(n, limit) == IF n <= limit THEN n ELSE limit + Mark

Size(strings) ==
  LET sum[n \in 0 .. Len(strings)] == IF n = 0 THEN 0 ELSE sum[n - 1] + strings[n]
  IN  sum[Len(strings)]

Longest(strings) ==
  CHOOSE i \in DOMAIN strings : \A j \in DOMAIN strings : strings[j] <= strings[i]

Incompressible(strings) == \A i \in DOMAIN strings : strings[i] <= 1

\* One pass: the longest string loses Cut characters; when the mark makes up
\* for that, it collapses to one character.
ShrinkLongest(strings) ==
  LET i == Longest(strings)
      n == strings[i]
      shorter == Truncate(n, IF n > Cut + 1 THEN n - Cut ELSE 1)
  IN  [strings EXCEPT ![i] = IF shorter < n THEN shorter ELSE 1]

Fits(strings) == Size(strings) <= TotalCap \/ Incompressible(strings)

Pass(strings) == IF Fits(strings) THEN strings ELSE ShrinkLongest(strings)

CapFields(strings) == [i \in DOMAIN strings |-> Truncate(strings[i], FieldCap)]

CapIdentity(lengths) ==
  LET shrunk[n \in 0 .. MaxPasses] ==
        IF n = 0 THEN CapFields(lengths) ELSE Pass(shrunk[n - 1])
  IN  shrunk[MaxPasses]

-----------------------------------------------------------------------------
(* Seeds and stored identities.                                            *)

Roles == {"debuggee", "endpoint", "adapter"}

\* attach_seed: what the listener's lookup found, or that it found nothing
AttachSeed(loopback, found) ==
  [debuggee |-> "unavailable",
   endpoint |-> IF loopback /\ found.pid THEN "os-corroborated" ELSE "unavailable",
   argv     |-> IF loopback /\ found.pid THEN CapArray(RedactArgv(found.argv)) ELSE <<>>,
   missing  |-> IF ~loopback THEN {"ownerPid", "executable", "argv", "cwd"}
                ELSE IF ~found.pid THEN {"ownerPid"}
                ELSE {f \in {"executable", "cwd"} : ~found[f]} \cup
                     (IF found.argv = <<>> THEN {"argv"} ELSE {})]

\* launch_seed: the launcher's own words, no fact about the process
LaunchSeed(argv) ==
  [debuggee |-> "unavailable", endpoint |-> "unavailable",
   argv |-> CapArray(RedactArgv(argv)), missing |-> {"pid", "endpoint", "adapter"}]

\* A stored identity says what each role is, whether it has the flat fields of
\* old sessions, whether it names a process, and the command line in it, which
\* an old bridge may not have redacted.
RoleValues == {"object", "null", "other", "absent"}

IsLayered(s) == (\A r \in Roles : s.roles[r] \in {"object", "null"}) /\ ~s.flat

\* layered_identity_or_null, owner_target_identity, sanitize_layered_identity:
\* redacted and capped again, or nothing at all (for an owner: unavailable
\* roles without a pid)
Echo(s) ==
  IF IsLayered(s)
  THEN [shown |-> TRUE, pid |-> s.pid, argv |-> CapArray(RedactArgv(s.argv))]
  ELSE [shown |-> FALSE, pid |-> FALSE, argv |-> <<>>]
=============================================================================
