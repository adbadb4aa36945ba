----------------------------- MODULE MCConsent -----------------------------
(* Two organisations, two imports, one answer and one message.             *)
EXTENDS Consent, TLC

CONSTANTS a, b, i1, i2, f1, s1, email, phone

MCOrgs == {a, b}
MCImports == {i1, i2}
MCFeedbacks == {f1}
MCSends == {s1}
MCRecords == SUBSET {email, phone}
MCSymmetry == Permutations(MCOrgs) \union Permutations(MCImports) \union
              Permutations({email, phone})
=============================================================================
