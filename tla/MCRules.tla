------------------------------- MODULE MCRules -------------------------------
(***************************************************************************)
(* The rules of the repository that keep no state, called one at a time:   *)
(* the signature checks of the ingress, the lead score, the error taxonomy,*)
(* the schema defaults and recorded answers of the mock LLM, the checksums,*)
(* VAT and dates of invoices and the normalisation of leads.  The modules  *)
(* it extends make the calls of one each; they share the phase, so a call  *)
(* begins when the one before it has been answered.                        *)
(***************************************************************************)
EXTENDS MCWebhookAuth, MCLeadScore, MCErrorTaxonomy, MCSchemaDefault, MCChecksums,
        MCInvoiceRules, MCNormalizeLead, MCFixtures

\* free_mail_domains.txt and disposable_domains.txt.
FreeMailDomains == {<<Part("gmail.com")>>}
DisposableDomains == {<<Part("temp.fi")>>}
NoSuchDigest == <<"none", <<>>>>

\* The errors of this instance are ones that SameAnswer is about.
ASSUME InputsReadAlike == ReadAlike

RulesInit == /\ AuthInit /\ ScoreInit /\ ErrorInit /\ SchemaInit /\ NumberInit
             /\ InvoiceInit /\ LeadInit /\ FixtureInit

RulesNext ==
    \/ AuthNext /\ UNCHANGED <<scoreVars, errorVars, schemaVars, numberVars, invoiceVars, leadVars, fixtureVars>>
    \/ ScoreNext /\ UNCHANGED <<authVars, errorVars, schemaVars, numberVars, invoiceVars, leadVars, fixtureVars>>
    \/ ErrorNext /\ UNCHANGED <<authVars, scoreVars, schemaVars, numberVars, invoiceVars, leadVars, fixtureVars>>
    \/ SchemaNext /\ UNCHANGED <<authVars, scoreVars, errorVars, numberVars, invoiceVars, leadVars, fixtureVars>>
    \/ NumberNext /\ UNCHANGED <<authVars, scoreVars, errorVars, schemaVars, invoiceVars, leadVars, fixtureVars>>
    \/ InvoiceNext /\ UNCHANGED <<authVars, scoreVars, errorVars, schemaVars, numberVars, leadVars, fixtureVars>>
    \/ LeadNext /\ UNCHANGED <<authVars, scoreVars, errorVars, schemaVars, numberVars, invoiceVars, fixtureVars>>
    \/ FixtureNext /\ UNCHANGED <<authVars, scoreVars, errorVars, schemaVars, numberVars, invoiceVars, leadVars>>

RulesSpec == /\ RulesInit
             /\ [][RulesNext]_<<phase, authVars, scoreVars, errorVars, schemaVars, numberVars,
                                invoiceVars, leadVars, fixtureVars>>
=============================================================================
