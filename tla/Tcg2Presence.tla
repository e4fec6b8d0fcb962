----------------------------- MODULE Tcg2Presence -----------------------------
(***************************************************************************)
(* TPM physical presence requests: the operating system (or the setup      *)
(* screens) leaves a request in a page that survives resets, the firmware  *)
(* asks the user at the next boot, carries it out, answers in the same     *)
(* page and resets.  The machine may be reset at any step.                 *)
(***************************************************************************)
EXTENDS Naturals, FiniteSets

CONSTANTS
  TpmRequests,    \* the requests made
  TpmBanks,       \* PCR banks of the TPM
  MaxTpmBoots,    \* bound: boots
  MaxTpmSubmits   \* bound: requests left

ASSUME TpmAssumption == TpmBanks # {} /\ {MaxTpmBoots, MaxTpmSubmits} \subseteq Nat

Clears    == {"CLEAR", "ENABLE_CLEAR", "ENABLE_CLEAR_2", "ENABLE_CLEAR_3"}
BlockSids == {"ENABLE_BLOCK_SID", "DISABLE_BLOCK_SID"}
\* Request numbers up to TCG2_PHYSICAL_PRESENCE_NO_ACTION_MAX; "LEGACY" is any other of them.
NoActionMax == {"NO_ACTION", "CLEAR", "ENABLE_CLEAR", "LEGACY"}

VARIABLES
  tPage,      \* QEMU_TPM_PPI: [in, req, par, last, resp, func]
  tConf,      \* this boot: [ok: etc/tpm/config is usable, v2, proto: gEfiTcg2ProtocolGuid, s4]
  tPpi,       \* mPpi is set
  tPc,        \* "boot", "confirm", "execute", "store", "record", "reset", "assert", "os", and "left"
              \* once the operating system has left a request
  tUser,      \* <<request, parameter>> the user accepted in this boot, or <<>>
  tTpm,       \* [banks, done, res]: active banks; <<request, parameter>> carried out in this boot; the result
  tFact,      \* ghost: <<request, answer>> of the request processed last
  tCut,       \* ghost: "cut" when a reset cut off the processing of a request that has an answer already,
              \* "withdrawn" when the operating system then took that request back, else "no"
  tBoots, tSubmits    \* bounded counts

tVars == <<tPage, tConf, tPpi, tPc, tUser, tTpm, tFact, tCut, tBoots, tSubmits>>

Confs == [ok : BOOLEAN, v2 : BOOLEAN, proto : BOOLEAN, s4 : BOOLEAN]

TInit ==
  /\ tPage = [in |-> 0, req |-> "NO_ACTION", par |-> {}, last |-> "NO_ACTION", resp |-> "SUCCESS", func |-> {}]
  /\ tConf \in [ok : BOOLEAN, v2 : BOOLEAN, proto : BOOLEAN, s4 : {FALSE}]
  /\ tPpi = FALSE /\ tPc = "boot" /\ tUser = <<>>
  /\ tTpm = [banks |-> TpmBanks, done |-> {}, res |-> "SUCCESS"]
  /\ tFact = <<"NO_ACTION", "SUCCESS">> /\ tCut = "no" /\ tBoots = 1 /\ tSubmits = 0

(***************************************************************************)
(* QemuTpmInitPPI, called first by every entry point.  The functions the   *)
(* operating system may ask for are listed anew; requests are not touched. *)
(***************************************************************************)
Allowed == {"NO_ACTION", "SET_PCR_BANKS", "CHANGE_EPS", "LOG_ALL_DIGESTS"} \cup Clears \cup BlockSids

QemuTpmInitPPI(page) ==
  IF tPpi THEN page
  ELSE LET listed == [page EXCEPT !.func = IF tConf.v2 THEN Allowed ELSE {}]
       IN  IF listed.in # 0 THEN listed
           ELSE [listed EXCEPT !.in = 1, !.req = "NO_ACTION", !.last = "NO_ACTION"]

(***************************************************************************)
(* Tcg2HaveValidTpmRequest: "no", "ask" the user, or "yes".                *)
(***************************************************************************)
Tcg2HaveValidTpmRequest(req) ==
  IF req \in NoActionMax /\ ~tConf.proto THEN "no"
  ELSE CASE req \in {"NO_ACTION", "LOG_ALL_DIGESTS"} -> "yes"
         [] req \in Clears \cup BlockSids \cup {"SET_PCR_BANKS", "CHANGE_EPS"} -> "ask"
         [] OTHER -> "no"

Answered(page, resp) == [page EXCEPT !.resp = resp, !.last = page.req, !.req = "NO_ACTION", !.par = {}]

\* Tcg2PhysicalPresenceLibProcessRequest up to the question to the user, or to the first answer.
ProcessRequest ==
  /\ tPc = "boot"
  /\ IF ~tConf.ok THEN tPc' = "os" /\ UNCHANGED <<tPage, tPpi, tFact, tCut>>
     ELSE LET page == QemuTpmInitPPI(tPage)
              valid == Tcg2HaveValidTpmRequest(page.req)
              refused == IF page.req \in NoActionMax THEN "SUCCESS" ELSE "BIOS_FAILURE"
          IN  /\ tPpi' = TRUE
              /\ IF tConf.s4 \/ page.req = "NO_ACTION" THEN tPage' = page /\ tPc' = "os" /\ UNCHANGED <<tFact, tCut>>
                 ELSE IF valid = "no"
                 THEN tPage' = Answered(page, refused) /\ tFact' = <<page.req, refused>> /\ tPc' = "os" /\ tCut' = "no"
                 ELSE /\ tPage' = IF valid = "yes" THEN [page EXCEPT !.resp = "USER_ABORT"] ELSE page
                      /\ tPc' = IF valid = "yes" THEN "execute" ELSE "confirm"
                      /\ UNCHANGED <<tFact, tCut>>
  /\ UNCHANGED <<tConf, tUser, tTpm, tBoots, tSubmits>>

(***************************************************************************)
(* Tcg2UserConfirm and Tcg2ReadUserKey: F12 accepts what is marked with a  *)
(* caution, F10 the rest, ESC refuses, any other key is read past.  The    *)
(* text for new banks needs the TCG2 protocol, by an assertion.            *)
(***************************************************************************)
CautionKey(req) == req \notin BlockSids

Tcg2ReadUserKey(caution) == IF caution THEN "F12" ELSE "F10"

Tcg2UserConfirm(key) ==
  /\ tPc = "confirm"
  /\ IF tPage.req = "SET_PCR_BANKS" /\ ~tConf.proto
     THEN tPc' = "assert" /\ UNCHANGED <<tUser, tPage, tFact, tCut>>
     ELSE \/ /\ key = "ESC" /\ tPc' = "record" /\ tPage' = [tPage EXCEPT !.resp = "USER_ABORT"]
             /\ tFact' = <<tPage.req, "USER_ABORT">> /\ tCut' = "no" /\ UNCHANGED tUser
          \/ /\ key = Tcg2ReadUserKey(CautionKey(tPage.req))
             /\ tPc' = "execute" /\ tPage' = [tPage EXCEPT !.resp = "USER_ABORT"]
             /\ tUser' = <<tPage.req, tPage.par>> /\ UNCHANGED <<tFact, tCut>>
  /\ UNCHANGED <<tConf, tPpi, tTpm, tBoots, tSubmits>>

(***************************************************************************)
(* Tcg2ExecutePhysicalPresence; the TPM may refuse each command.  Until    *)
(* its result is stored the page holds "USER_ABORT", and the answer is in  *)
(* the page before the request leaves it.                                  *)
(***************************************************************************)
Carry(banks, ok) ==
  tTpm' = IF ok THEN [banks |-> banks, done |-> tTpm.done \cup {<<tPage.req, tPage.par>>}, res |-> "SUCCESS"]
          ELSE [tTpm EXCEPT !.res = "BIOS_FAILURE"]

Tcg2ExecutePhysicalPresence ==
  /\ tPc = "execute" /\ tPc' = "store"
  /\ \E ok \in BOOLEAN :
       CASE tPage.req \in Clears \cup {"CHANGE_EPS"} -> Carry(tTpm.banks, ok)
         [] tPage.req = "SET_PCR_BANKS"   -> Carry(tPage.par, ok /\ tPage.par # {} /\ tPage.par \subseteq TpmBanks)
         [] tPage.req = "LOG_ALL_DIGESTS" -> Carry(TpmBanks, ok)
         [] OTHER -> tTpm' = [tTpm EXCEPT !.res = IF tPage.req \in NoActionMax THEN "SUCCESS" ELSE "BIOS_FAILURE"]
  /\ UNCHANGED <<tPage, tConf, tPpi, tUser, tFact, tCut, tBoots, tSubmits>>

StoreResponse ==
  /\ tPc = "store" /\ tPc' = "record"
  /\ tPage' = [tPage EXCEPT !.resp = tTpm.res]
  /\ tFact' = <<tPage.req, tTpm.res>> /\ tCut' = "no"
  /\ UNCHANGED <<tConf, tPpi, tUser, tTpm, tBoots, tSubmits>>

\* Mutant: resets first.
ClearRequest_Late ==
  /\ tPc = "record" /\ tPage' = [tPage EXCEPT !.last = tPage.req]
  /\ tPc' = IF tPage.resp = "USER_ABORT" \/ tPage.req = "LEGACY" THEN "os" ELSE "reset"
  /\ UNCHANGED <<tConf, tPpi, tUser, tTpm, tFact, tCut, tBoots, tSubmits>>

\* The rest of Tcg2ExecutePendingTpmRequest: clear the request, reset unless the user refused.
ClearRequest ==
  /\ tPc = "record" /\ tPage' = Answered(tPage, tPage.resp)
  /\ tPc' = IF tPage.resp = "USER_ABORT" \/ tPage.req = "LEGACY" THEN "os" ELSE "reset"
  /\ UNCHANGED <<tConf, tPpi, tUser, tTpm, tFact, tCut, tBoots, tSubmits>>

(***************************************************************************)
(* A reset: asked for above, by the user, or at any moment.  Power loss    *)
(* empties the page too.                                                   *)
(***************************************************************************)
Reset(powerLoss) ==
  /\ tBoots < MaxTpmBoots /\ tBoots' = tBoots + 1
  /\ tConf' \in Confs /\ tConf'.ok = tConf.ok /\ tConf'.v2 = tConf.v2
  /\ tPpi' = FALSE /\ tPc' = "boot" /\ tUser' = <<>> /\ tTpm' = [tTpm EXCEPT !.done = {}]
  /\ IF powerLoss
     THEN tPage' = [in |-> 0, req |-> "NO_ACTION", par |-> {}, last |-> "NO_ACTION", resp |-> "SUCCESS", func |-> {}]
          /\ tFact' = <<"NO_ACTION", "SUCCESS">> /\ tCut' = "no"
     ELSE /\ tCut' = IF tPc \in {"execute", "store", "record"} THEN "cut" ELSE tCut
          /\ UNCHANGED <<tPage, tFact>>
  /\ UNCHANGED tSubmits

\* Tcg2PhysicalPresenceLibSubmitRequestToPreOSFunction, and the operating system's ACPI methods.
SubmitRequestToPreOS(req, par) ==
  /\ tPc \in {"os", "left"} /\ tPc' = "left" /\ tConf.ok
  /\ tSubmits < MaxTpmSubmits /\ tSubmits' = tSubmits + 1
  /\ tPage' = [QemuTpmInitPPI(tPage) EXCEPT !.req = req, !.par = par] /\ tPpi' = TRUE
  /\ tCut' = IF tCut # "no" /\ req = "NO_ACTION" THEN "withdrawn" ELSE tCut
  /\ UNCHANGED <<tConf, tUser, tTpm, tFact, tBoots>>

\* Tcg2PhysicalPresenceLibReturnOperationResponseToOsFunction.
OperationResponse == IF tConf.ok THEN <<tPage.last, tPage.resp>> ELSE <<"NO_ACTION", "SUCCESS">>

TNext ==
  \/ ProcessRequest \/ \E key \in {"ESC", "F10", "F12"} : Tcg2UserConfirm(key)
  \/ Tcg2ExecutePhysicalPresence \/ StoreResponse \/ ClearRequest
  \/ \E p \in BOOLEAN : Reset(p)
  \/ \E r \in TpmRequests : \E b \in IF r = "SET_PCR_BANKS" THEN SUBSET (TpmBanks \cup {"new"}) ELSE {{}} :
       SubmitRequestToPreOS(r, b)

TSpec == TInit /\ [][TNext]_tVars

(***************************************************************************)
(* The TPM is cleared, its seed and its banks are changed only on the word *)
(* of the user, given in this boot for this request and this parameter, so *)
(* that a change which a reset cut off is never repeated unasked; only     *)
(* LOG_ALL_DIGESTS goes unasked (AskedBeforeAnyChange).  The banks stay    *)
(* banks the TPM has.  Once the firmware has looked at the page, also when *)
(* the user or the library refused, no request is pending and the          *)
(* operating system reads what became of the last one, and goes on to read *)
(* it until the next is processed; unless a reset cut off a request after  *)
(* its first answer was stored and the operating system took it back in a  *)
(* boot from S4: then it reads that answer with the name of an older       *)
(* request.                                                                *)
(***************************************************************************)
PresenceConfirmed ==
  /\ \A d \in tTpm.done : d[1] = "LOG_ALL_DIGESTS" \/ d = tUser
  /\ tTpm.banks # {} /\ tTpm.banks \subseteq TpmBanks
  /\ tConf.ok /\ ~tConf.s4 =>
       /\ tPc \in {"os", "reset"} => tPage.req = "NO_ACTION"
       /\ tPc \in {"os", "left", "reset"} => OperationResponse = tFact \/ tCut = "withdrawn"

(***************************************************************************)
(* "The TPM request will be sent to TPM device after the TPM request is    *)
(* confirmed" (DxeTcg2PhysicalPresenceLib.c:825), and each function is     *)
(* listed as one that needs the user (lines 43 and 147).                   *)
(***************************************************************************)
AskedBeforeAnyChange == \A d \in tTpm.done : d = tUser
=============================================================================
