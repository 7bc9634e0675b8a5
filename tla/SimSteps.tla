------------------------------ MODULE SimSteps ------------------------------
(***************************************************************************)
(* What the simulation scripts (simul-*.js) are made of.  A script sends a *)
(* fork of mainnet a list of steps, each with the answer it expects, and   *)
(* takes readings on the way that it compares at its end.                  *)
(*                                                                         *)
(* A step names the function called, its sender, the arguments, the signed *)
(* authorisations and the fee of the gas station, if one is named.  Steps   *)
(* that deploy the contracts are the initial state of the models.          *)
(*                                                                         *)
(* Principals, keys, topics and memos are strings; amounts are whole STX,  *)
(* sats or tokens.                                                         *)
(***************************************************************************)
EXTENDS Integers, Sequences, TLC

Ok == "ok"
None == "none"

NoStation == -1
Step(op, by, args, auths) ==
  [op |-> op, by |-> by, args |-> args, auths |-> auths, gas |-> NoStation, answer |-> Ok,
   moved |-> <<>>]
\* A call authorised by its sender, and one that carries signatures.
Call(by, op, args) == Step(op, by, args, <<>>)
Relayed(by, op, args, auth) == Step(op, by, args, <<auth>>)
PayingGas(step, fee) == [step EXCEPT !.gas = fee]
\* The contract answers (err code); "any" where the script accepts every error.
Refused(step, code) == [step EXCEPT !.answer = code]
\* The balances before and after the step differ by just this much.
NoMove == [stx |-> 0, sbtc |-> 0, other |-> 0]
Moving(step, change) == [step EXCEPT !.moved = <<change @@ NoMove>>]

\* addAdvanceBlocks: burn blocks, and the reward cycles that begin with them.  They
\* end in a prepare phase only where the script says so.
Advance(blocks, cycles) ==
  Call(None, "advance", [blocks |-> blocks, cycles |-> cycles, preparing |-> FALSE])
IntoPrepare(step) == [step EXCEPT !.args.preparing = TRUE]
\* What arrives at the wallet from outside.
Fund(asset, amount) == Call(None, "fund", [asset |-> asset, amount |-> amount])
\* The readings taken here, under a name.
See(name) == Call(None, "see", [name |-> name])

NoArgs == [none |-> None]
-----------------------------------------------------------------------------
(* Signatures (lib-webauthn-test-signer.mjs).  An assertion shows the key   *)
(* that made it, the relying party it was made for and the challenge; a     *)
(* challenge is the hash of a message, and stands for that message.         *)

TestRpId == "fak.fun"
SignChallenge(message, key) == [key |-> key, rp |-> TestRpId, message |-> message]
SignChallengeWithRpId(message, key, rp) == [key |-> key, rp |-> rp, message |-> message]
SigAuth(id, pubkey, signed) == [authId |-> id, pubkey |-> pubkey, signed |-> signed]
BuildSignedBundle(key, operations) ==
  [i \in DOMAIN operations |->
     SigAuth(operations[i].authId, key, SignChallenge(operations[i], key))]
\* The same authorisation made for another site, or by another key.
ForSite(step, rp) == [step EXCEPT !.auths[1].signed.rp = rp]
ByKey(step, key) == [step EXCEPT !.auths[1].pubkey = key, !.auths[1].signed.key = key]
\* Bytes that are no signature of the key.
Garbage(signed) == [signed EXCEPT !.key = "garbage"]

\* The message of a wallet's operation: what its SIP-018 hash binds.
Message(topic, id, args) == [topic |-> topic, authId |-> id, args |-> args]
=============================================================================
