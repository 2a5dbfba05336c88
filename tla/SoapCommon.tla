----------------------------- MODULE SoapCommon -----------------------------
(***************************************************************************)
(* What every SOAP handler of onvif-server checks first: the credentials   *)
(* (soap/soap_common.cpp) and the profile token (media/media_model.cpp).   *)
(* Whether a text or a digest fits the configured password is one fact of  *)
(* the header; SHA-1 and base64 are not modelled.                          *)
(***************************************************************************)
EXTENDS Integers

CONSTANT Secured   \* --username and --password are set, both or neither

ASSUME SecuredAssumption == Secured \in BOOLEAN

(* proof: the password is the configured one, or the digest is that of     *)
(* nonce, creation time and the configured password.  age: the server's    *)
(* clock minus the creation time, in seconds.                              *)
Header == [user : {"none", "known", "other"}, password : {"none", "text", "digest"},
           proof : BOOLEAN, age : Int]

(* A digest counts for five minutes, by a clock that is behind or ahead. *)
utc_timestamp_within(age, tolerance) == -tolerance <= age /\ age <= tolerance

require_auth(header) ==
    \/ ~Secured
    \/ /\ header.user = "known"
       /\ header.password # "none"
       /\ header.password = "digest" => utc_timestamp_within(header.age, 300)
       /\ header.proof

(* A token may carry the prefix "encoder-".  rail-media is asked for the   *)
(* profile's values, its token and name are "main".                       *)
Token == [prefixed : BOOLEAN, base : STRING]
ProfileNames == {"main"}

has_profile_token(token) == token.base \in ProfileNames

validate_profile_token(token) == token.base # "" /\ has_profile_token(token)

=============================================================================
