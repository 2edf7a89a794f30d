---------------------------- MODULE Configuration ----------------------------
(***************************************************************************)
(* The timing policy of the IKE daemon (src/src/charon/config/            *)
(* configuration.c): the retransmission backoff, the half-open timeout,   *)
(* the keepalive interval and the jittered retry interval.  All values    *)
(* are u_int32_t milliseconds or seconds as in the code.                  *)
(***************************************************************************)
EXTENDS Integers

HALF_OPEN_IKE_SA_TIMEOUT == 30000
RETRANSMIT_TIMEOUT == 4000
RETRANSMIT_TRIES == 5
KEEPALIVE_INTERVAL == 20
RETRY_INTERVAL == 30
RETRY_JITTER == 20

(* RETRANSMIT_BASE is the double 1.8 = 9/5.  The code casts               *)
(* RETRANSMIT_TIMEOUT * pow(1.8, n) to u_int32_t, which truncates: the    *)
(* exact product 4000 * 9^n / 5^n rounded down.  For n <= 5 the double     *)
(* result lies on the same side of every integer as the exact one.        *)
RETRANSMIT_BASE_NUM == 9
RETRANSMIT_BASE_DEN == 5

(* Seeded fault for mutation testing: gives up one try early (>=).       *)
get_retransmit_timeout_early(retransmit_count) ==
    IF retransmit_count >= RETRANSMIT_TRIES
    THEN 0
    ELSE (RETRANSMIT_TIMEOUT * RETRANSMIT_BASE_NUM ^ retransmit_count)
            \div (RETRANSMIT_BASE_DEN ^ retransmit_count)

(* get_retransmit_timeout: zero means "give up".                          *)
get_retransmit_timeout(retransmit_count) ==
    IF retransmit_count > RETRANSMIT_TRIES
    THEN 0
    ELSE (RETRANSMIT_TIMEOUT * RETRANSMIT_BASE_NUM ^ retransmit_count)
            \div (RETRANSMIT_BASE_DEN ^ retransmit_count)

get_half_open_ike_sa_timeout == HALF_OPEN_IKE_SA_TIMEOUT

get_keepalive_interval == KEEPALIVE_INTERVAL

(* get_retry_interval returns RETRY_INTERVAL - (random() % RETRY_JITTER).  *)
(* random() ranges over 0..2^31-1, so every remainder 0..RETRY_JITTER-1    *)
(* occurs: the operator is the set of values the call can return.         *)
get_retry_interval == {RETRY_INTERVAL - j : j \in 0 .. RETRY_JITTER - 1}

=============================================================================
