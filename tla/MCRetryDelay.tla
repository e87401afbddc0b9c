---------------------------- MODULE MCRetryDelay ----------------------------
(* Instances of RetrySchedule for TLC.  A Duration goes up to 31 here, and a *)
(* float64 keeps three significant bits: 31 rounds to 32.                    *)
EXTENDS RetrySchedule

(* What amd64 makes of a float64 beyond MaxDuration = 31, and of a NaN. *)
LeastDuration == -32

(* A negative BackoffMax is one that New refuses and WithCallRetry lets in.  *)
(* 19 rounds to a ceiling above it; 31 to one no Duration holds.             *)
SomePolicies ==
    [MaxRetries : {5}, BackoffInitial : {0, 3, 17}, BackoffMax : {-1, 12, 19, 31},
     Jitter : {Fraction(0), Fraction(1), Fraction(2), NaN}, MaxRetryAfter : {0, 5, 31},
     IgnoreRetryAfter : BOOLEAN,
     Statuses : {[isNil |-> TRUE, codes |-> {}]}, ConnectionErrors : {TRUE}]

(* 15 ms is 30 units, the longest a Duration holds; 32 units is the float64  *)
(* that passes the overflow test and overflows; a date 40 units away is      *)
(* beyond any Duration.                                                      *)
MsValues == {Absent, Unreadable} \cup [kind : {"int"}, n : {-1, 2, 15, 16}]
AfterValues ==
    {Absent, Unreadable} \cup [kind : {"secs"}, n : {-1, 3, 28, 32, 40}]
                         \cup [kind : {"date"}, n : {0, 9, 46}]
AllHints == [ms : MsValues, after : AfterValues]
=============================================================================
