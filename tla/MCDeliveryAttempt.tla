--------------------------- MODULE MCDeliveryAttempt ---------------------------
EXTENDS DeliveryAttempt

\* Every boundary of the classification, and codes beyond HTTP's.
MCStatuses == {100, 199, 200, 202, 299, 300, 304, 399, 400, 404, 407, 408, 409, 424, 425,
               426, 428, 429, 430, 499, 500, 503, 599, 600, 999}
MCRetryAfters == {0, 2}
MCBackoffs == {0, 1, 4}
MCBudgets == {0, 1, 2, 5}
MCClockReadings == 0..1

===============================================================================
