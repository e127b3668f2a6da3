------------------------------ MODULE Finance ------------------------------
(* What invoices and the financial reports share: who reaches an association,   *)
(* and the rounding of amounts (check_association, scoped_associations, money   *)
(* and percentage of their services).                                        *)
EXTENDS UnitOfWork

MANAGER_ROLE_CODES == {"super_admin", "admin", "accountant"}

\* The associations an account administers or, if it has none, the one it belongs to.
check_association(tables, account, association) ==
    /\ association_exists(tables, association)
    /\ \/ RoleOf[account] = "super_admin"
       \/ association \in Manages[account]
       \/ Manages[account] = {} /\ association = HomeOf[account]

\* ROUND_HALF_UP of hundredths
money(value) == (value + 50) \div 100

\* A share of a total in hundredths of a percent, ROUND_HALF_UP
percentage(amount, total) == IF total = 0 THEN 0 ELSE (20000 * amount + total) \div (2 * total)
=============================================================================
