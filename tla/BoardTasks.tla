----------------------------- MODULE BoardTasks -----------------------------
(* The tasks of a board: their supervisor, their status and the message thread   *)
(* of each (app/modules/board_tasks).                                        *)
EXTENDS UnitOfWork

BOARD_TASK_MANAGER_ROLES == {"super_admin", "admin", "board_member"}
BOARD_TASK_ADMIN_ROLES == {"super_admin", "admin"}
BoardTaskStatuses == {"New", "In Progress", "Completed", "Cancelled"}

\* The association of the member's unit; a member without a unit has none here.
member_association_id(account) ==
    IF UnitOf[account] = None THEN None ELSE UnitHome[UnitOf[account]]

_require_board_association(account, association) ==
    CASE RoleOf[account] = "super_admin" -> TRUE
      [] RoleOf[account] = "admin" -> association \in Manages[account]
      [] RoleOf[account] = "board_member" -> association = member_association_id(account)
      [] OTHER -> FALSE

board_members(association) ==
    {a \in Accounts : RoleOf[a] = "board_member" /\ UnitOf[a] # None
                      /\ member_association_id(a) = association}

\* task_model asks whether the task is live, not whether its association is.
_authorized_task(tables, task, account) ==
    /\ IsLive(tables.boardTasks, task)
    /\ _require_board_association(account, tables.boardTasks[task].association)

\* What GET /board-tasks returns.
board_task_list(tables, account) ==
    {t \in Live(tables.boardTasks) :
        /\ association_exists(tables, tables.boardTasks[t].association)
        /\ _require_board_association(account, tables.boardTasks[t].association)}

\* Who is told of a new task and of a message.
task_participants(task) ==
    {task.creator, task.supervisor} \cup board_members(task.association)
    \cup {a \in Accounts : task.association \in Manages[a] \/ RoleOf[a] = "super_admin"}
-----------------------------------------------------------------------------
create_task(r) ==
    LET b == body[r]
        association == IF b.association = None /\ RoleOf[b.by] = "board_member"
                       THEN member_association_id(b.by) ELSE b.association
        task == [association |-> association, creator |-> b.by, supervisor |-> b.supervisor,
                 status |-> "New", deleted |-> FALSE]
    IN  /\ Asks(r, "create_task")
        /\ Decide(r,
             /\ RoleOf[b.by] \in BOARD_TASK_MANAGER_ROLES
             /\ association_exists(seen[r], association)
             /\ _require_board_association(b.by, association)
             /\ b.supervisor \in board_members(association), FALSE,
             [db EXCEPT !.boardTasks = With(@, [k \in {r} |-> task]),
                        !.notifications = Notify(@, r, <<"task", r>>, task_participants(task))])

\* Any status may follow any other.
update_task_status(r) ==
    LET b == body[r]
        old == seen[r].boardTasks[b.task]
    IN  /\ Asks(r, "task_status")
        /\ Decide(r, _authorized_task(seen[r], b.task, b.by), FALSE,
             [db EXCEPT !.boardTasks = Save(@, seen[r].boardTasks, b.task,
                                            [old EXCEPT !.status = b.status]),
                        !.notifications = Notify(@, r, <<"task", b.task>>,
                                                 {old.creator, old.supervisor})])

delete_task(r) ==
    /\ Asks(r, "delete_task")
    /\ Decide(r,
         /\ RoleOf[body[r].by] \in BOARD_TASK_ADMIN_ROLES
         /\ _authorized_task(seen[r], body[r].task, body[r].by), FALSE,
         [db EXCEPT !.boardTasks = Delete(@, seen[r].boardTasks, {body[r].task})])

\* The frame leaves the sender out, other than that of a service request.
send_task_message(r) ==
    LET b == body[r]
        to == task_participants(seen[r].boardTasks[b.task]) \ {b.by}
    IN  /\ Asks(r, "task_message")
        /\ Decide(r, _authorized_task(seen[r], b.task, b.by), FALSE,
             [db EXCEPT !.taskMessages = With(@, [k \in {r} |-> [task |-> b.task, by |-> b.by]]),
                        !.frames = @ \cup {Message(r, <<"task", b.task, "message">>, to)},
                        !.notifications = Notify(@, r, <<"task", b.task>>, to)])

BoardTaskStep(r) ==
    create_task(r) \/ update_task_status(r) \/ delete_task(r) \/ send_task_message(r)
-----------------------------------------------------------------------------
BoardTasksTypeOK ==
    \A t \in DOMAIN db.boardTasks :
        LET task == db.boardTasks[t]
        IN  /\ task.association \in DOMAIN db.associations
            /\ {task.creator, task.supervisor} \subseteq Accounts
            /\ task.status \in BoardTaskStatuses
=============================================================================
