CONSTANTS
  Kinds = {"joint_position", "cartesian_pose", "cartesian_orientation", "cartesian_elbow",
           "elbow", "cartesian_velocity", "joint_velocity", "joint_impedance",
           "joint_impedance_with_ik", "move_to_start", "gravity_compensation", "model", "gripper"}
  Top = 3
  Goal = 1
  Skips = {1, 2}
  MaxOrders = 2
SPECIFICATION FairSpec
INVARIANTS BoundAsUsed FinishedMeansReached
PROPERTIES NoJump MotionEnds
CHECK_DEADLOCK FALSE
