SPECIFICATION Spec
CONSTANT LastDay = 146100
PROPERTY FollowsCalendar
